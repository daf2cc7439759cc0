------------------------------- MODULE VmForm -------------------------------
(***************************************************************************)
(* The form with which a virtual machine is created: the state of           *)
(* CreateVmPage, its effects, and what create of VmsService makes of what   *)
(* it sends.                                                                *)
(*                                                                         *)
(* The backend looks for a storage pool on the node that the machine is     *)
(* placed on, but takes any IP pool for any network: that the addresses of  *)
(* a machine belong to its networks rests on the form alone.                *)
(*                                                                         *)
(* The fields whose limits in the page are those of CreateVmDto (name,      *)
(* processors, memory, boot order, tags, cloud-init) are left out.  Time    *)
(* between the request and its answer is, too: the request holds what the   *)
(* form held when it was sent.                                              *)
(***************************************************************************)
EXTENDS Naturals, Sequences, SequencesExt

CONSTANTS
  NodeOfPool,      \* the nodes of the storage pools, by pool
  NetworkOfPool,   \* the networks of the IP pools, by pool
  MinDiskGb,       \* the smallest disk of each template
  FirstTemplate,   \* the template that the list starts with
  DiskSizes,       \* sizes of disks that the user may type
  MaxRows,         \* bound of the model: disks and NICs
  Nothing          \* the empty choice of a select

ASSUME FormAssumption == FirstTemplate \in DOMAIN MinDiskGb

VARIABLES
  nodeId,      \* the node chosen, or Nothing for the scheduler
  offline,     \* nodes that are not online
  templates,   \* whether the templates have been read
  templateId,  \* the template chosen
  disks,       \* size and storage pool of each disk
  nics,        \* network and IP pool of each NIC
  outcome,     \* "editing", or what the last submit led to
  vm           \* the machine that was created: its node, disks and NICs

choices == <<nodeId, templateId, disks, nics>>
world == <<offline, templates>>
formVars == <<choices, world, outcome, vm>>

Node == {NodeOfPool[p] : p \in DOMAIN NodeOfPool}
Network == {NetworkOfPool[p] : p \in DOMAIN NetworkOfPool}

\* The lists that the selects of a row offer.
StoragePools(n) == {p \in DOMAIN NodeOfPool : NodeOfPool[p] = n}
IpPools(net) == {p \in DOMAIN NetworkOfPool : NetworkOfPool[p] = net}

NewDisk(gb) == [sizeGb |-> gb, storagePoolId |-> Nothing]
NewNic == [networkId |-> Nothing, ipPoolId |-> Nothing]

FirstDisks == <<NewDisk(40)>>

FormInit ==
  /\ nodeId = Nothing
  /\ offline = {}
  /\ templates = FALSE
  /\ templateId = Nothing
  /\ disks = FirstDisks
  /\ nics = <<NewNic>>
  /\ outcome = "editing"
  /\ vm = Nothing

-----------------------------------------------------------------------------
(* The effects of the page and its fields.                                 *)

\* The second effect runs when the template or the list changes: the first
\* disk becomes large enough.
Prefilled(rows, t) ==
  IF rows[1].sizeGb < MinDiskGb[t] THEN [rows EXCEPT ![1].sizeGb = MinDiskGb[t]] ELSE rows

\* The first effect does not leave a template unchosen once there are some, so
\* a machine without one cannot be ordered.
TemplateIs(t) ==
  /\ templateId' = IF t = Nothing THEN FirstTemplate ELSE t
  /\ disks' = Prefilled(disks, templateId')

TemplatesArrive ==
  /\ ~templates
  /\ templates' = TRUE
  /\ TemplateIs(templateId)
  /\ UNCHANGED <<nodeId, nics, offline, outcome, vm>>

ChooseTemplate(t) ==
  /\ templates
  /\ TemplateIs(t)
  /\ UNCHANGED <<nodeId, nics, world, outcome, vm>>

MutantWithoutPools == disks

\* The pools of another node are not those of the chosen one.
WithoutPools == [i \in DOMAIN disks |-> [disks[i] EXCEPT !.storagePoolId = Nothing]]

ChooseNode(n) ==
  /\ n \notin offline
  /\ nodeId' = n
  /\ disks' = WithoutPools
  /\ UNCHANGED <<templateId, nics, world, outcome, vm>>

AddDisk ==
  /\ Len(disks) < MaxRows
  /\ disks' = Append(disks, NewDisk(20))
  /\ UNCHANGED <<nodeId, templateId, nics, world, outcome, vm>>

RemoveDisk(i) ==
  /\ Len(disks) > 1
  /\ disks' = RemoveAt(disks, i)
  /\ UNCHANGED <<nodeId, templateId, nics, world, outcome, vm>>

SizeDisk(i, gb) ==
  /\ disks' = [disks EXCEPT ![i].sizeGb = gb]
  /\ UNCHANGED <<nodeId, templateId, nics, world, outcome, vm>>

\* The select is disabled without a node.
ChooseStoragePool(i, p) ==
  /\ nodeId # Nothing
  /\ p \in StoragePools(nodeId) \cup {Nothing}
  /\ disks' = [disks EXCEPT ![i].storagePoolId = p]
  /\ UNCHANGED <<nodeId, templateId, nics, world, outcome, vm>>

AddNic ==
  /\ Len(nics) < MaxRows
  /\ nics' = Append(nics, NewNic)
  /\ UNCHANGED <<nodeId, templateId, disks, world, outcome, vm>>

RemoveNic(i) ==
  /\ Len(nics) > 1
  /\ nics' = RemoveAt(nics, i)
  /\ UNCHANGED <<nodeId, templateId, disks, world, outcome, vm>>

MutantOnNetwork(nic, net) == [nic EXCEPT !.networkId = net]

\* The IP pool is chosen anew with the network.
OnNetwork(nic, net) == [networkId |-> net, ipPoolId |-> Nothing]

ChooseNetwork(i, net) ==
  /\ nics' = [nics EXCEPT ![i] = OnNetwork(@, net)]
  /\ UNCHANGED <<nodeId, templateId, disks, world, outcome, vm>>

ChooseIpPool(i, p) ==
  /\ nics[i].networkId # Nothing
  /\ p \in IpPools(nics[i].networkId) \cup {Nothing}
  /\ nics' = [nics EXCEPT ![i].ipPoolId = p]
  /\ UNCHANGED <<nodeId, templateId, disks, world, outcome, vm>>

-----------------------------------------------------------------------------
(* The request.                                                            *)

\* CreateVmDto: every NIC names a network.  The page asks for the first only.
ValidRequest == \A i \in DOMAIN nics : nics[i].networkId # Nothing

\* pickNode: the chosen node when it is online, or one of those that are.
Placements ==
  IF nodeId = Nothing THEN Node \ offline ELSE {nodeId} \ offline

\* The pool a volume is made in: the chosen one, looked up on the node, or the
\* default pool of the node.
OnNode(n) == \A i \in DOMAIN disks : disks[i].storagePoolId \in StoragePools(n) \cup {Nothing}

Created(n) ==
  [node |-> n, pools |-> {disks[i].storagePoolId : i \in DOMAIN disks},
   nics |-> {nics[i] : i \in DOMAIN nics}]

\* The page goes over to the new machine; the form is gone.
Succeeds ==
  /\ ValidRequest
  /\ \E n \in Placements : OnNode(n) /\ vm' = Created(n)
  /\ outcome' = "created"

\* The DTO, the node, a pool without a free address, a name that is taken, a
\* licence or a quota: the message is shown and the form stays as it is.
IsRefused ==
  /\ outcome' = "refused"
  /\ UNCHANGED vm

\* submit asks for the network of the first NIC.
Submit ==
  /\ outcome # "created"
  /\ nics[1].networkId # Nothing
  /\ Succeeds \/ IsRefused
  /\ UNCHANGED <<choices, world>>

\* The page is opened again; the templates are in the cache.
OpenAgain ==
  /\ outcome = "created"
  /\ outcome' = "editing"
  /\ nodeId' = Nothing
  /\ templateId' = IF templates THEN FirstTemplate ELSE Nothing
  /\ disks' = IF templates THEN Prefilled(FirstDisks, FirstTemplate) ELSE FirstDisks
  /\ nics' = <<NewNic>>
  /\ vm' = Nothing
  /\ UNCHANGED world

\* A node goes offline, or comes back, and the list of nodes is read again:
\* the select then shows another entry, but the choice stays.
NodeTurns(n) ==
  /\ offline' = IF n \in offline THEN offline \ {n} ELSE offline \cup {n}
  /\ UNCHANGED <<choices, templates, outcome, vm>>

Edit ==
  \/ TemplatesArrive
  \/ \E t \in DOMAIN MinDiskGb \cup {Nothing} : ChooseTemplate(t)
  \/ \E n \in Node \cup {Nothing} : ChooseNode(n)
  \/ AddDisk
  \/ AddNic
  \/ \E i \in DOMAIN disks :
       \/ RemoveDisk(i)
       \/ \E gb \in DiskSizes : SizeDisk(i, gb)
       \/ \E p \in DOMAIN NodeOfPool \cup {Nothing} : ChooseStoragePool(i, p)
  \/ \E i \in DOMAIN nics :
       \/ RemoveNic(i)
       \/ \E net \in Network \cup {Nothing} : ChooseNetwork(i, net)
       \/ \E p \in DOMAIN NetworkOfPool \cup {Nothing} : ChooseIpPool(i, p)

FormNext ==
  \/ outcome # "created" /\ Edit
  \/ Submit
  \/ OpenAgain
  \/ \E n \in Node : NodeTurns(n)

FormSpec == FormInit /\ [][FormNext]_formVars

-----------------------------------------------------------------------------
(* Properties.                                                             *)

\* However the rows are added, removed and changed, the addresses of a machine
\* come from pools of the networks of its NICs, and the pools in the form are
\* those of the node it is ordered for: no request fails, or makes a machine
\* that cannot be reached, because a choice was left over from another one.
FormFits ==
  /\ \A i \in DOMAIN disks : disks[i].storagePoolId \in StoragePools(nodeId) \cup {Nothing}
  /\ vm # Nothing =>
       /\ vm.pools \subseteq StoragePools(vm.node) \cup {Nothing}
       /\ \A nic \in vm.nics : nic.ipPoolId \in IpPools(nic.networkId) \cup {Nothing}
=============================================================================
