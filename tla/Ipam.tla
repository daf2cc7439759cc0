-------------------------------- MODULE Ipam --------------------------------
(***************************************************************************)
(* Network cards and IP addresses: the transactions of VmsService.create   *)
(* and addNic, the four separate statements of removeNic, the cascade of a *)
(* VM's deletion (backend/src/vms/vms.service.ts) and deletePool           *)
(* (backend/src/networks/networks.controller.ts), interleaved.             *)
(*                                                                         *)
(* PostgreSQL is external: READ COMMITTED transactions, a row lock from    *)
(* the first write of a row to the end of the transaction, and an update   *)
(* that waits for the lock and then tests its WHERE clause again.          *)
(*                                                                         *)
(* Each API call is a process that runs once.  A call that inserts a NIC   *)
(* gives the NIC its own name, so a Nic is a Call.                         *)
(***************************************************************************)
EXTENDS Naturals, FiniteSets

CONSTANTS
  Call,       \* the API calls
  KindOf,     \* KindOf[c]: which operation c is
  TargetVm,   \* TargetVm[c]: the VM that c creates or changes
  Pool,
  PoolOf,     \* PoolOf[c]: the pool that c takes an address of, or deletes
  Addr,       \* addresses, in the order of the column
  HomePool,   \* HomePool[a]: the pool of a
  Vm, NoCall, NoAddr

Kinds == {"create", "addNic", "removeNic", "deletePool"}

ASSUME IpamAssumption ==
  /\ KindOf \in [Call -> Kinds]
  /\ TargetVm \in [Call -> Vm]
  /\ PoolOf \in [Call -> Pool]
  /\ Addr \subseteq Nat
  /\ HomePool \in [Addr -> Pool]
  /\ NoCall \notin Call
  /\ NoAddr \notin Addr

VARIABLES
  vm,      \* the VM rows: "none", "up" or "gone"
  nic,     \* the NIC that call c inserts: "none", "up" or "gone"
  pools,   \* the pools that exist; their addresses exist with them
  owner,   \* ip_addresses.nicId, committed
  lock,    \* the transaction that has written the address row
  pc,      \* where each call stands
  chosen,  \* the address that findFirst returned to c
  victim   \* the NIC that removeNic call c removes

vars == <<vm, nic, pools, owner, lock, pc, chosen, victim>>

Inserts(c) == KindOf[c] \in {"create", "addNic"}

TypeOK ==
  /\ vm \in [Vm -> {"none", "up", "gone"}]
  /\ nic \in [Call -> {"none", "up", "gone"}]
  /\ pools \subseteq Pool
  /\ owner \in [Addr -> Call \union {NoCall}]
  /\ lock \in [Addr -> Call \union {NoCall}]
  /\ pc \in [Call -> {"start", "chosen", "written", "checked", "released",
                      "done", "rejected"}]
  /\ chosen \in [Call -> Addr \union {NoAddr}]
  /\ victim \in [Call -> Call \union {NoCall}]

Init ==
  /\ vm = [v \in Vm |-> "none"]
  /\ nic = [c \in Call |-> "none"]
  /\ pools = Pool
  /\ owner = [a \in Addr |-> NoCall]
  /\ lock = [a \in Addr |-> NoCall]
  /\ pc = [c \in Call |-> "start"]
  /\ chosen = [c \in Call |-> NoAddr]
  /\ victim = [c \in Call |-> NoCall]

Goto(c, label) == pc' = [pc EXCEPT ![c] = label]

NicsOf(v) == {n \in Call : nic[n] = "up" /\ TargetVm[n] = v}

-----------------------------------------------------------------------------
(* create and addNic: insert the NIC, look for a free address, write it,   *)
(* commit.  Nothing of it is visible before the commit.                    *)

FreeAddrs(p) == {a \in Addr : /\ p \in pools
                              /\ HomePool[a] = p
                              /\ owner[a] = NoCall}

\* The NIC's VM: a new row of the same transaction, or a row that exists.
VmReady(c) == vm[TargetVm[c]] = IF KindOf[c] = "create" THEN "none" ELSE "up"

\* findFirst; create asks for the least address, addNic for any.
Choose(c) ==
  /\ Inserts(c)
  /\ pc[c] = "start"
  /\ VmReady(c)
  /\ \E a \in FreeAddrs(PoolOf[c]) :
       /\ KindOf[c] = "create" => \A b \in FreeAddrs(PoolOf[c]) : a <= b
       /\ chosen' = [chosen EXCEPT ![c] = a]
  /\ Goto(c, "chosen")
  /\ UNCHANGED <<vm, nic, pools, owner, lock, victim>>

Rejected(c) == Goto(c, "rejected") /\ UNCHANGED <<vm, nic, pools, owner, lock,
                                                  chosen, victim>>

NothingFree(c) ==
  /\ Inserts(c)
  /\ pc[c] = "start"
  /\ VmReady(c)
  /\ FreeAddrs(PoolOf[c]) = {}
  /\ Rejected(c)

MutantUnguardedUpdate(c, a) == HomePool[a] \in pools

\* The WHERE clause: create's updateMany asks that the address still be free,
\* addNic's update only names the row.
Writable(c, a) ==
  /\ HomePool[a] \in pools
  /\ KindOf[c] = "create" => owner[a] = NoCall

Write(c) ==
  LET a == chosen[c] IN
  /\ Inserts(c)
  /\ pc[c] = "chosen"
  /\ lock[a] = NoCall
  /\ Writable(c, a)
  /\ lock' = [lock EXCEPT ![a] = c]
  /\ Goto(c, "written")
  /\ UNCHANGED <<vm, nic, pools, owner, chosen, victim>>

\* count 0, or no row to update: the transaction is rolled back.
WriteMisses(c) ==
  /\ Inserts(c)
  /\ pc[c] = "chosen"
  /\ lock[chosen[c]] = NoCall
  /\ ~Writable(c, chosen[c])
  /\ Rejected(c)

Commit(c) ==
  /\ Inserts(c)
  /\ pc[c] = "written"
  /\ nic' = [nic EXCEPT ![c] = "up"]
  /\ vm' = [vm EXCEPT ![TargetVm[c]] = "up"]
  /\ owner' = [owner EXCEPT ![chosen[c]] = c]
  /\ lock' = [lock EXCEPT ![chosen[c]] = NoCall]
  /\ Goto(c, "done")
  /\ UNCHANGED <<pools, chosen, victim>>

\* The transaction fails for another reason, such as a taken VM name or MAC.
Rollback(c) ==
  /\ Inserts(c)
  /\ pc[c] \in {"chosen", "written"}
  /\ lock' = [a \in Addr |-> IF lock[a] = c THEN NoCall ELSE lock[a]]
  /\ Goto(c, "rejected")
  /\ UNCHANGED <<vm, nic, pools, owner, chosen, victim>>

-----------------------------------------------------------------------------
(* removeNic: find, count, release, delete; no transaction.                *)

Released == NoCall

OwnedBy(n) == {a \in Addr : owner[a] = n}

\* A VM must keep a NIC.
NotTheLast(v) == Cardinality(NicsOf(v)) > 1

CountNics(c) ==
  LET v == TargetVm[c] IN
  /\ KindOf[c] = "removeNic"
  /\ pc[c] = "start"
  /\ vm[v] = "up"
  /\ IF NotTheLast(v)
     THEN /\ \E n \in NicsOf(v) : victim' = [victim EXCEPT ![c] = n]
          /\ Goto(c, "checked")
     ELSE Goto(c, "rejected") /\ UNCHANGED victim
  /\ UNCHANGED <<vm, nic, pools, owner, lock, chosen>>

ReleaseAddrs(c) ==
  /\ pc[c] = "checked" /\ KindOf[c] = "removeNic"
  /\ \A a \in OwnedBy(victim[c]) : lock[a] = NoCall
  /\ owner' = [a \in Addr |-> IF owner[a] = victim[c] THEN Released ELSE owner[a]]
  /\ Goto(c, "released")
  /\ UNCHANGED <<vm, nic, pools, lock, chosen, victim>>

\* delete throws when the NIC has gone meanwhile.
DeleteNic(c) ==
  /\ pc[c] = "released"
  /\ nic' = [nic EXCEPT ![victim[c]] = "gone"]
  /\ Goto(c, IF nic[victim[c]] = "up" THEN "done" ELSE "rejected")
  /\ UNCHANGED <<vm, pools, owner, lock, chosen, victim>>

-----------------------------------------------------------------------------
(* vm.delete by the worker: the NICs go with the VM, their addresses are   *)
(* set free.  It waits for a transaction that inserts a NIC of the VM or   *)
(* has written one of the addresses.                                       *)

DeleteVm(v) ==
  /\ vm[v] = "up"
  /\ \A c \in Call : Inserts(c) /\ TargetVm[c] = v
                       => pc[c] \notin {"chosen", "written"}
  /\ \A n \in NicsOf(v) : \A a \in OwnedBy(n) : lock[a] = NoCall
  /\ vm' = [vm EXCEPT ![v] = "gone"]
  /\ nic' = [n \in Call |-> IF n \in NicsOf(v) THEN "gone" ELSE nic[n]]
  /\ owner' = [a \in Addr |-> IF owner[a] \in NicsOf(v) THEN NoCall
                                                        ELSE owner[a]]
  /\ UNCHANGED <<pools, lock, pc, chosen, victim>>

-----------------------------------------------------------------------------
(* deletePool: count the addresses in use, then delete the pool and, by    *)
(* cascade, its addresses.                                                 *)

PoolInUse(p) == \E a \in Addr : HomePool[a] = p /\ owner[a] # NoCall

CountInUse(c) ==
  /\ KindOf[c] = "deletePool"
  /\ pc[c] = "start"
  /\ Goto(c, IF PoolOf[c] \notin pools \/ PoolInUse(PoolOf[c]) THEN "rejected"
                                                              ELSE "checked")
  /\ UNCHANGED <<vm, nic, pools, owner, lock, chosen, victim>>

DeletePool(c) ==
  LET p == PoolOf[c] IN
  /\ KindOf[c] = "deletePool"
  /\ pc[c] = "checked"
  /\ \A a \in Addr : HomePool[a] = p => lock[a] = NoCall
  /\ pools' = pools \ {p}
  /\ owner' = [a \in Addr |-> IF HomePool[a] = p THEN NoCall ELSE owner[a]]
  /\ Goto(c, IF p \in pools THEN "done" ELSE "rejected")
  /\ UNCHANGED <<vm, nic, lock, chosen, victim>>

-----------------------------------------------------------------------------
Next ==
  \/ \E c \in Call :
       \/ Choose(c)
       \/ NothingFree(c)
       \/ Write(c)
       \/ WriteMisses(c)
       \/ Commit(c)
       \/ Rollback(c)
       \/ CountNics(c)
       \/ ReleaseAddrs(c)
       \/ DeleteNic(c)
       \/ CountInUse(c)
       \/ DeletePool(c)
  \/ \E v \in Vm : DeleteVm(v)

Spec == Init /\ [][Next]_vars
-----------------------------------------------------------------------------
(* Properties.                                                             *)

\* NIC n gives its addresses back: it is gone, or removeNic has released them.
GivesBack(n) ==
  \/ nic[n] = "gone"
  \/ \E c \in Call : victim[c] = n /\ pc[c] = "released"

\* An address that a NIC has been given stays with it until the NIC is
\* removed: of all calls that run at the same time, only an addNic that chose
\* the address before, or the deletion of its pool, can take it away.  create
\* looks and writes in two steps as well, but its write asks again.
AddressStays ==
  [][\A a \in Addr, n \in Call :
       owner[a] = n /\ owner'[a] # n =>
         \/ GivesBack(n)'
         \/ HomePool[a] \notin pools'
         \/ KindOf[owner'[a]] = "addNic"]_vars

-----------------------------------------------------------------------------
(* The inductive invariant behind AddressStays.                            *)

\* A transaction past findFirst has an address in hand.
ChosenInv ==
  \A c \in Call : Inserts(c) /\ pc[c] \in {"chosen", "written"} =>
    chosen[c] \in Addr

\* A transaction that has written its address row holds the row's lock until
\* it ends; while a create holds it, the committed row has no owner.
LockInv ==
  \A c \in Call : Inserts(c) /\ pc[c] = "written" =>
    /\ lock[chosen[c]] = c
    /\ KindOf[c] = "create" => owner[chosen[c]] = NoCall

IInv == TypeOK /\ ChosenInv /\ LockInv
=============================================================================
