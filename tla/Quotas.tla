------------------------------- MODULE Quotas -------------------------------
(***************************************************************************)
(* Quotas of roles: QuotasService.checkVmCreateQuota reads what the caller *)
(* owns, VmsService.create inserts the machine several statements later,   *)
(* in a transaction that does not look at the quota again.  clone inserts  *)
(* a machine and resize writes the new size without a check, and an        *)
(* administrator whose own quota was checked may create a machine for      *)
(* somebody else.  All users share one role here.  size stands for each of the three sums (vCPUs, memory,      *)
(* disk), which are checked alike.                                         *)
(***************************************************************************)
EXTENDS Naturals, FiniteSets, FiniteSetsExt

CONSTANTS Owners,      \* users
          Requests,    \* create requests under way at once
          VmIds,       \* machines that may be created
          Sizes,       \* sizes of a machine
          VmLimits,    \* limits on the number of machines the role may get
          NoLimit      \* null in the quota: a number above every other

VARIABLES quota,       \* table ResourceQuota: the row of the role
          machine,     \* table Vm: owner and size; history: by, the user whose
                       \* quota was checked for it, Nobody for a clone
          request,     \* create requests between the check and the insert
          generous     \* history: for each user the largest limit a check of his
                       \* has passed, NoLimit if one has passed without

quotaVars == <<quota, machine, request, generous>>

NoQuota == [maxVms |-> NoLimit, maxSize |-> NoLimit]
MaxSizes == {1 + Max(Sizes), NoLimit}
Nobody == "nobody"

ASSUME QuotaAssumption ==
  /\ IsFiniteSet(VmIds) /\ IsFiniteSet(Requests) /\ Requests # {}
  /\ NoLimit \in Nat /\ VmLimits \subseteq 0 .. NoLimit - 1
  /\ Nobody \notin Owners

NoVm == [owner |-> Nobody, by |-> Nobody, size |-> 0]
NoRequest == [busy |-> FALSE, user |-> Nobody, size |-> 0]

QuotaTypeOK ==
  /\ quota \in [maxVms : VmLimits \cup {NoLimit}, maxSize : MaxSizes]
  /\ machine \in [VmIds -> [owner : Owners \cup {Nobody}, by : Owners \cup {Nobody}, size : Sizes \cup {0}]]
  /\ request \in [Requests -> [busy : BOOLEAN, user : Owners \cup {Nobody}, size : Sizes \cup {0}]]
  /\ generous \in [Owners -> VmLimits \cup {0, NoLimit}]

QuotaInit ==
  /\ quota = NoQuota
  /\ machine = [v \in VmIds |-> NoVm]
  /\ request = [r \in Requests |-> NoRequest]
  /\ generous = [u \in Owners |-> 0]

MachinesOf(u) == {v \in VmIds : machine[v].owner = u}
SizeOf(u) == MapThenSumSet(LAMBDA v : machine[v].size, MachinesOf(u))

-----------------------------------------------------------------------------
UpsertQuota ==
  /\ \E n \in VmLimits, s \in MaxSizes : quota' = [maxVms |-> n, maxSize |-> s]
  /\ UNCHANGED <<machine, request, generous>>

RemoveQuota ==
  /\ quota' = NoQuota
  /\ UNCHANGED <<machine, request, generous>>

\* (Defect for a mutant run: the last machine is counted one too late.)
MutantExceeded(u, size) ==
  \/ quota.maxVms # NoLimit /\ Cardinality(MachinesOf(u)) > quota.maxVms
  \/ quota.maxSize # NoLimit /\ SizeOf(u) + size > quota.maxSize

\* NoLimit is out of reach of both comparisons, as a quota of null is.
Exceeded(u, size) ==
  \/ quota.maxVms # NoLimit /\ Cardinality(MachinesOf(u)) >= quota.maxVms
  \/ quota.maxSize # NoLimit /\ SizeOf(u) + size > quota.maxSize

\* The check passes; a request that fails it answers 403 and changes nothing.
CheckQuota(r) ==
  /\ ~request[r].busy
  /\ \E u \in Owners, s \in Sizes :
       /\ ~Exceeded(u, s)
       /\ request' = [request EXCEPT ![r] = [busy |-> TRUE, user |-> u, size |-> s]]
       /\ generous' = [generous EXCEPT ![u] = IF quota.maxVms > @ THEN quota.maxVms ELSE @]
  /\ UNCHANGED <<quota, machine>>

\* The transaction of create, for the caller or, by an administrator, for another.
InsertVm(r) ==
  /\ request[r].busy
  /\ \E v \in VmIds, o \in Owners :
       /\ machine[v] = NoVm
       /\ machine' = [machine EXCEPT ![v] = [owner |-> o, by |-> request[r].user, size |-> request[r].size]]
  /\ request' = [request EXCEPT ![r] = NoRequest]
  /\ UNCHANGED <<quota, generous>>

\* The name is taken, no node or address is free: the request ends without a row.
CreateFails(r) ==
  /\ request[r].busy
  /\ request' = [request EXCEPT ![r] = NoRequest]
  /\ UNCHANGED <<quota, machine, generous>>

\* clone: the copy belongs to the caller, and no quota is looked at.
CloneVm(v) ==
  /\ machine[v] # NoVm
  /\ \E w \in VmIds, o \in Owners :
       /\ machine[w] = NoVm
       /\ machine' = [machine EXCEPT ![w] = [owner |-> o, by |-> Nobody, size |-> machine[v].size]]
  /\ UNCHANGED <<quota, request, generous>>

ResizeVm(v) ==
  /\ machine[v] # NoVm
  /\ \E s \in Sizes : machine' = [machine EXCEPT ![v].size = s]
  /\ UNCHANGED <<quota, request, generous>>

RemoveVm(v) ==
  /\ machine[v] # NoVm
  /\ machine' = [machine EXCEPT ![v] = NoVm]
  /\ UNCHANGED <<quota, request, generous>>

QuotaNext ==
  \/ UpsertQuota \/ RemoveQuota
  \/ \E r \in Requests : CheckQuota(r) \/ InsertVm(r) \/ CreateFails(r)
  \/ \E v \in VmIds : CloneVm(v) \/ ResizeVm(v) \/ RemoveVm(v)

QuotaSpec == QuotaInit /\ [][QuotaNext]_quotaVars

-----------------------------------------------------------------------------
(* Properties.                                                              *)

MadeForSelf(u) == {v \in MachinesOf(u) : machine[v].by = u}
UnderWay(u) == {r \in Requests : request[r].busy /\ request[r].user = u}

\* The check and the insert of create are not atomic, so a user can go over the limit
\* by creating, but only by the requests that were under way together: what he has
\* created for himself, with what is under way, stays below the most generous limit a
\* check has passed plus the number of requests that fit in between.  Clones are not
\* among it: they count when a quota is checked, but nothing bounds them.
QuotaOverrunIsBounded ==
  \A u \in Owners :
    generous[u] # NoLimit =>
      Cardinality(MadeForSelf(u)) + Cardinality(UnderWay(u))
        < generous[u] + Cardinality(Requests)
=============================================================================
