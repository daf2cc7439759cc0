---------------------------- MODULE VmLifecycle ----------------------------
(***************************************************************************)
(* The life of a virtual machine: VmsService (backend/src/vms), the node   *)
(* agent that carries out its commands (agent/internal/server, virt and    *)
(* storage) and the heartbeats by which the agent reports what libvirt     *)
(* runs (agent/internal/heartbeat, backend/src/nodes).                     *)
(*                                                                         *)
(* The panel keeps a row per VM, the node keeps a libvirt domain and disk  *)
(* files per VM NAME.  Commands travel as tasks that are executed          *)
(* concurrently, are retried, and give up waiting for the agent after      *)
(* 120 s while the agent goes on.  Nothing orders the tasks of one VM.     *)
(*                                                                         *)
(* One node.  The stores of TasksService (see TaskQueue) are reduced here  *)
(* to the state of the job; VmsService is taken to be the handler.         *)
(***************************************************************************)
EXTENDS Naturals, FiniteSets

CONSTANTS
  Vm,          \* ids of VM rows
  Name,        \* VM names; the name is all the agent knows of a VM
  NameOf,      \* NameOf[v]: the name that row v is created with
  Task,        \* the tasks that may be enqueued: bounds the API calls
  PowerKinds,  \* the power actions that callers use
  SlowKinds,   \* kinds whose agent call may outlast the client's 120 s
  Attempts,    \* job option attempts
  MaySuspend,  \* names whose guest may be paused by the hypervisor
  NoVm

ASSUME VmAssumption ==
  /\ NameOf \in [Vm -> Name]
  /\ PowerKinds \subseteq {"start", "stop", "restart"}
  /\ SlowKinds \subseteq PowerKinds \union {"provision", "delete"}
  /\ MaySuspend \subseteq Name
  /\ Attempts \in Nat \ {0}
  /\ NoVm \notin Vm

VARIABLES
  row,       \* vms.state in PostgreSQL
  task,      \* the jobs
  requests,  \* agent requests that are being executed or not yet answered
  domain,    \* libvirt's domain of each name
  disks,     \* the VM whose provisioning created the disk files of a name
  reports,   \* heartbeat entries <<name, state>> under way or being applied
  raced,     \* history: VMs whose deletion overlapped another command
  skipped    \* history: VMs of which a deletion passed over an error

nodeVars == <<domain, disks>>
vars == <<row, task, requests, nodeVars, reports, raced, skipped>>

Kinds == {"provision", "start", "stop", "restart", "delete"}
Shown == {"running", "stopped", "paused"}   \* the states a heartbeat may set
RowState == Shown \union {"none", "provisioning", "deleting", "gone"}
TaskPc == {"unused", "waiting", "calling", "answered", "done", "failed"}
Ended == {"ok", "err"}
RequestPc == Ended \union
  {"disks", "define", "power", "stop", "draining", "kill", "undefine", "wipe"}

NoDomain == [st |-> "absent", spec |-> NoVm, persistent |-> FALSE]
Domain == [st : {"shutoff", "running", "paused"}, spec : Vm,
           persistent : BOOLEAN]

Unused == [kind |-> "start", vm |-> NoVm, pc |-> "unused", failures |-> 0]

TypeOK ==
  /\ row \in [Vm -> RowState]
  /\ task \in [Task -> [kind : Kinds, vm : Vm \union {NoVm}, pc : TaskPc,
                        failures : 0 .. Attempts]]
  /\ requests \subseteq [task : Task, try : 0 .. Attempts, kind : Kinds,
                         vm : Vm, pc : RequestPc, awaited : BOOLEAN]
  /\ domain \in [Name -> Domain \union {NoDomain}]
  /\ disks \in [Name -> Vm \union {NoVm}]
  /\ reports \subseteq Name \X Shown
  /\ raced \subseteq Vm /\ skipped \subseteq Vm

Init ==
  /\ row = [v \in Vm |-> "none"]
  /\ task = [t \in Task |-> Unused]
  /\ requests = {}
  /\ domain = [n \in Name |-> NoDomain]
  /\ disks = [n \in Name |-> NoVm]
  /\ reports = {}
  /\ raced = {} /\ skipped = {}

Exists(v) == row[v] \notin {"none", "gone"}

-----------------------------------------------------------------------------
(* The API.  A call changes the row and then enqueues its task; the gap    *)
(* between the two is the subject of TaskQueue, and a task that is already *)
(* enqueued may wait, so here they are one step.                           *)

Free == {t \in Task : task[t].pc = "unused"}

Enqueue(kind, v) ==
  /\ Free # {}
  /\ LET t == CHOOSE u \in Free : TRUE
     IN task' = [task EXCEPT ![t] = [kind |-> kind, vm |-> v,
                                    pc |-> "waiting", failures |-> 0]]

MutantNameFree(v) == TRUE  \* neither the lookup nor the unique index

\* The name must not belong to a row that still exists.
NameFree(v) == \A w \in Vm : Exists(w) => NameOf[w] # NameOf[v]

Create(v) ==
  /\ row[v] = "none"
  /\ NameFree(v)
  /\ row' = [row EXCEPT ![v] = "provisioning"]
  /\ Enqueue("provision", v)
  /\ UNCHANGED <<requests, nodeVars, reports, raced, skipped>>

\* power does not look at the state of the VM.
Power(v, kind) ==
  /\ Exists(v)
  /\ Enqueue(kind, v)
  /\ UNCHANGED <<row, requests, nodeVars, reports, raced, skipped>>

Remove(v) ==
  /\ Exists(v)
  /\ row' = [row EXCEPT ![v] = "deleting"]
  /\ Enqueue("delete", v)
  /\ UNCHANGED <<requests, nodeVars, reports, raced, skipped>>

-----------------------------------------------------------------------------
(* The worker: VmsService.handle.                                          *)

FirstStep(kind) == CASE kind = "provision" -> "disks"
                     [] kind = "start" -> "power"
                     [] kind \in {"stop", "restart"} -> "stop"
                     [] kind = "delete" -> "kill"

\* The commands of VM v that have begun: a task past its reads, or a request
\* that the agent still executes although nobody waits for it.
Begun(v) ==
  {t \in Task : task[t].vm = v /\ task[t].pc \in {"calling", "answered"}}
    \union {r.task : r \in {q \in requests : q.vm = v}}

Overlaps(t) ==
  LET others == Begun(task[t].vm)
  IN \E u \in others : "delete" \in {task[t].kind, task[u].kind}

\* The row is gone: the task is a no-op.
HandleMissing(t) ==
  /\ task[t].pc = "waiting"
  /\ ~Exists(task[t].vm)
  /\ task' = [task EXCEPT ![t].pc = "done"]
  /\ UNCHANGED <<row, requests, nodeVars, reports, raced, skipped>>

\* The row and the node are read and the agent is called with what was read.
HandleCall(t) ==
  LET v == task[t].vm IN
  /\ task[t].pc = "waiting"
  /\ Exists(v)
  /\ task' = [task EXCEPT ![t].pc = "calling"]
  /\ requests' = requests \union
       {[task |-> t, try |-> task[t].failures, kind |-> task[t].kind, vm |-> v,
         pc |-> FirstStep(task[t].kind), awaited |-> TRUE]}
  /\ raced' = IF Overlaps(t) THEN raced \union {v} ELSE raced
  /\ UNCHANGED <<row, nodeVars, reports, skipped>>

OutOfAttempts(f) == f >= Attempts

\* The handler throws: BullMQ runs the task again, or gives it up.
Throw(t) ==
  LET f == task[t].failures + 1
  IN task' = [task EXCEPT ![t].failures = f,
                          ![t].pc = IF OutOfAttempts(f) THEN "failed"
                                                        ELSE "waiting"]

Awaits(t, r) == r.task = t /\ r.awaited /\ task[t].pc = "calling"

AgentAnswers(t) ==
  \E r \in requests :
    /\ Awaits(t, r)
    /\ r.pc \in Ended
    /\ requests' = requests \ {r}
    /\ IF r.pc = "ok" THEN task' = [task EXCEPT ![t].pc = "answered"]
                      ELSE Throw(t)
    /\ UNCHANGED <<row, nodeVars, reports, raced, skipped>>

\* The client's timer fires; the agent does not notice.
AgentTimesOut(t) ==
  \E r \in requests :
    /\ Awaits(t, r)
    /\ r.kind \in SlowKinds
    /\ r.pc \notin Ended
    /\ requests' = (requests \ {r}) \union {[r EXCEPT !.awaited = FALSE]}
    /\ Throw(t)
    /\ UNCHANGED <<row, nodeVars, reports, raced, skipped>>

MutantKeepsRow(kind) == IF kind = "stop" THEN "stopped"
                        ELSE IF kind = "delete" THEN "deleting"
                        ELSE "running"

StateAfter(kind) == CASE kind \in {"provision", "start", "restart"} -> "running"
                      [] kind = "stop" -> "stopped"
                      [] kind = "delete" -> "gone"

\* setState, or vm.delete: one update of the row by its id, which throws when
\* the row has been deleted since it was read.
HandleReturn(t) ==
  LET v == task[t].vm IN
  /\ task[t].pc = "answered"
  /\ IF Exists(v)
     THEN /\ row' = [row EXCEPT ![v] = StateAfter(task[t].kind)]
          /\ task' = [task EXCEPT ![t].pc = "done"]
     ELSE /\ Throw(t)
          /\ UNCHANGED row
  /\ UNCHANGED <<requests, nodeVars, reports, raced, skipped>>

Worker(t) ==
  \/ HandleMissing(t)
  \/ HandleCall(t)
  \/ AgentAnswers(t)
  \/ HandleReturn(t)

-----------------------------------------------------------------------------
(* The agent: each request is carried out step by step, on the domain and  *)
(* the disks of the VM's name.                                             *)

Active(n) == domain[n].st \in {"running", "paused"}

Goto(r, label) == requests' = (requests \ {r}) \union {[r EXCEPT !.pc = label]}

\* The response; nobody reads it when the client has given up.
End(r, result) ==
  requests' = (requests \ {r}) \union
                (IF r.awaited THEN {[r EXCEPT !.pc = result]} ELSE {})

\* Switching a domain off; one without a definition disappears.
Destroyed(n) == IF domain[n].persistent THEN [domain[n] EXCEPT !.st = "shutoff"]
                                        ELSE NoDomain

\* A libvirt or file operation fails and ends the request.  The kill and the wipe of
\* a deletion do not: see PassOver.
Fails(r) ==
  /\ r.pc \notin Ended \union {"kill", "wipe"}
  /\ End(r, "err")
  /\ UNCHANGED nodeVars

\* The agent's process ends in the middle of the request and the client sees the
\* connection break.  A restart that cuts several requests is several such steps.
Cut(r) ==
  /\ r.pc \notin Ended
  /\ End(r, "err")
  /\ UNCHANGED nodeVars

\* CreateVolume: a file that is there is taken as it is.
CreateDisks(r) ==
  LET n == NameOf[r.vm] IN
  /\ r.pc = "disks"
  /\ disks' = IF disks[n] = NoVm THEN [disks EXCEPT ![n] = r.vm] ELSE disks
  /\ Goto(r, "define")
  /\ UNCHANGED domain

\* DefineAndStart: a domain that is there is taken as it is.
DefineDomain(r) ==
  LET n == NameOf[r.vm] IN
  /\ r.pc = "define"
  /\ domain' = IF domain[n] = NoDomain
               THEN [domain EXCEPT ![n] = [st |-> "shutoff", spec |-> r.vm,
                                           persistent |-> TRUE]]
               ELSE domain
  /\ Goto(r, "power")
  /\ UNCHANGED disks

\* ensureRunning; libvirt refuses to create a domain that is active already,
\* paused ones included, or one whose disk files are missing.
EnsureRunning(r) ==
  LET n == NameOf[r.vm] IN
  /\ r.pc = "power"
  /\ \/ /\ domain[n].st = "running"
        /\ End(r, "ok")
        /\ UNCHANGED domain
     \/ /\ domain[n].st = "shutoff" /\ disks[n] # NoVm
        /\ domain' = [domain EXCEPT ![n].st = "running"]
        /\ End(r, "ok")
     \/ /\ domain[n].st \in {"absent", "paused"} \/ disks[n] = NoVm
        /\ domain[n].st # "running"
        /\ End(r, "err")
        /\ UNCHANGED domain
  /\ UNCHANGED disks

\* Restart goes on with Start when Stop has returned.
Stopped(r) == IF r.kind = "restart" THEN Goto(r, "power") ELSE End(r, "ok")

\* Stop: by force at once, or by ACPI; force is a parameter of the stop task.
BeginStop(r) ==
  LET n == NameOf[r.vm] IN
  /\ r.pc = "stop"
  /\ \/ domain[n].st = "absent" /\ End(r, "err") /\ UNCHANGED domain
     \/ domain[n].st = "shutoff" /\ Stopped(r) /\ UNCHANGED domain
     \/ /\ Active(n) /\ r.kind = "stop"
        /\ domain' = [domain EXCEPT ![n] = Destroyed(n)]
        /\ End(r, "ok")
     \/ Active(n) /\ Goto(r, "draining") /\ UNCHANGED domain
  /\ UNCHANGED disks

\* The poll sees the guest off, or cannot read its state and takes it for off, or the
\* minute is over and it is destroyed.
Drain(r) ==
  LET n == NameOf[r.vm] IN
  /\ r.pc = "draining"
  /\ \/ UNCHANGED domain
     \/ Active(n) /\ domain' = [domain EXCEPT ![n] = Destroyed(n)]
  /\ Stopped(r)
  /\ UNCHANGED disks

\* Undefine, first half: nothing to do without a domain; a running one is
\* destroyed.
KillDomain(r) ==
  LET n == NameOf[r.vm] IN
  /\ r.pc = "kill"
  /\ domain' = IF domain[n].st = "running"
               THEN [domain EXCEPT ![n] = Destroyed(n)] ELSE domain
  /\ Goto(r, IF domain[n] = NoDomain THEN "wipe" ELSE "undefine")
  /\ UNCHANGED disks

\* Undefine, second half: an active domain only loses its definition.
UndefineDomain(r) ==
  LET n == NameOf[r.vm] IN
  /\ r.pc = "undefine"
  /\ IF domain[n].persistent
     THEN /\ domain' = [domain EXCEPT ![n] =
                          IF Active(n) THEN [@ EXCEPT !.persistent = FALSE]
                                       ELSE NoDomain]
          /\ Goto(r, "wipe")
     ELSE End(r, "err") /\ UNCHANGED domain
  /\ UNCHANGED disks

MutantWipeNothing(n) == disks[n]  \* the names of the files do not match

WipedDisks(n) == NoVm

WipeDisks(r) ==
  LET n == NameOf[r.vm] IN
  /\ r.pc = "wipe"
  /\ disks' = [disks EXCEPT ![n] = WipedDisks(n)]
  /\ End(r, "ok")
  /\ UNCHANGED domain

\* A deletion goes on after an error and answers ok: a domain that cannot be looked up
\* counts as gone, one whose state cannot be read or that cannot be destroyed only
\* loses its definition, and the errors of DeleteVolume and DeleteSeed are dropped.
PassOver(r) ==
  LET n == NameOf[r.vm] IN
  /\ \/ r.pc = "kill" /\ domain[n] # NoDomain /\ Goto(r, "wipe")
     \/ r.pc = "kill" /\ domain[n].st = "running" /\ Goto(r, "undefine")
     \/ r.pc = "wipe" /\ disks[n] # NoVm /\ End(r, "ok")
  /\ skipped' = skipped \union {r.vm}
  /\ UNCHANGED <<row, task, nodeVars, reports, raced>>

Execute(r) ==
  /\ \/ CreateDisks(r)
     \/ DefineDomain(r)
     \/ EnsureRunning(r)
     \/ BeginStop(r)
     \/ Drain(r)
     \/ KillDomain(r)
     \/ UndefineDomain(r)
     \/ WipeDisks(r)
  /\ UNCHANGED <<row, task, reports, raced, skipped>>

Failure(r) == (Fails(r) \/ Cut(r)) /\ UNCHANGED <<row, task, reports, raced, skipped>>

-----------------------------------------------------------------------------
(* The guest and the hypervisor.                                           *)

GuestPowersOff(n) ==
  /\ domain[n].st = "running"
  /\ domain' = [domain EXCEPT ![n] = Destroyed(n)]
  /\ UNCHANGED <<row, task, requests, disks, reports, raced, skipped>>

\* Out of space, an I/O error: the hypervisor pauses the guest.
GuestSuspended(n) ==
  /\ n \in MaySuspend
  /\ domain[n].st = "running"
  /\ domain' = [domain EXCEPT ![n].st = "paused"]
  /\ UNCHANGED <<row, task, requests, disks, reports, raced, skipped>>

-----------------------------------------------------------------------------
(* Heartbeats.  A round lists the domains and is applied VM by VM, later;  *)
(* a slow round is overtaken by the next one (the agent waits 15 s only).  *)

StateString(n) == IF domain[n].st = "shutoff" THEN "stopped" ELSE domain[n].st

Heartbeat ==
  /\ reports' = reports \union
       {<<n, StateString(n)>> : n \in {m \in Name : domain[m] # NoDomain}}
  /\ UNCHANGED <<row, task, requests, nodeVars, raced, skipped>>

MutantPowerStatesOnly(v) == row[v] \in {"running", "stopped"}
MutantAnyState(v) == Exists(v)

Reportable(v) == row[v] \in Shown

ApplyReport(n) ==
  \E st \in Shown :
    /\ <<n, st>> \in reports
    /\ reports' = reports \ {<<n, st>>}
    /\ row' = [v \in Vm |-> IF NameOf[v] = n /\ Reportable(v) THEN st
                                                              ELSE row[v]]
    /\ UNCHANGED <<task, requests, nodeVars, raced, skipped>>

-----------------------------------------------------------------------------
Next ==
  \/ \E v \in Vm : Create(v) \/ Remove(v) \/ \E k \in PowerKinds : Power(v, k)
  \/ \E t \in Task : Worker(t) \/ AgentTimesOut(t)
  \/ \E r \in requests : Execute(r) \/ Failure(r) \/ PassOver(r)
  \/ \E n \in Name : GuestPowersOff(n) \/ GuestSuspended(n) \/ ApplyReport(n)
  \/ Heartbeat

Spec == Init /\ [][Next]_vars

\* The worker and the agent go on with what they have begun, and the agent's
\* ticker and the panel's handler keep the heartbeats coming.
Fairness ==
  /\ \A t \in Task : WF_vars(Worker(t))
  /\ \A t \in Task :
       WF_vars(\E r \in requests : r.task = t /\ (Execute(r) \/ Failure(r)))
  /\ WF_vars(Heartbeat)
  /\ \A n \in Name : WF_vars(ApplyReport(n))

FairSpec == Spec /\ Fairness
-----------------------------------------------------------------------------
(* Properties.                                                             *)

\* No deletion of a VM of this name has overlapped another of its commands or passed
\* over an error.
Orderly(n) == \A w \in raced \union skipped : NameOf[w] # n

\* A deleted VM leaves nothing on its node: when the row is gone, no domain
\* of its specification and no disk of its provisioning is left.  The delete
\* runs on the agent in several steps and the row goes last, so this holds
\* unless a deletion of the name overlapped another command or passed over an error.
DeletedVmIsGone ==
  \A v \in Vm :
    row[v] = "gone" /\ Orderly(NameOf[v]) =>
      /\ domain[NameOf[v]].spec # v
      /\ disks[NameOf[v]] # v

DeleteBegun(v) ==
  \E t \in Task : /\ task[t].vm = v /\ task[t].kind = "delete"
                 /\ (task[t].pc # "waiting" \/ task[t].failures > 0)

\* The agent knows VMs by name and takes what it finds as its own.  A VM that
\* is shown as running, stopped or paused and that no delete task has touched
\* has a domain of its own specification on its own disks, even when the name
\* belonged to a VM before, unless a deletion of the name overlapped another
\* command or passed over an error.
ShownVmIsItself ==
  \A v \in Vm :
    /\ row[v] \in Shown
    /\ ~DeleteBegun(v)
    /\ Orderly(NameOf[v])
    => domain[NameOf[v]].spec = v /\ disks[NameOf[v]] = v

\* A removal is not forgotten: once a row is being deleted it goes away, or
\* the delete task has used up its attempts.  Late setState calls may bring
\* the row back to running meanwhile.
RemovalSettles ==
  \A v \in Vm :
    row[v] = "deleting" ~>
      \/ row[v] = "gone"
      \/ \E t \in Task : /\ task[t].vm = v /\ task[t].kind = "delete"
                         /\ task[t].pc = "failed"

\* Heartbeats repair whatever order the tasks wrote in: in the end a VM that
\* is shown as running, stopped or paused is shown as its domain is.
RowFollowsDomain ==
  <>[](\A v \in Vm :
         row[v] \in Shown /\ domain[NameOf[v]] # NoDomain
         => row[v] = StateString(NameOf[v]))

\* A VM that is being provisioned or deleted leaves that state only when one of
\* its tasks is done (or a removal begins): no report that was taken earlier and
\* arrives late, and no task of a namesake, gets in between.
OnlyTasksDecide ==
  [][\A v \in Vm :
       row[v] \in {"provisioning", "deleting"} /\ row'[v] # row[v] =>
         \/ row'[v] = "deleting"
         \/ \E t \in Task : /\ task[t].vm = v
                            /\ task[t].pc = "answered"
                            /\ task'[t].pc = "done"]_vars

\* What the panel and the node make of a VM, for VmPromise.  A VM is excused when a
\* deletion of its name has overlapped another command or passed over an error, or its
\* guest may be paused.
Excused(v) == ~Orderly(NameOf[v]) \/ NameOf[v] \in MaySuspend

LifeOf(v) ==
  IF Excused(v) THEN "excused"
  ELSE IF row[v] \in {"none", "gone"} THEN row[v]
  ELSE IF DeleteBegun(v) THEN "doomed"
  ELSE CASE row[v] = "provisioning" -> "ordered"
         [] row[v] = "deleting" -> "removing"
         [] row[v] \in Shown -> "shown"

RemovalAsked(v) == \E t \in Task : task[t].vm = v /\ task[t].kind = "delete"

PartsOf(v) ==
  (IF domain[NameOf[v]].spec = v THEN {"domain"} ELSE {})
    \union (IF disks[NameOf[v]] = v THEN {"disks"} ELSE {})

Promise ==
  INSTANCE VmPromise
    WITH life <- [v \in Vm |-> LifeOf(v)],
         asked <- {v \in Vm : ~Excused(v) /\ RemovalAsked(v)},
         built <- [v \in Vm |-> IF Excused(v) THEN {} ELSE PartsOf(v)]

\* Rows, tasks and the agent together do with a VM what VmPromise says: a name has
\* one VM, only a removal that was asked for takes anything away, what is shown is
\* complete, and what is gone has left nothing.
KeepsVmPromise == Promise!Spec
=============================================================================
