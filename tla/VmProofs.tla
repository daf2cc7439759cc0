------------------------------ MODULE VmProofs ------------------------------
(***************************************************************************)
(* Proofs about VmLifecycle: a deleted VM leaves nothing on its node and a  *)
(* VM that is shown is itself, for any number of VMs, names, tasks and      *)
(* attempts, whatever requests the client has given up waiting for, unless  *)
(* a deletion overlapped another command or the guest is paused; and from   *)
(* the same invariant, VmLifecycle implements VmPromise.                    *)
(***************************************************************************)
EXTENDS VmLifecycle, TLAPS

\* The steps of each kind of command on the agent.
Steps(kind) ==
  CASE kind = "provision" -> {"disks", "define", "power"}
    [] kind = "start" -> {"power"}
    [] kind = "stop" -> {"stop", "draining"}
    [] kind = "restart" -> {"stop", "draining", "power"}
    [] kind = "delete" -> {"kill", "undefine", "wipe"}

\* A request is that of a task that has been taken, which waits for it at most
\* once; what nobody waits for ends without an answer.
RequestInv ==
  /\ \A r \in requests :
       LET t == task[r.task] IN
       /\ t.pc # "unused" /\ t.vm = r.vm /\ t.kind = r.kind
       /\ t.pc # "waiting" \/ t.failures > 0
       /\ r.awaited => t.pc = "calling"
       /\ ~r.awaited => r.pc \notin Ended
       /\ r.pc \in Steps(r.kind) \union Ended
  /\ \A r, q \in requests : r.awaited /\ q.awaited /\ r.task = q.task => q = r
  /\ \A t \in Task :
       /\ IF task[t].pc = "unused" THEN task[t].vm = NoVm ELSE task[t].vm \in Vm
       /\ task[t].pc \in {"waiting", "calling", "answered"} => task[t].failures < Attempts

\* Whether task t is being handled, or has been answered.
Handled(t) == task[t].pc \in {"calling", "answered"}

\* Unless it was raced, a delete is the only command of its VM that has begun,
\* with one request, and nothing is under way once that has been answered.
AloneTasks ==
  \A v \in Vm \ raced : \A t, u \in Begun(v) : task[t].kind = "delete" => t = u

AloneRequests ==
  \A r, q \in requests :
    r.vm \notin raced /\ q.vm = r.vm /\ r.kind = "delete" => q = r

AnsweredAlone ==
  \A t \in Task, r \in requests :
    task[t].pc = "answered" /\ task[t].kind = "delete" /\ task[t].vm \notin raced
    => r.vm # task[t].vm

\* So the row outlives every command.
CommandsExist == \A v \in Vm \ raced : Begun(v) # {} => Exists(v)

CommandInv == AloneTasks /\ AloneRequests /\ AnsweredAlone /\ CommandsExist

\* Names are unique among the rows that exist.
NamesDiffer ==
  \A v, w \in Vm : Exists(v) /\ Exists(w) /\ NameOf[v] = NameOf[w] => v = w

\* Names whose deletions have been orderly, and whose guests are not paused.
Calm(n) == n \in Name /\ Orderly(n) /\ n \notin MaySuspend

Present(n) == domain[n] # NoDomain

\* What the node has under a calm name belongs to the VM that has the name.
Owned(n) ==
  /\ Present(n) => /\ domain[n].persistent /\ domain[n].st # "paused"
                   /\ disks[n] = domain[n].spec
  /\ disks[n] # NoVm => NameOf[disks[n]] = n /\ Exists(disks[n])

OwnerInv == \A n \in Name : Calm(n) => Owned(n)

\* What a request of this kind for this name has reached at this place.
Reached(kind, pc, n) ==
  /\ kind = "provision" /\ pc \in {"define", "power"} => disks[n] # NoVm
  /\ kind # "delete" /\ pc \in {"draining", "ok"} => Present(n)
  /\ kind = "delete" /\ pc = "undefine" => domain[n].st # "running"
  /\ kind = "delete" /\ pc \in {"wipe", "ok"} => ~Present(n)
  /\ kind = "delete" /\ pc = "ok" => disks[n] = NoVm

\* What a task has reached whose request was answered.
Achieved(t) ==
  LET n == NameOf[task[t].vm] IN
  IF task[t].kind = "delete" THEN ~Present(n) /\ disks[n] = NoVm ELSE Present(n)

ReachedInv ==
  /\ \A r \in requests : Calm(NameOf[r.vm]) => Reached(r.kind, r.pc, NameOf[r.vm])
  /\ \A t \in Task : task[t].pc = "answered" /\ Calm(NameOf[task[t].vm]) => Achieved(t)

\* A VM that is shown and not being deleted is on its node.
ShownInv ==
  \A v \in Vm :
    row[v] \in Shown /\ ~DeleteBegun(v) /\ Calm(NameOf[v]) => Present(NameOf[v])

VmInv ==
  /\ TypeOK /\ RequestInv /\ CommandInv /\ NamesDiffer
  /\ OwnerInv /\ ReachedInv /\ ShownInv

-----------------------------------------------------------------------------
(* Records.                                                                *)

Tasks == [kind : Kinds, vm : Vm \union {NoVm}, pc : TaskPc, failures : 0 .. Attempts]
Requests == [task : Task, try : 0 .. Attempts, kind : Kinds, vm : Vm, pc : RequestPc,
             awaited : BOOLEAN]

\* Initially there is nothing.
LEMMA InitVm == Init => VmInv
<1> SUFFICES ASSUME Init
             PROVE  VmInv
  OBVIOUS
<1>1. \A v \in Vm : ~Exists(v) /\ row[v] = "none" /\ Begun(v) = {}
  BY DEF Init, Exists, Begun, Unused
<1>2. Unused \in Tasks
  BY VmAssumption DEF Unused, Tasks, Kinds, TaskPc
<1>3. TypeOK
  BY <1>2 DEF Init, TypeOK, RowState, Tasks
<1>4. RequestInv /\ CommandInv /\ NamesDiffer
  BY <1>1 DEF Init, RequestInv, CommandInv, AloneTasks, AloneRequests, AnsweredAlone,
              CommandsExist, NamesDiffer, Unused
<1>5. OwnerInv /\ ReachedInv /\ ShownInv
  BY <1>1 DEF Init, OwnerInv, ReachedInv, ShownInv, Owned, Present, Shown, Unused
<1> QED
  BY <1>3, <1>4, <1>5 DEF VmInv

\* A new task waits.
LEMMA EnqueueChanges ==
  ASSUME TypeOK, NEW kind \in Kinds, NEW v \in Vm, Enqueue(kind, v)
  PROVE  \E t \in Task, x \in Tasks :
           /\ task[t].pc = "unused" /\ task' = [task EXCEPT ![t] = x]
           /\ x.pc = "waiting" /\ x.vm = v /\ x.kind = kind /\ x.failures = 0
<1> DEFINE x == [kind |-> kind, vm |-> v, pc |-> "waiting", failures |-> 0]
<1>1. PICK t \in Free : task' = [task EXCEPT ![t] = x]
  BY DEF Enqueue
<1>2. x \in Tasks
  BY VmAssumption DEF Tasks, TaskPc
<1>3. x.pc = "waiting" /\ x.vm = v /\ x.kind = kind /\ x.failures = 0
  OBVIOUS
<1> QED
  BY <1>1, <1>2, <1>3 DEF Free

\* A task that moves on keeps its kind and its VM.
LEMMA TaskMoves ==
  ASSUME TypeOK, NEW t \in Task, NEW label \in TaskPc, task' = [task EXCEPT ![t].pc = label]
  PROVE  \E x \in Tasks :
           /\ task' = [task EXCEPT ![t] = x] /\ x.pc = label
           /\ x.vm = task[t].vm /\ x.kind = task[t].kind /\ x.failures = task[t].failures
<1> DEFINE x == [task[t] EXCEPT !.pc = label]
<1>1. x \in Tasks
  BY DEF TypeOK, Tasks
<1>2. x.pc = label /\ x.vm = task[t].vm /\ x.kind = task[t].kind
      /\ x.failures = task[t].failures
  BY DEF TypeOK
<1> QED
  BY <1>1, <1>2

\* So does one that throws; it waits as long as there are attempts left.
Thrown(y, f, label) == [y EXCEPT !.failures = f, !.pc = label]

LEMMA ThrownIs ==
  ASSUME NEW y \in Tasks, NEW f \in 0 .. Attempts, NEW label \in TaskPc
  PROVE  /\ Thrown(y, f, label) \in Tasks
         /\ Thrown(y, f, label).pc = label /\ Thrown(y, f, label).failures = f
         /\ Thrown(y, f, label).vm = y.vm /\ Thrown(y, f, label).kind = y.kind
  BY DEF Tasks, Thrown

LEMMA ThrowChanges ==
  ASSUME TypeOK, NEW t \in Task, task[t].failures < Attempts, Throw(t)
  PROVE  \E x \in Tasks :
           /\ task' = [task EXCEPT ![t] = x] /\ x.pc \in {"waiting", "failed"}
           /\ x.vm = task[t].vm /\ x.kind = task[t].kind /\ x.failures > 0
           /\ x.pc = "waiting" => x.failures < Attempts
<1>1. task[t] \in Tasks /\ task[t].failures \in 0 .. Attempts
  BY DEF TypeOK, Tasks
<1>2. PICK f \in 0 .. Attempts : f = task[t].failures + 1
  BY <1>1, VmAssumption
<1>3. PICK label \in {"waiting", "failed"} :
        label = IF OutOfAttempts(f) THEN "failed" ELSE "waiting"
  OBVIOUS
<1> DEFINE x == Thrown(task[t], f, label)
<1>4. task' = [task EXCEPT ![t] = x]
  BY <1>2, <1>3 DEF Throw, Thrown
<1>5. /\ x \in Tasks /\ x.pc = label /\ x.failures = f
      /\ x.vm = task[t].vm /\ x.kind = task[t].kind
  <2>1. label \in TaskPc
    BY DEF TaskPc
  <2>2. task[t] \in Tasks
    BY <1>1
  <2>3. f \in 0 .. Attempts
    OBVIOUS
  <2> HIDE DEF x
  <2>4. x = Thrown(task[t], f, label)
    BY DEF x
  <2>5. x \in Tasks
    BY <2>1, <2>2, <2>3, <2>4, ThrownIs
  <2>6. x.pc = label /\ x.failures = f
    BY <2>1, <2>2, <2>3, <2>4, ThrownIs
  <2>7. x.vm = task[t].vm /\ x.kind = task[t].kind
    BY <2>1, <2>2, <2>3, <2>4, ThrownIs
  <2> QED
    BY <2>5, <2>6, <2>7
<1> HIDE DEF x
<1>6. f > 0 /\ (label = "waiting" => f < Attempts)
  BY <1>1, <1>2, <1>3, VmAssumption DEF OutOfAttempts
<1> QED
  BY <1>4, <1>5, <1>6

\* A request goes on at another step, or ends.
Moved(r, label) == [r EXCEPT !.pc = label]

Follows(r, label) ==
  /\ label \in Steps(r.kind) \union Ended
  /\ requests' \subseteq (requests \ {r}) \union {Moved(r, label)}
  /\ label \in Ended /\ ~r.awaited => requests' \subseteq requests \ {r}

\* Its record keeps everything but the place.
LEMMA MovedIs ==
  ASSUME NEW r \in Requests, NEW label \in RequestPc
  PROVE  /\ Moved(r, label) \in Requests /\ Moved(r, label).pc = label
         /\ Moved(r, label).task = r.task /\ Moved(r, label).vm = r.vm
         /\ Moved(r, label).kind = r.kind /\ Moved(r, label).awaited = r.awaited
  BY DEF Moved, Requests

\* The steps are places of requests.
LEMMA StepsAre == \A kind \in Kinds : Steps(kind) \subseteq RequestPc
  BY DEF Kinds, Steps, RequestPc

\* Every operation of the agent moves its request on.
LEMMA GotoFollows ==
  ASSUME NEW r, NEW label \in Steps(r.kind), label \notin Ended, Goto(r, label)
  PROVE  Follows(r, label)
  BY DEF Goto, Follows, Moved

LEMMA EndFollows ==
  ASSUME NEW r, NEW label \in Ended, End(r, label)
  PROVE  Follows(r, label)
  BY DEF End, Follows, Moved

LEMMA StoppedFollows ==
  ASSUME NEW r, r.kind \in {"stop", "restart"}, Stopped(r)
  PROVE  Follows(r, IF r.kind = "restart" THEN "power" ELSE "ok")
<1>1. CASE r.kind = "restart"
  <2>1. "power" \in Steps(r.kind) /\ "power" \notin Ended
    BY <1>1 DEF Steps, Ended
  <2> QED
    BY <1>1, <2>1, GotoFollows DEF Stopped
<1>2. CASE r.kind # "restart"
  BY <1>2, EndFollows DEF Stopped, Ended
<1> QED
  BY <1>1, <1>2

-----------------------------------------------------------------------------
(* Tasks and requests.                                                     *)

\* The commands of a VM that have begun, before and after a step.
LEMMA BegunIs ==
  \A v, u : u \in Begun(v) <=> \/ u \in Task /\ task[u].vm = v /\ Handled(u)
                               \/ \E q \in requests : q.vm = v /\ q.task = u
  BY DEF Begun, Handled

LEMMA BegunIsNext ==
  \A v, u : u \in Begun(v)' <=> \/ u \in Task /\ task'[u].vm = v /\ Handled(u)'
                                \/ \E q \in requests' : q.vm = v /\ q.task = u
  BY DEF Begun, Handled

\* A request that goes on leaves the tasks what they are.
LEMMA FollowsKeeps ==
  ASSUME TypeOK, RequestInv, CommandInv, NEW r \in requests, NEW label, Follows(r, label),
         UNCHANGED <<row, task, raced>>
  PROVE  requests' \subseteq Requests /\ RequestInv' /\ CommandInv'
<1>1. r \in Requests /\ r.kind \in Kinds
  BY DEF TypeOK, Requests
<1>2. label \in RequestPc
  BY <1>1, StepsAre DEF Follows, RequestPc
<1> DEFINE x == Moved(r, label)
<1>3. /\ x \in Requests /\ x.pc = label /\ x.task = r.task /\ x.vm = r.vm
      /\ x.kind = r.kind /\ x.awaited = r.awaited
  BY <1>1, <1>2, MovedIs
<1>4. \A q \in requests' : q \in requests \ {r} \/ (q = x /\ (r.awaited \/ label \notin Ended))
  BY <1>1 DEF Follows, TypeOK, Requests
<1>5. label \in Steps(r.kind) \union Ended
  BY DEF Follows
<1> HIDE DEF x
<1>6. requests' \subseteq Requests
  BY <1>3, <1>4 DEF TypeOK, Requests
<1>7. RequestInv'
  BY <1>3, <1>4, <1>5 DEF RequestInv
<1>8. \A v : Begun(v)' \subseteq Begun(v)
  BY <1>3, <1>4, BegunIs, BegunIsNext DEF Handled
<1>9. AloneTasks' /\ CommandsExist'
  BY <1>8 DEF CommandInv, AloneTasks, CommandsExist, Exists
<1>10. AloneRequests' /\ AnsweredAlone'
  BY <1>3, <1>4 DEF CommandInv, AloneRequests, AnsweredAlone
<1> QED
  BY <1>6, <1>7, <1>9, <1>10 DEF CommandInv

\* A request that nobody waits for any more.
Abandoned(q, t, x) ==
  /\ q.task = t /\ q.vm = x.vm /\ q.kind = x.kind /\ ~q.awaited
  /\ q.pc \in Steps(q.kind) \ Ended

\* A task that moves on while requests disappear or are given up.
LEMMA TaskKeeps ==
  ASSUME TypeOK, RequestInv, NEW t \in Task, NEW x \in Tasks,
         task' = [task EXCEPT ![t] = x],
         \A q \in requests' : q \in requests \/ Abandoned(q, t, x),
         x.vm \in Vm, x.pc # "unused",
         task[t].pc # "unused" => x.vm = task[t].vm /\ x.kind = task[t].kind,
         x.pc \in {"waiting", "calling", "answered"} => x.failures < Attempts,
         \A q \in requests' : q.task = t =>
           ~q.awaited /\ (x.pc # "waiting" \/ x.failures > 0)
  PROVE  task' \in [Task -> Tasks] /\ RequestInv'
<1>1. task \in [Task -> Tasks]
  BY DEF TypeOK, Tasks
<1>2. task'[t] = x /\ \A u \in Task \ {t} : task'[u] = task[u]
  BY <1>1
<1>3. \A q \in requests : q.task \in Task
  BY DEF TypeOK
<1> QED
  BY <1>1, <1>2, <1>3 DEF RequestInv, Abandoned

\* If no command begins and those that go on keep their rows, deletes stay alone.
LEMMA CommandsKeep ==
  ASSUME TypeOK, RequestInv, CommandInv, NEW t \in Task, NEW x \in Tasks,
         task' = [task EXCEPT ![t] = x], UNCHANGED raced,
         \A q \in requests' : \E p \in requests : p.task = q.task /\ p.vm = q.vm,
         task[t].pc # "unused" => x.vm = task[t].vm /\ x.kind = task[t].kind,
         x.pc \in {"calling", "answered"} => Handled(t) /\ task[t].pc # "unused",
         x.pc = "answered" /\ x.kind = "delete" /\ x.vm \notin raced
           => \A q \in requests' : q.vm # x.vm,
         \A v \in Vm \ raced : Begun(v)' # {} /\ Exists(v) => Exists(v)',
         AloneRequests'
  PROVE  CommandInv'
<1>1. task'[t] = x /\ \A u \in Task \ {t} : task'[u] = task[u]
  BY DEF TypeOK
<1>2. \A u \in Task : Handled(u)' => Handled(u) /\ task'[u].vm = task[u].vm
  BY <1>1 DEF Handled
<1>3. \A v : Begun(v)' \subseteq Begun(v)
  BY <1>2, BegunIs, BegunIsNext
<1>4. \A v : \A u \in Begun(v) : u \in Task /\ task[u].pc # "unused"
  BY BegunIs DEF Handled, RequestInv, TypeOK
<1>5. \A u \in Task : task[u].pc # "unused" => task'[u].kind = task[u].kind
  BY <1>1
<1>6. AloneTasks'
  BY <1>3, <1>4, <1>5 DEF CommandInv, AloneTasks
<1>8. AnsweredAlone'
  BY <1>1 DEF CommandInv, AnsweredAlone
<1>9. CommandsExist'
  BY <1>3 DEF CommandInv, CommandsExist
<1> QED
  BY <1>6, <1>8, <1>9 DEF CommandInv

\* Every step of the agent moves one request on and keeps the types.
LEMMA ExecuteFollows ==
  ASSUME TypeOK, RequestInv, NEW r \in requests, Execute(r) \/ Failure(r) \/ PassOver(r)
  PROVE  /\ \E label : Follows(r, label)
         /\ UNCHANGED <<row, task, reports, raced>>
         /\ domain' \in [Name -> Domain \union {NoDomain}]
         /\ disks' \in [Name -> Vm \union {NoVm}]
<1> DEFINE n == NameOf[r.vm]
           Domains == Domain \union {NoDomain}
           Goal == /\ \E label : Follows(r, label)
                   /\ domain' \in [Name -> Domains] /\ disks' \in [Name -> Vm \union {NoVm}]
<1>u. UNCHANGED <<row, task, reports, raced>>
  BY DEF Execute, Failure, PassOver
<1> SUFFICES Goal
  BY <1>u
<1>1. r.vm \in Vm /\ n \in Name /\ r.kind \in Kinds /\ r.pc \in Steps(r.kind) \union Ended
  BY VmAssumption DEF TypeOK, RequestInv
<1>2. domain \in [Name -> Domains] /\ disks \in [Name -> Vm \union {NoVm}]
  BY DEF TypeOK
<1>3. /\ r.pc = "disks" => r.kind = "provision"
      /\ r.pc = "define" => r.kind = "provision"
      /\ r.pc \in {"stop", "draining"} => r.kind \in {"stop", "restart"}
      /\ r.pc \in {"kill", "undefine", "wipe"} => r.kind = "delete"
  BY <1>1 DEF Steps, Kinds, Ended
<1>4. Destroyed(n) \in Domains
  BY <1>1, <1>2 DEF Destroyed, Domain, NoDomain
<1>5. ASSUME NEW label \in {"define", "power", "draining", "undefine", "wipe"},
             label \in Steps(r.kind), Goto(r, label)
      PROVE  \E l : Follows(r, l)
  BY <1>5, GotoFollows DEF Ended
<1>6. ASSUME NEW label \in Ended, End(r, label)
      PROVE  \E l : Follows(r, l)
  BY <1>6, EndFollows
<1>7. ASSUME r.kind \in {"stop", "restart"}, Stopped(r)
      PROVE  \E l : Follows(r, l)
  BY <1>7, StoppedFollows
<1>k. /\ r.kind = "provision" => {"define", "power"} \subseteq Steps(r.kind)
      /\ r.kind \in {"stop", "restart"} => "draining" \in Steps(r.kind)
      /\ r.kind = "delete" => {"undefine", "wipe"} \subseteq Steps(r.kind)
      /\ {"ok", "err"} = Ended
  BY DEF Steps, Ended
<1>10. CASE CreateDisks(r)
  BY <1>1, <1>2, <1>3, <1>5, <1>k, <1>10 DEF CreateDisks
<1>11. CASE DefineDomain(r)
  <2>1. [st |-> "shutoff", spec |-> r.vm, persistent |-> TRUE] \in Domains
    BY <1>1 DEF Domain
  <2> HIDE DEF Domains
  <2>2. domain' \in [Name -> Domains] /\ UNCHANGED disks
    BY <1>1, <1>2, <1>11, <2>1 DEF DefineDomain
  <2> QED
    BY <1>2, <1>3, <1>5, <1>k, <1>11, <2>2 DEF DefineDomain
<1>12. CASE EnsureRunning(r)
  <2>1. domain[n].st = "shutoff" => [domain[n] EXCEPT !.st = "running"] \in Domains
    BY <1>1, <1>2 DEF Domain, NoDomain
  <2>2. UNCHANGED domain \/ (domain[n].st = "shutoff"
                             /\ domain' = [domain EXCEPT ![n].st = "running"])
    BY <1>12 DEF EnsureRunning
  <2>3. domain' \in [Name -> Domains] /\ UNCHANGED disks
    BY <1>1, <1>2, <1>12, <2>1, <2>2 DEF EnsureRunning
  <2>4. End(r, "ok") \/ End(r, "err")
    BY <1>12 DEF EnsureRunning
  <2> QED
    BY <1>2, <1>6, <1>k, <2>3, <2>4
<1>13. CASE BeginStop(r)
  <2>1. UNCHANGED domain \/ domain' = [domain EXCEPT ![n] = Destroyed(n)]
    BY <1>13 DEF BeginStop
  <2>2. End(r, "err") \/ End(r, "ok") \/ Stopped(r) \/ Goto(r, "draining")
    BY <1>13 DEF BeginStop
  <2>3. r.kind \in {"stop", "restart"} /\ UNCHANGED disks
    BY <1>3, <1>13 DEF BeginStop
  <2> HIDE DEF Domains
  <2>4. domain' \in [Name -> Domains]
    BY <1>1, <1>2, <1>4, <2>1
  <2> QED
    BY <1>2, <1>5, <1>6, <1>7, <1>k, <2>2, <2>3, <2>4
<1>14. CASE Drain(r)
  <2> HIDE DEF Domains
  <2>1. domain' \in [Name -> Domains]
    BY <1>1, <1>2, <1>4, <1>14 DEF Drain
  <2> QED
    BY <1>2, <1>3, <1>7, <1>14, <2>1 DEF Drain
<1>15. CASE KillDomain(r)
  <2> HIDE DEF Domains
  <2>1. domain' \in [Name -> Domains]
    BY <1>1, <1>2, <1>4, <1>15 DEF KillDomain
  <2>2. Goto(r, "wipe") \/ Goto(r, "undefine")
    BY <1>15 DEF KillDomain
  <2> QED
    BY <1>2, <1>3, <1>5, <1>k, <1>15, <2>1, <2>2 DEF KillDomain
<1>16. CASE UndefineDomain(r)
  <2>1. \/ UNCHANGED domain /\ End(r, "err")
        \/ /\ domain[n].persistent /\ Goto(r, "wipe")
           /\ \/ domain' = [domain EXCEPT ![n] = [domain[n] EXCEPT !.persistent = FALSE]]
              \/ domain' = [domain EXCEPT ![n] = NoDomain]
    BY <1>16 DEF UndefineDomain
  <2>2. domain[n].persistent => [domain[n] EXCEPT !.persistent = FALSE] \in Domains
    <3>1. domain[n] \in Domain => [domain[n] EXCEPT !.persistent = FALSE] \in Domain
      BY DEF Domain
    <3>2. ~NoDomain.persistent
      BY DEF NoDomain
    <3> QED
      BY <1>1, <1>2, <3>1, <3>2
  <2>3. NoDomain \in Domains
    OBVIOUS
  <2> HIDE DEF Domains
  <2>4. domain' \in [Name -> Domains]
    BY <1>1, <1>2, <2>1, <2>2, <2>3
  <2> QED
    BY <1>2, <1>3, <1>5, <1>6, <1>k, <1>16, <2>1, <2>4 DEF UndefineDomain
<1>17. CASE WipeDisks(r)
  BY <1>1, <1>2, <1>6, <1>k, <1>17 DEF WipeDisks, WipedDisks
<1>18. CASE Fails(r) \/ Cut(r)
  BY <1>2, <1>6, <1>k, <1>18 DEF Fails, Cut, nodeVars
<1>19. CASE PassOver(r)
  <2>1. UNCHANGED <<domain, disks>>
    BY <1>19 DEF PassOver, nodeVars
  <2>2. \E label : Follows(r, label)
    <3>1. CASE r.pc = "kill"
      <4>1. r.kind = "delete"
        BY <1>2, <3>1 DEF RequestInv, TypeOK, Kinds, Steps, Ended
      <4>2. "wipe" \in Steps(r.kind) \ Ended /\ "undefine" \in Steps(r.kind) \ Ended
        BY <4>1 DEF Steps, Ended
      <4> QED
        BY <1>19, <3>1, <4>2, GotoFollows DEF PassOver
    <3>2. CASE r.pc # "kill"
      BY <1>19, <3>2, EndFollows DEF PassOver, Ended
    <3> QED
      BY <3>1, <3>2
  <2> QED
    BY <1>2, <2>1, <2>2
<1> QED
  BY <1>10, <1>11, <1>12, <1>13, <1>14, <1>15, <1>16, <1>17, <1>18, <1>19
  DEF Execute, Failure

\* A command begins alone, or as a race when one of those that have begun, or it
\* itself, is a delete.
LEMMA CallChanges ==
  ASSUME TypeOK, RequestInv, CommandInv, NEW t \in Task, HandleCall(t)
  PROVE  \E x \in Tasks, y \in Requests :
           /\ task' = [task EXCEPT ![t] = x] /\ requests' = requests \union {y}
           /\ x.vm = task[t].vm /\ x.kind = task[t].kind /\ x.failures = task[t].failures
           /\ x.pc = "calling" /\ x.vm \in Vm
           /\ y.task = t /\ y.vm = x.vm /\ y.kind = x.kind /\ y.awaited
           /\ y.pc = FirstStep(x.kind)
           /\ raced' \in {raced, raced \union {x.vm}}
           /\ x.vm \notin raced' => \A u \in Begun(x.vm) :
                                      x.kind # "delete" /\ task[u].kind # "delete"
<1>1. task[t].pc = "waiting" /\ task[t].vm \in Vm /\ task[t].kind \in Kinds
  BY DEF HandleCall, RequestInv, TypeOK
<1>2. PICK x \in Tasks : /\ task' = [task EXCEPT ![t] = x] /\ x.pc = "calling"
                         /\ x.vm = task[t].vm /\ x.kind = task[t].kind
                         /\ x.failures = task[t].failures
  BY TaskMoves DEF HandleCall, TaskPc
<1> DEFINE y == [task |-> t, try |-> task[t].failures, kind |-> task[t].kind,
                 vm |-> task[t].vm, pc |-> FirstStep(task[t].kind), awaited |-> TRUE]
<1>3. FirstStep(task[t].kind) \in RequestPc
  BY <1>1 DEF FirstStep, Kinds, RequestPc
<1>4. task[t].failures \in 0 .. Attempts
  BY DEF TypeOK
<1>5. y \in Requests
  BY <1>1, <1>3, <1>4 DEF Requests
<1>6. requests' = requests \union {y}
  BY DEF HandleCall
<1>7. /\ y.task = t /\ y.vm = x.vm /\ y.kind = x.kind /\ y.awaited
      /\ y.pc = FirstStep(x.kind)
  BY <1>2
<1> HIDE DEF y
<1>8. raced' \in {raced, raced \union {x.vm}}
  BY <1>2 DEF HandleCall
<1>9. ASSUME x.vm \notin raced', NEW u \in Begun(x.vm)
      PROVE  x.kind # "delete" /\ task[u].kind # "delete"
  BY <1>2, <1>9 DEF HandleCall, Overlaps
<1> QED
  BY <1>1, <1>2, <1>5, <1>6, <1>7, <1>8, <1>9

LEMMA CallKeeps ==
  ASSUME TypeOK, RequestInv, CommandInv, NEW t \in Task, HandleCall(t)
  PROVE  /\ task' \in [Task -> Tasks] /\ requests' \subseteq Requests /\ raced' \subseteq Vm
         /\ RequestInv' /\ CommandInv'
<1>1. PICK x \in Tasks, y \in Requests :
           /\ task' = [task EXCEPT ![t] = x] /\ requests' = requests \union {y}
           /\ x.vm = task[t].vm /\ x.kind = task[t].kind /\ x.failures = task[t].failures
           /\ x.pc = "calling" /\ x.vm \in Vm
           /\ y.task = t /\ y.vm = x.vm /\ y.kind = x.kind /\ y.awaited
           /\ y.pc = FirstStep(x.kind)
           /\ raced' \in {raced, raced \union {x.vm}}
           /\ x.vm \notin raced' => \A u \in Begun(x.vm) :
                                      x.kind # "delete" /\ task[u].kind # "delete"
  BY CallChanges
<1>2. /\ task \in [Task -> Tasks] /\ requests \subseteq Requests
      /\ task'[t] = x /\ \A u \in Task \ {t} : task'[u] = task[u]
  BY <1>1 DEF TypeOK, Tasks, Requests
<1>3. task[t].pc = "waiting" /\ Exists(x.vm) /\ UNCHANGED row
  BY <1>1 DEF HandleCall
<1>4. y.pc \in Steps(y.kind) \ Ended
  BY <1>1 DEF FirstStep, Steps, Ended, Kinds, Tasks
<1>5. task' \in [Task -> Tasks] /\ requests' \subseteq Requests /\ raced' \subseteq Vm
  BY <1>1, <1>2 DEF TypeOK
<1>6. \A q \in requests : q.task = t => ~q.awaited
  BY <1>3 DEF RequestInv
<1>7. RequestInv'
  BY <1>1, <1>2, <1>3, <1>4, <1>6 DEF RequestInv, Requests
<1>8. \A v : \A u \in Begun(v)' : u \in Begun(v) \/ (u = t /\ v = x.vm)
  BY <1>1, <1>2, BegunIs, BegunIsNext DEF Handled
<1>9. \A v : \A u \in Begun(v) : u \in Task /\ task[u].vm = v
  BY BegunIs DEF RequestInv, TypeOK
<1>10. AloneTasks'
  <2> SUFFICES ASSUME NEW v \in Vm \ raced', NEW s \in Begun(v)', NEW u \in Begun(v)',
                      task'[s].kind = "delete"
               PROVE  s = u
    BY DEF AloneTasks
  <2>1. v \notin raced /\ s \in Task /\ task[s].kind = "delete"
    BY <1>1, <1>2, <1>8, <1>9
  <2>2. CASE v = x.vm
    BY <1>1, <1>8, <2>1, <2>2
  <2>3. CASE v # x.vm
    BY <1>8, <2>1, <2>3 DEF CommandInv, AloneTasks
  <2> QED
    BY <2>2, <2>3
<1>11. \A q \in requests : q.vm = x.vm => q.task \in Begun(x.vm) /\ q.kind = task[q.task].kind
  BY BegunIs DEF RequestInv
<1>12. AloneRequests' /\ AnsweredAlone'
  BY <1>1, <1>2, <1>11, BegunIs DEF CommandInv, AloneRequests, AnsweredAlone, Handled
<1>13. CommandsExist'
  BY <1>1, <1>3, <1>8 DEF CommandInv, CommandsExist, Exists
<1> QED
  BY <1>5, <1>7, <1>10, <1>12, <1>13 DEF CommandInv

\* The rows of the VMs whose commands have begun stay.
LEMMA RowsStay ==
  ASSUME CommandInv, NamesDiffer, \A v \in Vm : Exists(v)' => Exists(v)
  PROVE  NamesDiffer'
  BY DEF NamesDiffer

\* A returning handler takes the row away only for a delete.
LEMMA ReturnKeeps ==
  ASSUME TypeOK, RequestInv, CommandInv, NEW t \in Task, HandleReturn(t)
  PROVE  /\ task' \in [Task -> Tasks] /\ row' \in [Vm -> RowState]
         /\ RequestInv' /\ CommandInv' /\ \A v \in Vm : Exists(v)' => Exists(v)
<1>v. PICK v \in Vm : v = task[t].vm
  BY DEF HandleReturn, RequestInv, TypeOK
<1>1. /\ task[t].pc = "answered" /\ task[t].kind \in Kinds
      /\ task[t].failures < Attempts /\ UNCHANGED <<requests, raced>>
  BY DEF HandleReturn, RequestInv, TypeOK
<1>2. PICK x \in Tasks :
        /\ task' = [task EXCEPT ![t] = x] /\ x.vm = v /\ x.kind = task[t].kind
        /\ x.pc \in {"done", "waiting", "failed"}
        /\ x.pc # "done" => x.failures > 0
        /\ x.pc = "waiting" => x.failures < Attempts
        /\ \/ /\ x.pc = "done" /\ Exists(v)
              /\ row' = [row EXCEPT ![v] = StateAfter(task[t].kind)]
           \/ x.pc # "done" /\ UNCHANGED row
  <2>1. CASE Exists(v)
    <3>1. PICK x \in Tasks : /\ task' = [task EXCEPT ![t] = x] /\ x.pc = "done"
                             /\ x.vm = v /\ x.kind = task[t].kind
      BY <1>v, <2>1, TaskMoves DEF HandleReturn, TaskPc
    <3> QED
      BY <1>v, <2>1, <3>1 DEF HandleReturn
  <2>2. CASE ~Exists(v)
    <3>1. PICK x \in Tasks :
            /\ task' = [task EXCEPT ![t] = x] /\ x.pc \in {"waiting", "failed"}
            /\ x.vm = task[t].vm /\ x.kind = task[t].kind /\ x.failures > 0
            /\ x.pc = "waiting" => x.failures < Attempts
      BY <1>1, <1>v, <2>2, ThrowChanges DEF HandleReturn
    <3> QED
      BY <1>v, <2>2, <3>1 DEF HandleReturn
  <2> QED
    BY <2>1, <2>2
<1>3. StateAfter(task[t].kind) \in RowState
  BY <1>v, <1>1 DEF StateAfter, Kinds, RowState, Shown
<1>4. row' \in [Vm -> RowState] /\ \A w \in Vm : Exists(w)' => Exists(w)
  BY <1>v, <1>1, <1>2, <1>3 DEF Exists, TypeOK
<1>5. \A q \in requests : q.task = t => ~q.awaited
  BY <1>v, <1>1 DEF RequestInv
<1>6. task' \in [Task -> Tasks] /\ RequestInv'
  <2>1. \A q \in requests' : q.task = t => ~q.awaited /\ (x.pc # "waiting" \/ x.failures > 0)
    BY <1>v, <1>1, <1>2, <1>5
  <2>2. x.pc \in {"waiting", "calling", "answered"} => x.failures < Attempts
    BY <1>2
  <2>3. x.vm \in Vm /\ x.vm = task[t].vm /\ x.kind = task[t].kind /\ x.pc # "unused"
    BY <1>v, <1>2
  <2>4. task' = [task EXCEPT ![t] = x] /\ requests' = requests
    BY <1>1, <1>2
  <2> QED
    BY <2>1, <2>2, <2>3, <2>4, TaskKeeps
<1>7. ASSUME NEW w \in Vm \ raced, Begun(w)' # {}, Exists(w)
      PROVE  Exists(w)'
  <2>1. CASE w # v \/ x.pc # "done" \/ task[t].kind # "delete"
    <3>1. StateAfter(task[t].kind) \notin {"none", "gone"} \/ task[t].kind = "delete"
      BY <1>v, <1>1 DEF StateAfter, Kinds
    <3> QED
      BY <1>v, <1>1, <1>2, <1>7, <2>1, <3>1 DEF Exists, TypeOK
  <2>2. CASE w = v /\ x.pc = "done" /\ task[t].kind = "delete"
    <3>1. t \in Begun(v) /\ \A u \in Begun(v) : u = t
      BY <1>v, <1>1, <1>7, <2>2, BegunIs DEF Handled, CommandInv, AloneTasks
    <3>2. \A q \in requests : q.vm # v
      BY <1>v, <1>1, <1>7, <2>2 DEF CommandInv, AnsweredAlone
    <3>3. \A u \in Task : u # t => task'[u] = task[u]
      BY <1>2 DEF TypeOK
    <3>4. task'[t] = x
      BY <1>2 DEF TypeOK
    <3>5. Begun(v)' = {}
      BY <1>v, <1>1, <2>2, <3>1, <3>2, <3>3, <3>4, BegunIs, BegunIsNext DEF Handled
    <3> QED
      BY <1>7, <2>2, <3>5
  <2> QED
    BY <2>1, <2>2
<1>8. AloneRequests'
  BY <1>v, <1>1 DEF CommandInv, AloneRequests
<1>9. CommandInv'
  BY <1>v, <1>1, <1>2, <1>7, <1>8, CommandsKeep
<1> QED
  BY <1>4, <1>6, <1>9

\* An answer, or the end of the client's patience.
LEMMA AnswerKeeps ==
  ASSUME TypeOK, RequestInv, CommandInv, NEW t \in Task, AgentAnswers(t)
  PROVE  /\ task' \in [Task -> Tasks] /\ requests' \subseteq requests
         /\ RequestInv' /\ CommandInv'
<1>1. PICK r \in requests :
        /\ Awaits(t, r) /\ r.pc \in Ended /\ requests' = requests \ {r}
        /\ IF r.pc = "ok" THEN task' = [task EXCEPT ![t].pc = "answered"] ELSE Throw(t)
        /\ UNCHANGED <<row, raced>>
  BY DEF AgentAnswers
<1>2. /\ r.task = t /\ r.awaited /\ task[t].pc = "calling" /\ task[t].vm = r.vm
      /\ task[t].kind = r.kind /\ r.vm \in Vm /\ task[t].failures < Attempts
  BY <1>1 DEF Awaits, RequestInv, TypeOK
<1>3. PICK x \in Tasks :
        /\ task' = [task EXCEPT ![t] = x] /\ x.pc \in {"answered", "waiting", "failed"}
        /\ x.vm = task[t].vm /\ x.kind = task[t].kind
        /\ x.pc # "failed" => x.failures < Attempts /\ (x.pc = "waiting" => x.failures > 0)
  <2>1. CASE r.pc = "ok"
    <3>1. PICK x \in Tasks :
            /\ task' = [task EXCEPT ![t] = x] /\ x.pc = "answered"
            /\ x.vm = task[t].vm /\ x.kind = task[t].kind /\ x.failures = task[t].failures
      BY <1>1, <2>1, TaskMoves DEF TaskPc
    <3> QED
      BY <1>2, <3>1
  <2>2. CASE r.pc # "ok"
    <3>1. PICK x \in Tasks :
            /\ task' = [task EXCEPT ![t] = x] /\ x.pc \in {"waiting", "failed"}
            /\ x.vm = task[t].vm /\ x.kind = task[t].kind /\ x.failures > 0
            /\ x.pc = "waiting" => x.failures < Attempts
      BY <1>1, <1>2, <2>2, ThrowChanges
    <3> QED
      BY <3>1
  <2> QED
    BY <2>1, <2>2
<1>4. \A q \in requests \ {r} : q.task = t => ~q.awaited
  BY <1>1, <1>2 DEF RequestInv
<1>5. task' \in [Task -> Tasks] /\ RequestInv'
  <2>1. \A q \in requests' : q.task = t => ~q.awaited /\ (x.pc # "waiting" \/ x.failures > 0)
    BY <1>1, <1>3, <1>4
  <2>2. x.pc \in {"waiting", "calling", "answered"} => x.failures < Attempts
    BY <1>3
  <2>3. \A q \in requests' : q \in requests
    BY <1>1
  <2>4. x.vm \in Vm /\ x.pc # "unused" /\ x.vm = task[t].vm /\ x.kind = task[t].kind
    BY <1>2, <1>3
  <2>5. task' = [task EXCEPT ![t] = x]
    BY <1>3
  <2> QED
    BY <2>1, <2>2, <2>3, <2>4, <2>5, TaskKeeps
<1>6. AloneRequests'
  BY <1>1 DEF CommandInv, AloneRequests
<1>7. x.kind = "delete" /\ x.vm \notin raced => \A q \in requests' : q.vm # x.vm
  BY <1>1, <1>2, <1>3 DEF CommandInv, AloneRequests
<1>8. \A v \in Vm : Exists(v) => Exists(v)'
  BY <1>1 DEF Exists
<1>9. CommandInv'
  BY <1>1, <1>2, <1>3, <1>6, <1>7, <1>8, CommandsKeep DEF Handled
<1> QED
  BY <1>1, <1>5, <1>9

LEMMA TimeoutKeeps ==
  ASSUME TypeOK, RequestInv, CommandInv, NEW t \in Task, AgentTimesOut(t)
  PROVE  /\ task' \in [Task -> Tasks] /\ requests' \subseteq Requests
         /\ RequestInv' /\ CommandInv'
         /\ \A q \in requests' : \E p \in requests :
              p.vm = q.vm /\ p.kind = q.kind /\ p.pc = q.pc
<1>1. PICK r \in requests :
        /\ Awaits(t, r) /\ r.pc \notin Ended
        /\ requests' = (requests \ {r}) \union {[r EXCEPT !.awaited = FALSE]}
        /\ Throw(t) /\ UNCHANGED <<row, raced>>
  BY DEF AgentTimesOut
<1> DEFINE y == [r EXCEPT !.awaited = FALSE]
<1>2. /\ r.task = t /\ r.awaited /\ task[t].pc = "calling" /\ task[t].vm = r.vm
      /\ task[t].kind = r.kind /\ r.vm \in Vm /\ task[t].failures < Attempts
      /\ r.pc \in Steps(r.kind) \ Ended
  BY <1>1 DEF Awaits, RequestInv, TypeOK
<1>3. PICK x \in Tasks :
        /\ task' = [task EXCEPT ![t] = x] /\ x.pc \in {"waiting", "failed"}
        /\ x.vm = task[t].vm /\ x.kind = task[t].kind /\ x.failures > 0
        /\ x.pc = "waiting" => x.failures < Attempts
  BY <1>1, <1>2, ThrowChanges
<1>4. /\ y \in Requests /\ y.task = r.task /\ y.vm = r.vm /\ y.kind = r.kind
      /\ y.pc = r.pc /\ ~y.awaited
  BY <1>1 DEF TypeOK, Requests
<1>5. requests' = (requests \ {r}) \union {y}
  BY <1>1
<1> HIDE DEF y
<1>6. \A q \in requests \ {r} : q.task = t => ~q.awaited
  BY <1>1, <1>2 DEF RequestInv
<1>7. Abandoned(y, t, x)
  BY <1>2, <1>3, <1>4 DEF Abandoned
<1>8. task' \in [Task -> Tasks] /\ RequestInv'
  <2>1. \A q \in requests' : q \in requests \/ Abandoned(q, t, x)
    BY <1>5, <1>7
  <2>2. \A q \in requests' : q.task = t => ~q.awaited /\ (x.pc # "waiting" \/ x.failures > 0)
    BY <1>3, <1>4, <1>5, <1>6
  <2>3. x.vm \in Vm /\ x.pc # "unused" /\ x.vm = task[t].vm /\ x.kind = task[t].kind
    BY <1>2, <1>3
  <2>4. x.pc \in {"waiting", "calling", "answered"} => x.failures < Attempts
    BY <1>3
  <2>5. task' = [task EXCEPT ![t] = x]
    BY <1>3
  <2> QED
    BY <2>1, <2>2, <2>3, <2>4, <2>5, TaskKeeps
<1>9. AloneRequests'
  BY <1>1, <1>4, <1>5 DEF CommandInv, AloneRequests
<1>10. \A v \in Vm : Exists(v) => Exists(v)'
  BY <1>1 DEF Exists
<1>11. \A q \in requests' : \E p \in requests :
         p.task = q.task /\ p.vm = q.vm /\ p.kind = q.kind /\ p.pc = q.pc
  BY <1>4, <1>5
<1>12. CommandInv'
  BY <1>1, <1>2, <1>3, <1>9, <1>10, <1>11, CommandsKeep DEF Handled
<1>13. requests' \subseteq Requests
  BY <1>4, <1>5 DEF TypeOK, Requests
<1> QED
  BY <1>8, <1>11, <1>12, <1>13

\* What the agent has begun is not touched by a new task.
LEMMA EnqueueKeeps ==
  ASSUME TypeOK, RequestInv, CommandInv, NEW kind \in Kinds, NEW v \in Vm, Enqueue(kind, v),
         UNCHANGED <<requests, raced>>, \A w \in Vm : Exists(w) => Exists(w)'
  PROVE  task' \in [Task -> Tasks] /\ RequestInv' /\ CommandInv'
<1>1. PICK t \in Task, x \in Tasks :
        /\ task[t].pc = "unused" /\ task' = [task EXCEPT ![t] = x]
        /\ x.pc = "waiting" /\ x.vm = v /\ x.kind = kind /\ x.failures = 0
  BY EnqueueChanges
<1>2. \A q \in requests : q.task # t
  BY <1>1 DEF RequestInv
<1>3. task' \in [Task -> Tasks] /\ RequestInv'
  <2>1. x.pc \in {"waiting", "calling", "answered"} => x.failures < Attempts
    BY <1>1, VmAssumption
  <2> QED
    BY <1>1, <1>2, <2>1, TaskKeeps
<1>4. AloneRequests'
  BY DEF CommandInv, AloneRequests
<1>5. CommandInv'
  BY <1>1, <1>4, CommandsKeep
<1> QED
  BY <1>3, <1>5

\* A task without a row is done at once.
LEMMA MissingKeeps ==
  ASSUME TypeOK, RequestInv, CommandInv, NEW t \in Task, HandleMissing(t)
  PROVE  task' \in [Task -> Tasks] /\ RequestInv' /\ CommandInv'
<1>1. /\ task[t].pc = "waiting" /\ task[t].vm \in Vm
      /\ UNCHANGED <<row, requests, raced>>
  BY DEF HandleMissing, RequestInv
<1>2. PICK x \in Tasks : /\ task' = [task EXCEPT ![t] = x] /\ x.pc = "done"
                         /\ x.vm = task[t].vm /\ x.kind = task[t].kind
  BY TaskMoves DEF HandleMissing, TaskPc
<1>3. \A q \in requests : q.task = t => ~q.awaited
  BY <1>1 DEF RequestInv
<1>4. task' \in [Task -> Tasks] /\ RequestInv'
  BY <1>1, <1>2, <1>3, TaskKeeps
<1>5. AloneRequests'
  BY <1>1 DEF CommandInv, AloneRequests
<1>6. \A v \in Vm : Exists(v) => Exists(v)'
  BY <1>1 DEF Exists
<1>7. CommandInv'
  BY <1>1, <1>2, <1>5, <1>6, CommandsKeep
<1> QED
  BY <1>4, <1>7

\* Steps that touch neither tasks nor requests, nor which rows exist.
LEMMA OthersKeep ==
  ASSUME RequestInv, CommandInv, NamesDiffer, UNCHANGED <<task, requests, raced>>,
         \A v \in Vm : Exists(v)' <=> Exists(v)
  PROVE  RequestInv' /\ CommandInv' /\ NamesDiffer'
<1>1. RequestInv'
  BY DEF RequestInv
<1>2. \A v : Begun(v)' = Begun(v)
  BY DEF Begun
<1>3. AloneTasks' /\ CommandsExist'
  BY <1>2 DEF CommandInv, AloneTasks, CommandsExist
<1>4. AloneRequests' /\ AnsweredAlone'
  BY DEF CommandInv, AloneRequests, AnsweredAlone
<1> QED
  BY <1>1, <1>3, <1>4 DEF CommandInv, NamesDiffer

\* What libvirt may be left with when a domain is switched off.
LEMMA DestroyedIs ==
  ASSUME TypeOK, NEW n \in Name
  PROVE  /\ Destroyed(n) \in Domain \union {NoDomain}
         /\ Present(n) /\ domain[n].persistent =>
              /\ Destroyed(n).st = "shutoff" /\ Destroyed(n).persistent
              /\ Destroyed(n).spec = domain[n].spec /\ Destroyed(n) # NoDomain
<1>1. domain[n] \in Domain \union {NoDomain}
  BY DEF TypeOK
<1>2. ~NoDomain.persistent /\ NoDomain.st = "absent"
  BY DEF NoDomain
<1>3. domain[n] \in Domain => /\ [domain[n] EXCEPT !.st = "shutoff"] \in Domain
                              /\ [domain[n] EXCEPT !.st = "shutoff"].st = "shutoff"
                              /\ [domain[n] EXCEPT !.st = "shutoff"].spec = domain[n].spec
                              /\ [domain[n] EXCEPT !.st = "shutoff"].persistent
                                   = domain[n].persistent
  BY DEF Domain
<1> QED
  BY <1>1, <1>2, <1>3 DEF Destroyed, Present

-----------------------------------------------------------------------------
(* Every step keeps the tasks and the requests in order.                    *)

CoreInv == TypeOK /\ RequestInv /\ CommandInv /\ NamesDiffer

LEMMA CoreStep ==
  ASSUME CoreInv, [Next]_vars
  PROVE  CoreInv'
<1>1. TypeOK /\ RequestInv /\ CommandInv /\ NamesDiffer
  BY DEF CoreInv
<1>2. /\ row \in [Vm -> RowState] /\ task \in [Task -> Tasks] /\ requests \subseteq Requests
      /\ domain \in [Name -> Domain \union {NoDomain}] /\ disks \in [Name -> Vm \union {NoVm}]
      /\ reports \subseteq Name \X Shown /\ raced \subseteq Vm /\ skipped \subseteq Vm
  BY <1>1 DEF TypeOK, Tasks, Requests
<1> DEFINE Typed == /\ row \in [Vm -> RowState] /\ task \in [Task -> Tasks]
                    /\ requests \subseteq Requests
                    /\ domain \in [Name -> Domain \union {NoDomain}]
                    /\ disks \in [Name -> Vm \union {NoVm}]
                    /\ reports \subseteq Name \X Shown /\ raced \subseteq Vm /\ skipped \subseteq Vm
<1>3. Typed' <=> TypeOK'
  BY DEF TypeOK, Tasks, Requests
<1>4. ASSUME NEW v \in Vm, Create(v)
      PROVE  CoreInv'
  <2>1. /\ row' = [row EXCEPT ![v] = "provisioning"] /\ row[v] = "none"
        /\ UNCHANGED <<requests, domain, disks, reports, raced, skipped>>
        /\ NameFree(v) /\ Enqueue("provision", v)
    BY <1>4 DEF Create, nodeVars
  <2>2. /\ row' \in [Vm -> RowState] /\ Exists(v)'
        /\ \A w \in Vm \ {v} : Exists(w)' <=> Exists(w)
    BY <1>2, <2>1 DEF Exists, RowState
  <2>3. task' \in [Task -> Tasks] /\ RequestInv' /\ CommandInv'
    <3>1. "provision" \in Kinds /\ \A w \in Vm : Exists(w) => Exists(w)'
      BY <2>2 DEF Kinds
    <3> QED
      BY <1>1, <2>1, <3>1, EnqueueKeeps
  <2>4. NamesDiffer'
    BY <1>1, <2>1, <2>2 DEF NamesDiffer, NameFree
  <2> QED
    BY <1>2, <1>3, <2>1, <2>2, <2>3, <2>4 DEF CoreInv
<1>5. ASSUME NEW v \in Vm, Remove(v)
      PROVE  CoreInv'
  <2>1. /\ row' = [row EXCEPT ![v] = "deleting"] /\ Exists(v)
        /\ UNCHANGED <<requests, domain, disks, reports, raced, skipped>> /\ Enqueue("delete", v)
    BY <1>5 DEF Remove, nodeVars
  <2>2. row' \in [Vm -> RowState] /\ \A w \in Vm : Exists(w)' <=> Exists(w)
    BY <1>2, <2>1 DEF Exists, RowState
  <2>3. task' \in [Task -> Tasks] /\ RequestInv' /\ CommandInv'
    <3>1. "delete" \in Kinds /\ \A w \in Vm : Exists(w) => Exists(w)'
      BY <2>2 DEF Kinds
    <3> QED
      BY <1>1, <2>1, <3>1, EnqueueKeeps
  <2>4. NamesDiffer'
    BY <1>1, <2>2 DEF NamesDiffer
  <2> QED
    BY <1>2, <1>3, <2>1, <2>2, <2>3, <2>4 DEF CoreInv
<1>6. ASSUME NEW v \in Vm, NEW k \in PowerKinds, Power(v, k)
      PROVE  CoreInv'
  <2>1. UNCHANGED <<row, requests, domain, disks, reports, raced, skipped>> /\ Enqueue(k, v)
    BY <1>6 DEF Power, nodeVars
  <2>2. k \in Kinds /\ \A w \in Vm : Exists(w)' <=> Exists(w)
    BY <2>1, VmAssumption DEF Exists, Kinds
  <2>3. task' \in [Task -> Tasks] /\ RequestInv' /\ CommandInv'
    BY <1>1, <2>1, <2>2, EnqueueKeeps
  <2>4. NamesDiffer'
    BY <1>1, <2>2 DEF NamesDiffer
  <2> QED
    BY <1>2, <1>3, <2>1, <2>3, <2>4 DEF CoreInv
<1>7. ASSUME NEW t \in Task, HandleMissing(t)
      PROVE  CoreInv'
  <2>1. UNCHANGED <<row, requests, domain, disks, reports, raced, skipped>>
    BY <1>7 DEF HandleMissing, nodeVars
  <2>2. NamesDiffer'
    BY <1>1, <2>1 DEF NamesDiffer, Exists
  <2> QED
    BY <1>1, <1>2, <1>3, <1>7, <2>1, <2>2, MissingKeeps DEF CoreInv
<1>8. ASSUME NEW t \in Task, HandleCall(t)
      PROVE  CoreInv'
  <2>1. UNCHANGED <<row, domain, disks, reports, skipped>>
    BY <1>8 DEF HandleCall, nodeVars
  <2>2. NamesDiffer'
    BY <1>1, <2>1 DEF NamesDiffer, Exists
  <2> QED
    BY <1>1, <1>2, <1>3, <1>8, <2>1, <2>2, CallKeeps DEF CoreInv
<1>9. ASSUME NEW t \in Task, AgentAnswers(t)
      PROVE  CoreInv'
  <2>1. UNCHANGED <<row, domain, disks, reports, raced, skipped>>
    BY <1>9 DEF AgentAnswers, nodeVars
  <2>2. NamesDiffer'
    BY <1>1, <2>1 DEF NamesDiffer, Exists
  <2> QED
    BY <1>1, <1>2, <1>3, <1>9, <2>1, <2>2, AnswerKeeps DEF CoreInv
<1>10. ASSUME NEW t \in Task, HandleReturn(t)
       PROVE  CoreInv'
  <2>1. UNCHANGED <<requests, domain, disks, reports, raced, skipped>>
    BY <1>10 DEF HandleReturn, nodeVars
  <2>2. /\ task' \in [Task -> Tasks] /\ row' \in [Vm -> RowState]
        /\ RequestInv' /\ CommandInv' /\ \A v \in Vm : Exists(v)' => Exists(v)
    BY <1>1, <1>10, ReturnKeeps
  <2>3. NamesDiffer'
    BY <1>1, <2>2, RowsStay
  <2> QED
    BY <1>2, <1>3, <2>1, <2>2, <2>3 DEF CoreInv
<1>11. ASSUME NEW t \in Task, AgentTimesOut(t)
       PROVE  CoreInv'
  <2>1. UNCHANGED <<row, domain, disks, reports, raced, skipped>>
    BY <1>11 DEF AgentTimesOut, nodeVars
  <2>2. NamesDiffer'
    BY <1>1, <2>1 DEF NamesDiffer, Exists
  <2>3. /\ task' \in [Task -> Tasks] /\ requests' \subseteq Requests
        /\ RequestInv' /\ CommandInv'
    BY <1>1, <1>11, TimeoutKeeps
  <2> QED
    BY <1>2, <1>3, <2>1, <2>2, <2>3 DEF CoreInv
<1>12. ASSUME NEW r \in requests, Execute(r) \/ Failure(r) \/ PassOver(r)
       PROVE  CoreInv'
  <2>1. /\ \E label : Follows(r, label)
        /\ UNCHANGED <<row, task, reports, raced>>
        /\ domain' \in [Name -> Domain \union {NoDomain}]
        /\ disks' \in [Name -> Vm \union {NoVm}]
    BY <1>1, <1>12, ExecuteFollows
  <2>4. skipped' \subseteq Vm
    <3>1. r.vm \in Vm
      BY <1>1 DEF TypeOK
    <3> QED
      BY <1>2, <1>12, <3>1 DEF Execute, Failure, PassOver
  <2>2. requests' \subseteq Requests /\ RequestInv' /\ CommandInv'
    BY <1>1, <2>1, FollowsKeeps
  <2>3. NamesDiffer'
    BY <1>1, <2>1 DEF NamesDiffer, Exists
  <2> QED
    BY <1>2, <1>3, <2>1, <2>2, <2>3, <2>4 DEF CoreInv
<1>13. ASSUME NEW n \in Name, GuestPowersOff(n) \/ GuestSuspended(n)
       PROVE  CoreInv'
  <2>1. UNCHANGED <<row, task, requests, disks, reports, raced, skipped>>
    BY <1>13 DEF GuestPowersOff, GuestSuspended
  <2>2. domain' \in [Name -> Domain \union {NoDomain}]
    <3>1. Destroyed(n) \in Domain \union {NoDomain}
      BY <1>1, DestroyedIs
    <3>2. domain[n].st = "running" =>
            [domain[n] EXCEPT !.st = "paused"] \in Domain \union {NoDomain}
      <4>1. NoDomain.st # "running"
        BY DEF NoDomain
      <4>2. domain[n] \in Domain => [domain[n] EXCEPT !.st = "paused"] \in Domain
        BY DEF Domain
      <4> QED
        BY <1>2, <4>1, <4>2
    <3>3. CASE GuestPowersOff(n)
      BY <1>2, <3>1, <3>3 DEF GuestPowersOff
    <3>4. CASE GuestSuspended(n)
      BY <1>2, <3>2, <3>4 DEF GuestSuspended
    <3> QED
      BY <1>13, <3>3, <3>4
  <2>3. RequestInv' /\ CommandInv' /\ NamesDiffer'
    <3>1. \A v \in Vm : Exists(v)' <=> Exists(v)
      BY <2>1 DEF Exists
    <3> QED
      BY <1>1, <2>1, <3>1, OthersKeep
  <2> QED
    BY <1>2, <1>3, <2>1, <2>2, <2>3 DEF CoreInv
<1>14. ASSUME NEW n \in Name, ApplyReport(n)
       PROVE  CoreInv'
  <2>1. PICK st \in Shown :
          /\ reports' \subseteq reports
          /\ row' = [v \in Vm |-> IF NameOf[v] = n /\ Reportable(v) THEN st ELSE row[v]]
          /\ UNCHANGED <<task, requests, domain, disks, raced, skipped>>
    BY <1>14 DEF ApplyReport, nodeVars
  <2>2. row' \in [Vm -> RowState] /\ \A v \in Vm : Exists(v)' <=> Exists(v)
    BY <1>2, <2>1 DEF RowState, Exists, Reportable, Shown
  <2>3. RequestInv' /\ CommandInv' /\ NamesDiffer'
    BY <1>1, <2>1, <2>2, OthersKeep
  <2> QED
    BY <1>2, <1>3, <2>1, <2>2, <2>3 DEF CoreInv
<1>15. ASSUME Heartbeat
       PROVE  CoreInv'
  <2>1. UNCHANGED <<row, task, requests, domain, disks, raced, skipped>>
    BY <1>15 DEF Heartbeat, nodeVars
  <2>2. reports' \subseteq Name \X Shown
    <3>1. \A m \in Name : domain[m] # NoDomain => StateString(m) \in Shown
      BY <1>2 DEF StateString, Domain, Shown
    <3> QED
      BY <1>2, <1>15, <3>1 DEF Heartbeat
  <2>3. RequestInv' /\ CommandInv' /\ NamesDiffer'
    <3>1. \A v \in Vm : Exists(v)' <=> Exists(v)
      BY <2>1 DEF Exists
    <3> QED
      BY <1>1, <2>1, <3>1, OthersKeep
  <2> QED
    BY <1>2, <1>3, <2>1, <2>2, <2>3 DEF CoreInv
<1>16. CASE UNCHANGED vars
  <2>1. UNCHANGED <<row, task, requests, domain, disks, reports, raced, skipped>>
    BY <1>16 DEF vars, nodeVars
  <2>2. RequestInv' /\ CommandInv' /\ NamesDiffer'
    <3>1. \A v \in Vm : Exists(v)' <=> Exists(v)
      BY <2>1 DEF Exists
    <3> QED
      BY <1>1, <2>1, <3>1, OthersKeep
  <2> QED
    BY <1>2, <1>3, <2>1, <2>2 DEF CoreInv
<1> QED
  BY <1>4, <1>5, <1>6, <1>7, <1>8, <1>9, <1>10, <1>11, <1>12, <1>13, <1>14, <1>15, <1>16
  DEF Next, Worker

-----------------------------------------------------------------------------
(* What the node has.                                                      *)

\* A command of a calm name is that of the VM that has the name, and a delete
\* among the commands of the name is the only one.
LEMMA SoleDelete ==
  ASSUME CoreInv, NEW r \in requests, Calm(NameOf[r.vm])
  PROVE  /\ Exists(r.vm) /\ \A v \in Vm : Exists(v) /\ NameOf[v] = NameOf[r.vm] => v = r.vm
         /\ \A q \in requests : NameOf[q.vm] = NameOf[r.vm] =>
              q.vm = r.vm /\ (q.kind = "delete" \/ r.kind = "delete" => q = r)
         /\ \A t \in Task : task[t].pc = "answered" /\ NameOf[task[t].vm] = NameOf[r.vm] =>
              task[t].vm = r.vm /\ task[t].kind # "delete" /\ r.kind # "delete"
         /\ r.kind = "delete" => DeleteBegun(r.vm)
<1>1. TypeOK /\ RequestInv /\ CommandInv /\ NamesDiffer
  BY DEF CoreInv
<1>2. \A q \in requests : q.vm \in Vm /\ q.task \in Task /\ q.task \in Begun(q.vm)
  BY <1>1, BegunIs DEF TypeOK
<1>3. \A v \in Vm : NameOf[v] = NameOf[r.vm] => v \notin raced
  BY DEF Calm, Orderly
<1>4. \A t \in Task : task[t].pc = "answered" =>
        task[t].vm \in Vm /\ t \in Begun(task[t].vm)
  BY <1>1, BegunIs DEF RequestInv, Handled
<1>5. \A v \in Vm : NameOf[v] = NameOf[r.vm] /\ Begun(v) # {} => Exists(v)
  BY <1>1, <1>3 DEF CommandInv, CommandsExist
<1>6. Exists(r.vm) /\ \A v \in Vm : Exists(v) /\ NameOf[v] = NameOf[r.vm] => v = r.vm
  BY <1>1, <1>2, <1>5 DEF NamesDiffer
<1>7. ASSUME NEW q \in requests, NameOf[q.vm] = NameOf[r.vm]
      PROVE  q.vm = r.vm /\ (q.kind = "delete" \/ r.kind = "delete" => q = r)
  <2>1. q.vm = r.vm /\ r.vm \notin raced
    BY <1>2, <1>3, <1>5, <1>6, <1>7
  <2> QED
    BY <1>1, <2>1 DEF CommandInv, AloneRequests
<1>8. ASSUME NEW t \in Task, task[t].pc = "answered", NameOf[task[t].vm] = NameOf[r.vm]
      PROVE  task[t].vm = r.vm /\ task[t].kind # "delete" /\ r.kind # "delete"
  <2>1. task[t].vm = r.vm /\ r.vm \notin raced
    BY <1>2, <1>3, <1>4, <1>5, <1>6, <1>8
  <2>2. task[t].kind # "delete"
    BY <1>1, <1>8, <2>1 DEF CommandInv, AnsweredAlone
  <2>3. task[r.task].kind = r.kind
    BY <1>1 DEF RequestInv
  <2>4. r.kind = "delete" => r.task = t
    BY <1>1, <1>2, <1>4, <1>8, <2>1, <2>3 DEF CommandInv, AloneTasks
  <2> QED
    BY <2>1, <2>2, <2>3, <2>4
<1>9. r.kind = "delete" => DeleteBegun(r.vm)
  BY <1>1, <1>2 DEF RequestInv, DeleteBegun
<1> QED
  BY <1>6, <1>7, <1>8, <1>9

\* What was there is still there.
Kept(n) == (Present(n) => Present(n)') /\ (disks[n] # NoVm => disks'[n] # NoVm)

\* A step of a command, on a calm name, leaves its place, the name in order and,
\* unless it deletes, everything that was there.
Advances(r, n) ==
  \E label : /\ Follows(r, label) /\ Owned(n)' /\ Reached(r.kind, label, n)'
             /\ r.kind # "delete" => Kept(n)

\* Provisioning.
LEMMA ProvisionAdvances ==
  ASSUME CoreInv, OwnerInv, ReachedInv, NEW r \in requests, NEW n \in Name,
         n = NameOf[r.vm], Calm(n), UNCHANGED row,
         CreateDisks(r) \/ DefineDomain(r) \/ EnsureRunning(r)
  PROVE  Advances(r, n)
<1>1. TypeOK /\ RequestInv /\ NamesDiffer
  BY DEF CoreInv
<1>2. /\ r.vm \in Vm /\ r.kind \in Kinds /\ r.pc \in Steps(r.kind) \union Ended
      /\ domain \in [Name -> Domain \union {NoDomain}]
      /\ disks \in [Name -> Vm \union {NoVm}]
  BY <1>1 DEF TypeOK, RequestInv
<1>3. Owned(n) /\ Reached(r.kind, r.pc, n)
  BY DEF OwnerInv, ReachedInv
<1>4. Exists(r.vm) /\ \A v \in Vm : Exists(v) /\ NameOf[v] = n => v = r.vm
  BY SoleDelete
<1>5. NoDomain.st = "absent" /\ NoDomain \notin Domain
  BY DEF NoDomain, Domain
<1>6. Exists(r.vm)' /\ \A v \in Vm : Exists(v)' <=> Exists(v)
  BY <1>4 DEF Exists
<1>7. CASE CreateDisks(r)
  <2>1. r.kind = "provision" /\ "define" \in Steps(r.kind)
    BY <1>2, <1>7 DEF CreateDisks, Steps, Kinds, Ended
  <2>2. UNCHANGED domain /\ disks' = IF disks[n] = NoVm THEN [disks EXCEPT ![n] = r.vm]
                                                        ELSE disks
    BY <1>7 DEF CreateDisks
  <2>3. disks'[n] # NoVm /\ (disks[n] # NoVm => disks'[n] = disks[n])
        /\ (disks[n] = NoVm => disks'[n] = r.vm)
    BY <1>2, <2>2, VmAssumption
  <2>4. Present(n)' <=> Present(n)
    BY <2>2 DEF Present
  <2>5. Present(n) => disks[n] # NoVm
    BY <1>2, <1>3, VmAssumption DEF Owned, Present, Domain
  <2>6. Owned(n)'
    BY <1>2, <1>3, <1>6, <2>2, <2>3, <2>4, <2>5 DEF Owned
  <2>7. Follows(r, "define")
    BY <1>7, <2>1, GotoFollows DEF CreateDisks, Ended
  <2> QED
    BY <2>1, <2>3, <2>4, <2>6, <2>7 DEF Advances, Kept, Reached
<1>8. CASE DefineDomain(r)
  <2>1. r.kind = "provision" /\ "power" \in Steps(r.kind) /\ r.pc = "define"
    BY <1>2, <1>8 DEF DefineDomain, Steps, Kinds, Ended
  <2> DEFINE d == [st |-> "shutoff", spec |-> r.vm, persistent |-> TRUE]
  <2>2. UNCHANGED disks /\ domain' = IF domain[n] = NoDomain
                                     THEN [domain EXCEPT ![n] = d] ELSE domain
    BY <1>8 DEF DefineDomain
  <2>3. d \in Domain
    BY <1>2 DEF Domain
  <2>4. d.st = "shutoff" /\ d.persistent /\ d.spec = r.vm
    OBVIOUS
  <2> HIDE DEF d
  <2>5. disks[n] # NoVm
    BY <1>3, <2>1 DEF Reached
  <2>6. disks[n] = r.vm
    BY <1>2, <1>3, <1>4, <2>5 DEF Owned
  <2>7. domain'[n] # NoDomain /\ (domain'[n] = d \/ (Present(n) /\ domain'[n] = domain[n]))
    BY <1>2, <1>5, <2>2, <2>3 DEF Present
  <2>8. Present(n)' /\ disks'[n] = disks[n]
    BY <2>2, <2>7 DEF Present
  <2>9. Owned(n)'
    BY <1>2, <1>3, <1>6, <2>4, <2>6, <2>7, <2>8 DEF Owned
  <2>10. Follows(r, "power")
    BY <1>8, <2>1, GotoFollows DEF DefineDomain, Ended
  <2> QED
    BY <2>1, <2>5, <2>8, <2>9, <2>10 DEF Advances, Kept, Reached
<1>9. CASE EnsureRunning(r)
  <2>1. r.kind # "delete" /\ UNCHANGED disks
    BY <1>2, <1>9 DEF EnsureRunning, Steps, Kinds, Ended
  <2>2. \/ domain[n].st = "running" /\ End(r, "ok") /\ UNCHANGED domain
        \/ domain[n].st = "shutoff" /\ End(r, "ok")
           /\ domain' = [domain EXCEPT ![n].st = "running"]
        \/ End(r, "err") /\ UNCHANGED domain
    BY <1>9 DEF EnsureRunning
  <2>3. CASE /\ UNCHANGED domain
             /\ (End(r, "ok") /\ domain[n].st = "running") \/ End(r, "err")
    <3>1. Owned(n)' /\ Kept(n) /\ (Present(n)' <=> Present(n))
      BY <1>2, <1>3, <1>6, <2>1, <2>3 DEF Owned, Kept, Present
    <3>2. CASE End(r, "ok") /\ domain[n].st = "running"
      <4>1. Present(n)' /\ Follows(r, "ok")
        BY <1>5, <3>1, <3>2, EndFollows DEF Present, Ended
      <4> QED
        BY <2>1, <3>1, <4>1 DEF Advances, Reached
    <3>3. CASE End(r, "err")
      <4>1. Follows(r, "err")
        BY <3>3, EndFollows DEF Ended
      <4> QED
        BY <2>1, <3>1, <4>1 DEF Advances, Reached
    <3> QED
      BY <2>3, <3>2, <3>3
  <2>4. CASE domain[n].st = "shutoff" /\ domain' = [domain EXCEPT ![n].st = "running"]
             /\ End(r, "ok")
    <3> DEFINE d == [domain[n] EXCEPT !.st = "running"]
    <3>1. domain[n] \in Domain
      BY <1>2, <1>5, <2>4
    <3>2. /\ d.st = "running" /\ d.spec = domain[n].spec
          /\ d.persistent = domain[n].persistent /\ d # NoDomain
      BY <3>1, <1>5 DEF Domain
    <3>3. domain'[n] = d
      BY <1>2, <2>4
    <3> HIDE DEF d
    <3>4. Present(n) /\ Present(n)' /\ disks'[n] = disks[n]
      BY <1>5, <2>1, <3>1, <3>2, <3>3 DEF Present
    <3>5. Owned(n)'
      BY <1>2, <1>3, <1>6, <3>2, <3>3, <3>4 DEF Owned
    <3>6. Follows(r, "ok")
      BY <2>4, EndFollows DEF Ended
    <3> QED
      BY <2>1, <3>4, <3>5, <3>6 DEF Advances, Kept, Reached
  <2> QED
    BY <2>2, <2>3, <2>4
<1> QED
  BY <1>7, <1>8, <1>9

\* Stopping.
LEMMA StopAdvances ==
  ASSUME CoreInv, OwnerInv, ReachedInv, NEW r \in requests, NEW n \in Name,
         n = NameOf[r.vm], Calm(n), UNCHANGED row, BeginStop(r) \/ Drain(r)
  PROVE  Advances(r, n)
<1>1. TypeOK /\ RequestInv
  BY DEF CoreInv
<1>2. /\ r.vm \in Vm /\ r.kind \in Kinds /\ r.pc \in Steps(r.kind) \union Ended
      /\ domain \in [Name -> Domain \union {NoDomain}]
      /\ disks \in [Name -> Vm \union {NoVm}]
  BY <1>1 DEF TypeOK, RequestInv
<1>3. Owned(n) /\ Reached(r.kind, r.pc, n)
  BY DEF OwnerInv, ReachedInv
<1>4. r.kind \in {"stop", "restart"} /\ UNCHANGED disks
  BY <1>2 DEF BeginStop, Drain, Steps, Kinds, Ended
<1>5. \A v \in Vm : Exists(v)' <=> Exists(v)
  BY DEF Exists
<1>6. NoDomain.st = "absent"
  BY DEF NoDomain
<1>7. UNCHANGED domain \/ (Present(n) /\ domain' = [domain EXCEPT ![n] = Destroyed(n)])
  BY <1>2, <1>6 DEF BeginStop, Drain, Active, Present
<1>8. Present(n)' <=> Present(n)
  BY <1>1, <1>2, <1>3, <1>7, DestroyedIs DEF Owned, Present
<1>9. Owned(n)' /\ Kept(n)
  <2>1. \/ domain'[n] = domain[n]
        \/ /\ Present(n) /\ domain'[n].st = "shutoff" /\ domain'[n].persistent
           /\ domain'[n].spec = domain[n].spec
    BY <1>1, <1>2, <1>3, <1>7, DestroyedIs DEF Owned
  <2> QED
    BY <1>2, <1>3, <1>4, <1>5, <1>8, <2>1 DEF Owned, Kept
<1>10. \/ End(r, "err")
       \/ (End(r, "ok") \/ Stopped(r) \/ Goto(r, "draining")) /\ Present(n)
  BY <1>2, <1>3, <1>4, <1>6 DEF BeginStop, Drain, Active, Present, Reached
<1>11. \E label \in Ended \union {"power", "draining"} :
         Follows(r, label) /\ (label = "err" \/ Present(n))
  <2>1. End(r, "err") => Follows(r, "err")
    BY EndFollows DEF Ended
  <2>2. End(r, "ok") => Follows(r, "ok")
    BY EndFollows DEF Ended
  <2>3. Goto(r, "draining") => Follows(r, "draining")
    <3>1. "draining" \in Steps(r.kind) /\ "draining" \notin Ended
      BY <1>4 DEF Steps, Ended
    <3> QED
      BY <3>1, GotoFollows
  <2>4. Stopped(r) => Follows(r, IF r.kind = "restart" THEN "power" ELSE "ok")
    BY <1>4, StoppedFollows
  <2> QED
    BY <1>10, <2>1, <2>2, <2>3, <2>4 DEF Ended
<1> QED
  BY <1>4, <1>8, <1>9, <1>11 DEF Advances, Reached, Ended

\* Deleting.
LEMMA DeleteAdvances ==
  ASSUME CoreInv, OwnerInv, ReachedInv, NEW r \in requests, NEW n \in Name,
         n = NameOf[r.vm], Calm(n), UNCHANGED row,
         KillDomain(r) \/ UndefineDomain(r) \/ WipeDisks(r)
  PROVE  Advances(r, n)
<1>1. TypeOK /\ RequestInv
  BY DEF CoreInv
<1>2. /\ r.vm \in Vm /\ r.kind \in Kinds /\ r.pc \in Steps(r.kind) \union Ended
      /\ domain \in [Name -> Domain \union {NoDomain}]
      /\ disks \in [Name -> Vm \union {NoVm}]
  BY <1>1 DEF TypeOK, RequestInv
<1>3. Owned(n) /\ Reached(r.kind, r.pc, n)
  BY DEF OwnerInv, ReachedInv
<1>4. r.kind = "delete"
  BY <1>2 DEF KillDomain, UndefineDomain, WipeDisks, Steps, Kinds, Ended
<1>5. \A v \in Vm : Exists(v)' <=> Exists(v)
  BY DEF Exists
<1>6. NoDomain.st = "absent" /\ ~NoDomain.persistent
  BY DEF NoDomain
<1>7. {"undefine", "wipe"} \subseteq Steps(r.kind) /\ {"undefine", "wipe"} \cap Ended = {}
  BY <1>4 DEF Steps, Ended
<1>8. CASE KillDomain(r)
  <2>1. UNCHANGED disks
    BY <1>8 DEF KillDomain
  <2>2. CASE domain[n] = NoDomain
    <3>1. UNCHANGED domain /\ Goto(r, "wipe")
      BY <1>6, <1>8, <2>2 DEF KillDomain
    <3>2. Owned(n)' /\ ~Present(n)'
      BY <1>2, <1>3, <1>5, <2>1, <2>2, <3>1 DEF Owned, Present
    <3>3. Follows(r, "wipe")
      BY <1>7, <3>1, GotoFollows
    <3> QED
      BY <1>4, <3>2, <3>3 DEF Advances, Reached
  <2>3. CASE domain[n] # NoDomain
    <3>1. /\ Goto(r, "undefine")
          /\ \/ domain'[n] = domain[n] /\ domain[n].st # "running"
             \/ domain'[n] = Destroyed(n)
      BY <1>2, <1>8, <2>3 DEF KillDomain
    <3>2. domain'[n] # NoDomain /\ domain'[n].st # "running" /\ domain'[n].st # "paused"
          /\ domain'[n].persistent /\ domain'[n].spec = domain[n].spec
      BY <1>1, <1>3, <2>3, <3>1, DestroyedIs DEF Owned, Present
    <3>3. Owned(n)'
      BY <1>2, <1>3, <1>5, <2>1, <2>3, <3>2 DEF Owned, Present
    <3>4. Follows(r, "undefine")
      BY <1>7, <3>1, GotoFollows
    <3> QED
      BY <1>4, <3>2, <3>3, <3>4 DEF Advances, Reached
  <2> QED
    BY <2>2, <2>3
<1>9. CASE UndefineDomain(r)
  <2>1. UNCHANGED disks /\ r.pc = "undefine"
    BY <1>9 DEF UndefineDomain
  <2>2. CASE domain[n].persistent
    <3>1. ~Active(n)
      BY <1>3, <1>4, <1>6, <2>1, <2>2 DEF Active, Owned, Present, Reached
    <3>2. domain'[n] = NoDomain /\ Goto(r, "wipe")
      BY <1>2, <1>9, <2>2, <3>1 DEF UndefineDomain
    <3>3. Owned(n)' /\ ~Present(n)'
      BY <1>2, <1>3, <1>5, <2>1, <3>2 DEF Owned, Present
    <3>4. Follows(r, "wipe")
      BY <1>7, <3>2, GotoFollows
    <3> QED
      BY <1>4, <3>3, <3>4 DEF Advances, Reached
  <2>3. CASE ~domain[n].persistent
    <3>1. UNCHANGED domain /\ End(r, "err")
      BY <1>9, <2>3 DEF UndefineDomain
    <3>2. Owned(n)'
      BY <1>2, <1>3, <1>5, <2>1, <3>1 DEF Owned, Present
    <3>3. Follows(r, "err")
      BY <3>1, EndFollows DEF Ended
    <3> QED
      BY <1>4, <3>2, <3>3 DEF Advances, Reached
  <2> QED
    BY <2>2, <2>3
<1>10. CASE WipeDisks(r)
  <2>1. UNCHANGED domain /\ disks'[n] = NoVm /\ End(r, "ok") /\ r.pc = "wipe"
    BY <1>2, <1>10 DEF WipeDisks, WipedDisks
  <2>2. ~Present(n)'
    BY <1>3, <1>4, <2>1 DEF Reached, Present
  <2>3. Owned(n)'
    BY <2>1, <2>2 DEF Owned
  <2>4. Follows(r, "ok")
    BY <2>1, EndFollows DEF Ended
  <2> QED
    BY <1>4, <2>1, <2>2, <2>3, <2>4 DEF Advances, Reached
<1> QED
  BY <1>8, <1>9, <1>10

\* A failure leaves the name as it is.
LEMMA FailsAdvances ==
  ASSUME CoreInv, OwnerInv, NEW r \in requests, NEW n \in Name,
         n = NameOf[r.vm], Calm(n), UNCHANGED row, Fails(r) \/ Cut(r)
  PROVE  Advances(r, n)
<1>1. TypeOK /\ Owned(n) /\ UNCHANGED <<domain, disks>> /\ End(r, "err")
  BY DEF CoreInv, OwnerInv, Fails, Cut, nodeVars
<1>2. Owned(n)' /\ Kept(n)
  BY <1>1 DEF Owned, Kept, Present, TypeOK, Exists
<1>3. Follows(r, "err")
  BY <1>1, EndFollows DEF Ended
<1> QED
  BY <1>2, <1>3 DEF Advances, Reached

NodeInv == OwnerInv /\ ReachedInv /\ ShownInv

\* A step of a command disturbs nothing that another command of a calm name, an
\* answered task or a VM that is shown relies on.
LEMMA ExecuteKeeps ==
  ASSUME CoreInv, NodeInv, NEW r \in requests, Execute(r) \/ Failure(r)
  PROVE  NodeInv'
<1> DEFINE n == NameOf[r.vm]
<1>1. TypeOK /\ RequestInv /\ OwnerInv /\ ReachedInv /\ ShownInv
  BY DEF CoreInv, NodeInv
<1>2. r.vm \in Vm /\ n \in Name /\ r \in Requests
  BY <1>1, VmAssumption DEF TypeOK, Requests
<1>3. UNCHANGED <<row, task, raced, skipped>> /\ \E label : Follows(r, label)
  BY <1>1, ExecuteFollows DEF Execute, Failure
<1>4. \A m \in Name \ {n} : domain'[m] = domain[m] /\ disks'[m] = disks[m]
  BY <1>1 DEF Execute, Failure, Fails, Cut, nodeVars, CreateDisks, DefineDomain, EnsureRunning,
              BeginStop, Drain, KillDomain, UndefineDomain, WipeDisks, TypeOK
<1>5. Calm(n) => Advances(r, n)
  BY <1>1, <1>2, <1>3, ProvisionAdvances, StopAdvances, DeleteAdvances, FailsAdvances
  DEF Execute, Failure
<1>6. PICK label : /\ Follows(r, label)
                   /\ Calm(n) => /\ Owned(n)' /\ Reached(r.kind, label, n)'
                                 /\ r.kind # "delete" => Kept(n)
  BY <1>3, <1>5 DEF Advances
<1>7. label \in RequestPc
  BY <1>2, <1>6, StepsAre DEF Follows, RequestPc, Requests
<1>8. \A q \in requests' : \/ q \in requests \ {r}
                           \/ q.vm = r.vm /\ q.kind = r.kind /\ q.pc = label
  BY <1>2, <1>6, <1>7, MovedIs DEF Follows
<1>9. \A m : Calm(m)' <=> Calm(m)
  BY <1>3 DEF Calm, Orderly
<1>10. OwnerInv'
  <2> SUFFICES ASSUME NEW m \in Name, Calm(m)
               PROVE  Owned(m)'
    BY <1>9 DEF OwnerInv
  <2>1. CASE m = n
    BY <1>6, <2>1
  <2>2. CASE m # n
    BY <1>1, <1>3, <1>4, <2>2 DEF OwnerInv, Owned, Present, Exists, TypeOK
  <2> QED
    BY <2>1, <2>2
<1>11. ASSUME Calm(n)
       PROVE  /\ \A q \in requests \ {r} : NameOf[q.vm] = n =>
                   q.kind # "delete" /\ r.kind # "delete"
              /\ \A t \in Task : task[t].pc = "answered" /\ NameOf[task[t].vm] = n =>
                   task[t].kind # "delete" /\ r.kind # "delete"
              /\ \A v \in Vm : Exists(v) /\ NameOf[v] = n =>
                   r.kind # "delete" \/ DeleteBegun(v)
  BY <1>11, SoleDelete
<1>12. \A m \in Name \ {n} : (Present(m)' <=> Present(m)) /\ \A kind, pc :
         Reached(kind, pc, m) => Reached(kind, pc, m)'
  BY <1>4 DEF Reached, Present
<1>13. ASSUME Kept(n), NEW kind, kind # "delete", NEW pc, Reached(kind, pc, n)
       PROVE  Reached(kind, pc, n)'
  BY <1>13 DEF Kept, Reached
<1>14. \A q \in requests : q.vm \in Vm /\ NameOf[q.vm] \in Name
  BY <1>1, VmAssumption DEF TypeOK
<1>15. \A q \in requests' : Calm(NameOf[q.vm]) => Reached(q.kind, q.pc, NameOf[q.vm])'
  <2> SUFFICES ASSUME NEW q \in requests', Calm(NameOf[q.vm])
               PROVE  Reached(q.kind, q.pc, NameOf[q.vm])'
    OBVIOUS
  <2>1. CASE q \in requests \ {r}
    <3>1. Reached(q.kind, q.pc, NameOf[q.vm])
      BY <1>1, <2>1 DEF ReachedInv
    <3>2. CASE NameOf[q.vm] = n
      BY <1>6, <1>11, <1>13, <2>1, <3>1, <3>2
    <3>3. CASE NameOf[q.vm] # n
      BY <1>12, <1>14, <2>1, <3>1, <3>3
    <3> QED
      BY <3>2, <3>3
  <2>2. CASE q.vm = r.vm /\ q.kind = r.kind /\ q.pc = label
    BY <1>6, <2>2
  <2> QED
    BY <1>8, <2>1, <2>2
<1>16. \A t \in Task : task[t].pc = "answered" /\ Calm(NameOf[task[t].vm]) => Achieved(t)'
  <2> SUFFICES ASSUME NEW t \in Task, task[t].pc = "answered", Calm(NameOf[task[t].vm])
               PROVE  Achieved(t)'
    OBVIOUS
  <2>1. Achieved(t) /\ NameOf[task[t].vm] \in Name
    BY <1>1 DEF ReachedInv, Calm
  <2>2. CASE NameOf[task[t].vm] = n
    BY <1>3, <1>6, <1>11, <2>1, <2>2 DEF Achieved, Kept
  <2>3. CASE NameOf[task[t].vm] # n
    BY <1>3, <1>4, <1>12, <2>1, <2>3 DEF Achieved
  <2> QED
    BY <2>2, <2>3
<1>17. ReachedInv'
  BY <1>3, <1>9, <1>15, <1>16 DEF ReachedInv
<1>18. ShownInv'
  <2> SUFFICES ASSUME NEW v \in Vm, row[v] \in Shown, ~DeleteBegun(v), Calm(NameOf[v])
               PROVE  Present(NameOf[v])'
    BY <1>3, <1>9 DEF ShownInv, DeleteBegun
  <2>1. Present(NameOf[v]) /\ NameOf[v] \in Name /\ Exists(v)
    BY <1>1 DEF ShownInv, Calm, Exists, Shown
  <2>2. CASE NameOf[v] = n
    BY <1>6, <1>11, <2>1, <2>2 DEF Kept
  <2>3. CASE NameOf[v] # n
    BY <1>12, <2>1, <2>3
  <2> QED
    BY <2>2, <2>3
<1> QED
  BY <1>10, <1>17, <1>18 DEF NodeInv

\* A deletion that passes over an error leaves the node as it is and makes no name calm.
LEMMA PassOverKeeps ==
  ASSUME CoreInv, NodeInv, NEW r \in requests, PassOver(r)
  PROVE  NodeInv'
<1> DEFINE n == NameOf[r.vm]
<1>1. TypeOK /\ RequestInv /\ OwnerInv /\ ReachedInv /\ ShownInv
  BY DEF CoreInv, NodeInv
<1>2. UNCHANGED <<row, task, domain, disks>>
  BY DEF PassOver, nodeVars
<1>3. PICK label : Follows(r, label)
  BY <1>1, ExecuteFollows
<1>4. r \in Requests /\ label \in RequestPc
  BY <1>1, <1>3, StepsAre DEF TypeOK, Requests, Follows, RequestPc
<1>5. \A q \in requests' : q \in requests \/ q.vm = r.vm
  BY <1>3, <1>4, MovedIs DEF Follows
<1>6. ~Calm(n)' /\ \A m : Calm(m)' => Calm(m)
  <2>1. r.vm \in skipped' /\ skipped \subseteq skipped' /\ UNCHANGED raced
    BY DEF PassOver
  <2> QED
    BY <2>1 DEF Calm, Orderly
<1>7. \A kind, pc, m : Reached(kind, pc, m)' <=> Reached(kind, pc, m)
  BY <1>2 DEF Reached, Present
<1>8. \A m : Owned(m)' <=> Owned(m)
  BY <1>2 DEF Owned, Present, Exists
<1>9. OwnerInv'
  BY <1>1, <1>6, <1>8 DEF OwnerInv
<1>10. \A q \in requests' : Calm(NameOf[q.vm])' => Reached(q.kind, q.pc, NameOf[q.vm])'
  BY <1>1, <1>5, <1>6, <1>7 DEF ReachedInv
<1>11. \A t \in Task : Achieved(t)' <=> Achieved(t)
  BY <1>2 DEF Achieved, Present
<1>12. ReachedInv'
  BY <1>1, <1>2, <1>6, <1>10, <1>11 DEF ReachedInv
<1>13. ShownInv'
  BY <1>1, <1>2, <1>6 DEF ShownInv, DeleteBegun, Present
<1> QED
  BY <1>9, <1>12, <1>13 DEF NodeInv

\* Nor does a guest that powers off; one that is paused makes no name calm.
LEMMA GuestKeeps ==
  ASSUME CoreInv, NodeInv, NEW n \in Name, GuestPowersOff(n) \/ GuestSuspended(n)
  PROVE  NodeInv'
<1>1. TypeOK /\ OwnerInv /\ ReachedInv /\ ShownInv
  BY DEF CoreInv, NodeInv
<1>2. UNCHANGED <<row, task, requests, disks, raced, skipped>> /\ domain[n].st = "running"
  BY DEF GuestPowersOff, GuestSuspended
<1>3. \A m \in Name \ {n} : domain'[m] = domain[m]
  BY <1>1 DEF GuestPowersOff, GuestSuspended, TypeOK
<1>4. \A m : Calm(m)' <=> Calm(m)
  BY <1>2 DEF Calm, Orderly
<1>5. ASSUME Calm(n)
      PROVE  /\ Present(n) /\ Present(n)' /\ domain'[n].st = "shutoff"
             /\ domain'[n].persistent /\ domain'[n].spec = domain[n].spec
  <2>1. Present(n) /\ domain[n].persistent
    <3>1. NoDomain.st # "running"
      BY DEF NoDomain
    <3> QED
      BY <1>1, <1>2, <1>5, <3>1 DEF OwnerInv, Owned, Present
  <2>2. domain'[n] = Destroyed(n)
    BY <1>1, <1>5 DEF GuestPowersOff, GuestSuspended, Calm, TypeOK
  <2> QED
    BY <1>1, <2>1, <2>2, DestroyedIs DEF Present
<1>6. \A m \in Name : Calm(m) => /\ Present(m)' <=> Present(m)
                                 /\ domain'[m].st = "running" => domain[m].st = "running"
  BY <1>3, <1>5 DEF Present
<1>7. \A m \in Name : Calm(m) => Owned(m)'
  <2> SUFFICES ASSUME NEW m \in Name, Calm(m)
               PROVE  Owned(m)'
    OBVIOUS
  <2>1. Owned(m)
    BY <1>1 DEF OwnerInv
  <2>2. \A v : Exists(v)' <=> Exists(v)
    BY <1>2 DEF Exists
  <2> QED
    BY <1>2, <1>3, <1>5, <1>6, <2>1, <2>2 DEF Owned
<1>8. OwnerInv'
  BY <1>4, <1>7 DEF OwnerInv
<1>9. \A m \in Name : Calm(m) => \A kind, pc : Reached(kind, pc, m) => Reached(kind, pc, m)'
  BY <1>2, <1>6 DEF Reached
<1>10. ReachedInv'
  <2>1. \A t \in Task : Calm(NameOf[task[t].vm]) => (Achieved(t)' <=> Achieved(t))
    BY <1>2, <1>6 DEF Achieved, Calm
  <2> QED
    BY <1>1, <1>2, <1>4, <1>9, <2>1 DEF ReachedInv, Calm
<1>11. ShownInv'
  BY <1>1, <1>2, <1>4, <1>6 DEF ShownInv, DeleteBegun, Calm
<1> QED
  BY <1>8, <1>10, <1>11 DEF NodeInv

\* A delete that has begun is not forgotten.
LEMMA DeleteRemains ==
  ASSUME TypeOK, RequestInv, NEW t \in Task, NEW x \in Tasks,
         task' = [task EXCEPT ![t] = x],
         \/ task[t].pc = "unused"
         \/ /\ x.vm = task[t].vm /\ x.kind = task[t].kind
            /\ x.pc # "waiting" \/ x.failures > 0
  PROVE  \A v \in Vm : DeleteBegun(v) => DeleteBegun(v)'
<1>1. task'[t] = x /\ \A u \in Task \ {t} : task'[u] = task[u]
  BY DEF TypeOK
<1>2. task[t].pc = "unused" => task[t].vm \notin Vm
  BY VmAssumption DEF RequestInv
<1> QED
  BY <1>1, <1>2 DEF DeleteBegun

\* How the worker moves a task.
LEMMA WorkerMoves ==
  ASSUME TypeOK, RequestInv, CommandInv, NEW t \in Task, Worker(t) \/ AgentTimesOut(t)
  PROVE  \E x \in Tasks :
           /\ task' = [task EXCEPT ![t] = x]
           /\ x.vm = task[t].vm /\ x.kind = task[t].kind
           /\ x.pc # "waiting" \/ x.failures > 0
           /\ x.pc = "answered" =>
                \E r \in requests : r.pc = "ok" /\ r.vm = x.vm /\ r.kind = x.kind
<1>1. task[t].pc # "waiting" /\ task[t].pc # "unused" =>
        task[t].pc \notin {"calling", "answered"} \/ task[t].failures < Attempts
  BY DEF RequestInv
<1>2. CASE HandleMissing(t)
  <2>1. PICK x \in Tasks : /\ task' = [task EXCEPT ![t] = x] /\ x.pc = "done"
                           /\ x.vm = task[t].vm /\ x.kind = task[t].kind
    BY <1>2, TaskMoves DEF HandleMissing, TaskPc
  <2> QED
    BY <2>1
<1>3. CASE HandleCall(t)
  <2>1. PICK x \in Tasks : /\ task' = [task EXCEPT ![t] = x] /\ x.pc = "calling"
                           /\ x.vm = task[t].vm /\ x.kind = task[t].kind
    BY <1>3, CallChanges
  <2> QED
    BY <2>1
<1>4. ASSUME Throw(t), task[t].pc \in {"calling", "answered"}
      PROVE  \E x \in Tasks : /\ task' = [task EXCEPT ![t] = x]
                              /\ x.vm = task[t].vm /\ x.kind = task[t].kind
                              /\ x.failures > 0 /\ x.pc # "answered"
  <2>1. PICK x \in Tasks :
           /\ task' = [task EXCEPT ![t] = x] /\ x.pc \in {"waiting", "failed"}
           /\ x.vm = task[t].vm /\ x.kind = task[t].kind /\ x.failures > 0
    BY <1>1, <1>4, ThrowChanges
  <2> QED
    BY <2>1
<1>5. CASE AgentAnswers(t)
  <2>1. PICK r \in requests :
          /\ Awaits(t, r) /\ r.pc \in Ended
          /\ IF r.pc = "ok" THEN task' = [task EXCEPT ![t].pc = "answered"] ELSE Throw(t)
    BY <1>5 DEF AgentAnswers
  <2>2. r.vm = task[t].vm /\ r.kind = task[t].kind /\ task[t].pc = "calling"
    BY <2>1 DEF Awaits, RequestInv
  <2>3. CASE r.pc = "ok"
    <3>1. PICK x \in Tasks : /\ task' = [task EXCEPT ![t] = x] /\ x.pc = "answered"
                             /\ x.vm = task[t].vm /\ x.kind = task[t].kind
      BY <2>1, <2>3, TaskMoves DEF TaskPc
    <3> QED
      BY <2>2, <2>3, <3>1
  <2>4. CASE r.pc # "ok"
    BY <1>4, <2>1, <2>2, <2>4
  <2> QED
    BY <2>3, <2>4
<1>6. CASE HandleReturn(t)
  <2>1. CASE Exists(task[t].vm)
    <3>1. PICK x \in Tasks : /\ task' = [task EXCEPT ![t] = x] /\ x.pc = "done"
                             /\ x.vm = task[t].vm /\ x.kind = task[t].kind
      BY <1>6, <2>1, TaskMoves DEF HandleReturn, TaskPc
    <3> QED
      BY <3>1
  <2>2. CASE ~Exists(task[t].vm)
    BY <1>4, <1>6, <2>2 DEF HandleReturn
  <2> QED
    BY <2>1, <2>2
<1>7. CASE AgentTimesOut(t)
  BY <1>4, <1>7 DEF AgentTimesOut, Awaits
<1> QED
  BY <1>2, <1>3, <1>5, <1>6, <1>7 DEF Worker

\* Steps that leave the node alone: what has to be known of the rows, the requests
\* and the tasks.
LEMMA RestKeeps ==
  ASSUME CoreInv, NodeInv, UNCHANGED <<domain, disks>>, raced \subseteq raced' /\ skipped \subseteq skipped',
         \A n \in Name : Calm(n) /\ disks[n] # NoVm /\ Exists(disks[n]) => Exists(disks[n])',
         \A q \in requests' :
           \/ \E p \in requests : p.vm = q.vm /\ p.kind = q.kind /\ p.pc = q.pc
           \/ q.kind \in Kinds /\ q.pc = FirstStep(q.kind),
         \A t \in Task : task'[t].pc = "answered" =>
           \/ task'[t] = task[t]
           \/ \E r \in requests :
                r.pc = "ok" /\ r.vm = task'[t].vm /\ r.kind = task'[t].kind,
         \A v \in Vm : row'[v] \in Shown /\ ~DeleteBegun(v)' /\ Calm(NameOf[v]) =>
           (row[v] \in Shown /\ ~DeleteBegun(v)) \/ Present(NameOf[v])
  PROVE  NodeInv'
<1>1. OwnerInv /\ ReachedInv /\ ShownInv
  BY DEF NodeInv
<1>2. \A n : Calm(n)' => Calm(n)
  BY DEF Calm, Orderly
<1>3. \A n : Present(n)' <=> Present(n)
  BY DEF Present
<1>4. OwnerInv'
  BY <1>1, <1>2, <1>3 DEF OwnerInv, Owned, Calm
<1>5. \A kind, pc, n : Reached(kind, pc, n)' <=> Reached(kind, pc, n)
  BY <1>3 DEF Reached
<1>6. \A kind \in Kinds : \A n : Reached(kind, FirstStep(kind), n)
  BY DEF Reached, FirstStep, Kinds
<1>7. \A r \in requests' : Calm(NameOf[r.vm])' => Reached(r.kind, r.pc, NameOf[r.vm])'
  BY <1>1, <1>2, <1>5, <1>6 DEF ReachedInv
<1>8. ASSUME NEW t \in Task, task'[t].pc = "answered", Calm(NameOf[task[t].vm])'
      PROVE  Achieved(t)'
  <2>1. PICK y : y = task'[t]
    OBVIOUS
  <2>2. Calm(NameOf[y.vm])
    BY <1>2, <1>8, <2>1
  <2>3. IF y.kind = "delete" THEN ~Present(NameOf[y.vm]) /\ disks[NameOf[y.vm]] = NoVm
                             ELSE Present(NameOf[y.vm])
    <3>1. CASE task'[t] = task[t]
      BY <1>1, <1>8, <2>1, <2>2, <3>1 DEF ReachedInv, Achieved
    <3>2. CASE \E r \in requests : r.pc = "ok" /\ r.vm = y.vm /\ r.kind = y.kind
      BY <1>1, <2>2, <3>2 DEF ReachedInv, Reached
    <3> QED
      BY <1>8, <2>1, <3>1, <3>2
  <2> QED
    BY <1>3, <2>1, <2>3 DEF Achieved
<1>9. ReachedInv'
  BY <1>7, <1>8 DEF ReachedInv
<1>10. ShownInv'
  BY <1>1, <1>2, <1>3 DEF ShownInv
<1> QED
  BY <1>4, <1>9, <1>10 DEF NodeInv

\* The API.
LEMMA ApiKeeps ==
  ASSUME CoreInv, NodeInv, NEW v \in Vm,
         Create(v) \/ Remove(v) \/ \E k \in PowerKinds : Power(v, k)
  PROVE  NodeInv'
<1>1. TypeOK /\ RequestInv
  BY DEF CoreInv
<1>2. UNCHANGED <<requests, domain, disks, raced, skipped>>
  BY DEF Create, Remove, Power, nodeVars
<1>3. \E kind \in Kinds : Enqueue(kind, v)
  BY VmAssumption DEF Create, Remove, Power, Kinds
<1>4. PICK t \in Task, x \in Tasks :
        task[t].pc = "unused" /\ task' = [task EXCEPT ![t] = x] /\ x.pc = "waiting"
  BY <1>1, <1>3, EnqueueChanges
<1>5. \A w \in Vm : DeleteBegun(w) => DeleteBegun(w)'
  BY <1>1, <1>4, DeleteRemains
<1>6. \/ UNCHANGED row
      \/ \E s \in {"provisioning", "deleting"} : row' = [row EXCEPT ![v] = s]
  BY DEF Create, Remove, Power
<1>7. \A w \in Vm : /\ Exists(w) => Exists(w)'
                    /\ row'[w] \in Shown => row[w] \in Shown
  BY <1>1, <1>6 DEF Exists, Shown, TypeOK
<1>8. \A u \in Task : task'[u].pc = "answered" => task'[u] = task[u]
  BY <1>1, <1>4 DEF TypeOK
<1>9. \A n \in Name : disks[n] # NoVm => disks[n] \in Vm
  BY <1>1 DEF TypeOK
<1> QED
  BY <1>2, <1>5, <1>7, <1>8, <1>9, RestKeeps

\* The worker.
LEMMA WorkerKeeps ==
  ASSUME CoreInv, NodeInv, NEW t \in Task, Worker(t) \/ AgentTimesOut(t)
  PROVE  NodeInv'
<1>1. TypeOK /\ RequestInv /\ CommandInv /\ NamesDiffer /\ OwnerInv /\ ReachedInv
  BY DEF CoreInv, NodeInv
<1>2. UNCHANGED <<domain, disks>> /\ raced \subseteq raced' /\ skipped \subseteq skipped'
  BY DEF Worker, HandleMissing, HandleCall, AgentAnswers, HandleReturn, AgentTimesOut, nodeVars
<1>3. PICK x \in Tasks :
           /\ task' = [task EXCEPT ![t] = x]
           /\ x.vm = task[t].vm /\ x.kind = task[t].kind
           /\ x.pc # "waiting" \/ x.failures > 0
           /\ x.pc = "answered" =>
                \E r \in requests : r.pc = "ok" /\ r.vm = x.vm /\ r.kind = x.kind
  BY <1>1, WorkerMoves
<1>4. task'[t] = x /\ \A u \in Task \ {t} : task'[u] = task[u]
  BY <1>1, <1>3 DEF TypeOK
<1>5. \A w \in Vm : DeleteBegun(w) => DeleteBegun(w)'
  BY <1>1, <1>3, DeleteRemains
<1>6. \A u \in Task : task'[u].pc = "answered" =>
        \/ task'[u] = task[u]
        \/ \E r \in requests : r.pc = "ok" /\ r.vm = task'[u].vm /\ r.kind = task'[u].kind
  BY <1>3, <1>4
<1>7. \A q \in requests' :
        \/ \E p \in requests : p.vm = q.vm /\ p.kind = q.kind /\ p.pc = q.pc
        \/ q.kind \in Kinds /\ q.pc = FirstStep(q.kind)
  <2>1. CASE HandleMissing(t) \/ HandleReturn(t)
    BY <2>1 DEF HandleMissing, HandleReturn
  <2>2. CASE HandleCall(t)
    <3>1. PICK y \in Requests :
            requests' = requests \union {y} /\ y.kind \in Kinds /\ y.pc = FirstStep(y.kind)
      BY <1>1, <2>2, CallChanges DEF Requests
    <3> QED
      BY <3>1
  <2>3. CASE AgentAnswers(t)
    BY <1>1, <2>3, AnswerKeeps
  <2>4. CASE AgentTimesOut(t)
    BY <1>1, <2>4, TimeoutKeeps
  <2> QED
    BY <2>1, <2>2, <2>3, <2>4 DEF Worker
<1> DEFINE v == task[t].vm
           Returns == /\ task[t].pc = "answered" /\ v \in Vm /\ Exists(v)
                      /\ row' = [row EXCEPT ![v] = StateAfter(task[t].kind)]
<1>8. UNCHANGED row \/ Returns
  BY <1>1 DEF Worker, HandleMissing, HandleCall, AgentAnswers, HandleReturn, AgentTimesOut,
              RequestInv
<1>9. ASSUME Returns, Calm(NameOf[v])
      PROVE  /\ task[t].kind = "delete" => disks[NameOf[v]] = NoVm
             /\ task[t].kind # "delete" => Present(NameOf[v])
  BY <1>1, <1>9 DEF ReachedInv, Achieved
<1>10. ASSUME NEW n \in Name, Calm(n), disks[n] # NoVm, Exists(disks[n])
       PROVE  Exists(disks[n])'
  <2>1. NameOf[disks[n]] = n /\ disks[n] \in Vm
    BY <1>1, <1>10 DEF OwnerInv, Owned, TypeOK
  <2>2. CASE UNCHANGED row
    BY <1>2, <1>10, <2>2 DEF Exists
  <2>3. CASE Returns /\ disks[n] # v
    BY <1>1, <1>2, <1>10, <2>1, <2>3 DEF Exists, TypeOK
  <2>4. CASE Returns /\ disks[n] = v
    <3>1. task[t].kind \in Kinds \ {"delete"}
      BY <1>1, <1>9, <1>10, <2>1, <2>4 DEF TypeOK
    <3>2. StateAfter(task[t].kind) \notin {"none", "gone"}
      BY <3>1 DEF StateAfter, Kinds
    <3> QED
      BY <1>1, <1>2, <2>4, <3>2 DEF Exists, TypeOK
  <2> QED
    BY <1>8, <2>2, <2>3, <2>4
<1>11. ASSUME NEW w \in Vm, row'[w] \in Shown, ~DeleteBegun(w)', Calm(NameOf[w])
       PROVE  (row[w] \in Shown /\ ~DeleteBegun(w)) \/ Present(NameOf[w])
  <2>1. CASE row'[w] = row[w]
    BY <1>5, <1>11, <2>1
  <2>2. CASE row'[w] # row[w]
    <3>1. Returns /\ w = v /\ row'[w] = StateAfter(task[t].kind)
      BY <1>1, <1>8, <1>11, <2>2 DEF TypeOK
    <3>2. StateAfter("delete") \notin Shown
      BY DEF StateAfter, Shown
    <3> QED
      BY <1>9, <1>11, <3>1, <3>2
  <2> QED
    BY <2>1, <2>2
<1> QED
  BY <1>2, <1>6, <1>7, <1>10, <1>11, RestKeeps

\* Reports change the rows that are shown, and only those.
LEMMA ReportKeeps ==
  ASSUME CoreInv, NodeInv, Heartbeat \/ \E n \in Name : ApplyReport(n)
  PROVE  NodeInv'
<1>1. TypeOK
  BY DEF CoreInv
<1>2. UNCHANGED <<task, requests, domain, disks, raced, skipped>>
  BY DEF Heartbeat, ApplyReport, nodeVars
<1>3. UNCHANGED row \/ \E n \in Name, st \in Shown :
        row' = [v \in Vm |-> IF NameOf[v] = n /\ Reportable(v) THEN st ELSE row[v]]
  BY DEF Heartbeat, ApplyReport
<1>4. \A v \in Vm : /\ Exists(v) => Exists(v)'
                    /\ row'[v] \in Shown => row[v] \in Shown
  BY <1>3 DEF Exists, Shown, Reportable
<1>5. \A v \in Vm : DeleteBegun(v)' <=> DeleteBegun(v)
  BY <1>2 DEF DeleteBegun
<1>6. \A n \in Name : disks[n] # NoVm => disks[n] \in Vm
  BY <1>1 DEF TypeOK
<1> QED
  BY <1>2, <1>4, <1>5, <1>6, RestKeeps

\* A stuttering step.
LEMMA StutterKeeps == NodeInv /\ CoreInv /\ UNCHANGED vars => NodeInv'
<1> SUFFICES ASSUME NodeInv, CoreInv, UNCHANGED vars
             PROVE  NodeInv'
  OBVIOUS
<1>1. UNCHANGED <<row, task, requests, domain, disks, raced, skipped>>
  BY DEF vars, nodeVars
<1>2. \A v : (DeleteBegun(v)' <=> DeleteBegun(v)) /\ (Exists(v)' <=> Exists(v))
  BY <1>1 DEF DeleteBegun, Exists
<1> QED
  BY <1>1, <1>2, RestKeeps

\* Every step keeps the invariant.
LEMMA VmStep == VmInv /\ [Next]_vars => VmInv'
<1> SUFFICES ASSUME VmInv, [Next]_vars
             PROVE  VmInv'
  OBVIOUS
<1>1. CoreInv /\ NodeInv
  BY DEF VmInv, CoreInv, NodeInv
<1>2. CoreInv'
  BY <1>1, CoreStep
<1>3. NodeInv'
  BY <1>1, ApiKeeps, WorkerKeeps, ExecuteKeeps, PassOverKeeps, GuestKeeps, ReportKeeps, StutterKeeps DEF Next
<1> QED
  BY <1>2, <1>3 DEF VmInv, CoreInv, NodeInv

\* The invariant holds throughout.
LEMMA VmInvariant == Spec => []VmInv
  BY InitVm, VmStep, PTL DEF Spec

-----------------------------------------------------------------------------
(* Results.                                                                *)

\* Rows, tasks, requests, domains and disks keep their types.
THEOREM VmTypeCorrect == Spec => []TypeOK
<1>1. VmInv => TypeOK
  BY DEF VmInv
<1> QED
  BY <1>1, VmInvariant, PTL

\* The properties, for the names whose guests the hypervisor does not pause.
CalmVmIsGone ==
  \A v \in Vm : row[v] = "gone" /\ Calm(NameOf[v]) =>
    domain[NameOf[v]].spec # v /\ disks[NameOf[v]] # v

CalmVmIsItself ==
  \A v \in Vm : row[v] \in Shown /\ ~DeleteBegun(v) /\ Calm(NameOf[v]) =>
    domain[NameOf[v]].spec = v /\ disks[NameOf[v]] = v

\* The invariant says as much.
LEMMA CalmVms == VmInv => CalmVmIsGone /\ CalmVmIsItself
<1> SUFFICES ASSUME VmInv
             PROVE  CalmVmIsGone /\ CalmVmIsItself
  OBVIOUS
<1>1. TypeOK /\ NamesDiffer /\ OwnerInv /\ ShownInv
  BY DEF VmInv
<1>2. NoDomain.spec \notin Vm
  BY VmAssumption DEF NoDomain
<1>3. ASSUME NEW v \in Vm, row[v] = "gone", Calm(NameOf[v])
      PROVE  domain[NameOf[v]].spec # v /\ disks[NameOf[v]] # v
  <2>1. ~Exists(v)
    BY <1>3 DEF Exists
  <2>2. disks[NameOf[v]] # v
    BY <1>1, <1>3, <2>1, VmAssumption DEF OwnerInv, Owned, Calm
  <2> QED
    BY <1>1, <1>2, <1>3, <2>2 DEF OwnerInv, Owned, Calm, Present
<1>4. ASSUME NEW v \in Vm, row[v] \in Shown, ~DeleteBegun(v), Calm(NameOf[v])
      PROVE  domain[NameOf[v]].spec = v /\ disks[NameOf[v]] = v
  <2> DEFINE n == NameOf[v]
  <2>1. n \in Name /\ Present(n) /\ Owned(n)
    BY <1>1, <1>4 DEF ShownInv, OwnerInv, Calm
  <2>2. domain[n] \in Domain
    BY <1>1, <2>1 DEF TypeOK, Present
  <2>3. domain[n].spec \in Vm /\ disks[n] = domain[n].spec
    BY <2>1, <2>2 DEF Owned, Domain
  <2>4. NameOf[disks[n]] = n /\ Exists(disks[n])
    BY <2>1, <2>3, VmAssumption DEF Owned
  <2>5. disks[n] = v
    BY <1>1, <1>4, <2>3, <2>4 DEF NamesDiffer, Exists, Shown
  <2> QED
    BY <2>3, <2>5
<1> QED
  BY <1>3, <1>4 DEF CalmVmIsGone, CalmVmIsItself

\* A deleted VM whose guest the hypervisor never paused leaves nothing on its
\* node, unless a deletion of the name was raced or passed over an error.
THEOREM CalmDeletedVmIsGone == Spec => []CalmVmIsGone
  BY CalmVms, VmInvariant, PTL

\* Without pauses that is every deleted VM.
THEOREM DeletedVmsAreGone ==
  ASSUME MaySuspend = {}
  PROVE  Spec => []DeletedVmIsGone
<1>1. CalmVmIsGone => DeletedVmIsGone
  BY VmAssumption DEF CalmVmIsGone, DeletedVmIsGone, Calm
<1> QED
  BY <1>1, CalmVms, VmInvariant, PTL

\* A VM that is shown has a domain of its own specification on its own disks.
THEOREM CalmShownVmIsItself == Spec => []CalmVmIsItself
  BY CalmVms, VmInvariant, PTL

\* Without pauses that is every VM that is shown and not being deleted.
THEOREM ShownVmsAreThemselves ==
  ASSUME MaySuspend = {}
  PROVE  Spec => []ShownVmIsItself
<1>1. CalmVmIsItself => ShownVmIsItself
  BY VmAssumption DEF CalmVmIsItself, ShownVmIsItself, Calm
<1> QED
  BY <1>1, CalmVms, VmInvariant, PTL

\* No late report and no namesake's task takes a VM out of provisioning or deleting.
THEOREM TasksDecide == Spec => OnlyTasksDecide
<1> DEFINE Decided(v) == \/ row'[v] = "deleting"
                         \/ \E t \in Task : /\ task[t].vm = v
                                            /\ task[t].pc = "answered"
                                            /\ task'[t].pc = "done"
           Step == \A v \in Vm :
                     row[v] \in {"provisioning", "deleting"} /\ row'[v] # row[v] => Decided(v)
<1>1. TypeOK /\ [Next]_vars => Step
  <2> SUFFICES ASSUME TypeOK, [Next]_vars, NEW v \in Vm,
                      row[v] \in {"provisioning", "deleting"}, row'[v] # row[v]
               PROVE  Decided(v)
    OBVIOUS
  <2>1. row \in [Vm -> RowState] /\ task \in [Task -> Tasks]
    BY DEF TypeOK, Tasks
  <2>2. ASSUME NEW w \in Vm, Create(w) \/ Remove(w) \/ \E k \in PowerKinds : Power(w, k)
        PROVE  Decided(v)
    BY <2>1, <2>2 DEF Create, Remove, Power
  <2>3. ASSUME NEW t \in Task, Worker(t) \/ AgentTimesOut(t)
        PROVE  Decided(v)
    <3>1. HandleReturn(t) /\ Exists(task[t].vm)
      BY <2>3 DEF Worker, HandleMissing, HandleCall, AgentAnswers, HandleReturn, AgentTimesOut
    <3>2. task[t].vm = v /\ task[t].pc = "answered" /\ task'[t].pc = "done"
      BY <2>1, <3>1 DEF HandleReturn, Tasks
    <3> QED
      BY <3>2
  <2>4. ASSUME NEW r \in requests, Execute(r) \/ Failure(r) \/ PassOver(r)
        PROVE  Decided(v)
    BY <2>4 DEF Execute, Failure, PassOver
  <2>5. ASSUME NEW n \in Name, GuestPowersOff(n) \/ GuestSuspended(n) \/ ApplyReport(n)
        PROVE  Decided(v)
    BY <2>5 DEF GuestPowersOff, GuestSuspended, ApplyReport, Reportable, Shown
  <2>6. CASE Heartbeat \/ UNCHANGED vars
    BY <2>6 DEF Heartbeat, vars
  <2> QED
    BY <2>2, <2>3, <2>4, <2>5, <2>6 DEF Next
<1> QED
  BY <1>1, VmTypeCorrect, PTL DEF Spec, OnlyTasksDecide

-----------------------------------------------------------------------------
(* VmLifecycle implements VmPromise.                                        *)

\* Tasks are enqueued for rows that have been created.
FreshInv == \A t \in Task : task[t].pc # "unused" => row[task[t].vm] # "none"

\* What VmPromise sees of a VM.
AskedFor(v) == ~Excused(v) /\ RemovalAsked(v)
BuiltFor(v) == IF Excused(v) THEN {} ELSE PartsOf(v)

Lives == [v \in Vm |-> LifeOf(v)]
AskedVms == {v \in Vm : ~Excused(v) /\ RemovalAsked(v)}
BuiltParts == [v \in Vm |-> IF Excused(v) THEN {} ELSE PartsOf(v)]

SameAsked == \A w \in Vm : AskedFor(w)' <=> AskedFor(w)
SameBuilt(W) == \A w \in W : BuiltFor(w)' = BuiltFor(w)
SameLife(W) == \A w \in W : LifeOf(w)' = LifeOf(w)

\* Only VMs that exist are doomed, asked for or complete.
LivesOn == {"ordered", "shown", "removing", "doomed"}

\* Nothing that is seen changes.
LEMMA PromiseStutters ==
  ASSUME SameLife(Vm), SameAsked, SameBuilt(Vm)
  PROVE  Promise!Next
<1>1. Lives' = Lives
  BY DEF SameLife, Lives
<1>2. AskedVms' = AskedVms
  BY DEF SameAsked, AskedVms, AskedFor
<1>3. BuiltParts' = BuiltParts
  BY DEF SameBuilt, BuiltParts, BuiltFor
<1> QED
  BY <1>1, <1>2, <1>3 DEF Promise!Next, Promise!vars, Lives, AskedVms, BuiltParts

\* The life of one VM goes on.
LEMMA PromiseLives ==
  ASSUME NEW v \in Vm, SameLife(Vm \ {v}), SameAsked, SameBuilt(Vm),
         \/ /\ LifeOf(v) = "none" /\ LifeOf(v)' = "ordered"
            /\ \A w \in Vm \ {v} : NameOf[w] = NameOf[v] => LifeOf(w) \notin LivesOn
         \/ /\ LifeOf(v) \in {"ordered", "removing"} /\ LifeOf(v)' = "shown"
            /\ BuiltFor(v) = {"domain", "disks"}
         \/ /\ LifeOf(v) \in {"ordered", "shown", "removing"} /\ LifeOf(v)' = "doomed"
            /\ AskedFor(v)
         \/ LifeOf(v) = "doomed" /\ LifeOf(v)' = "gone" /\ BuiltFor(v) = {}
  PROVE  Promise!Next
<1>1. Lives' = [Lives EXCEPT ![v] = LifeOf(v)']
  BY DEF SameLife, Lives
<1>2. UNCHANGED <<AskedVms, BuiltParts>>
  BY DEF SameAsked, AskedVms, AskedFor, SameBuilt, BuiltParts, BuiltFor
<1>3. \A w \in Vm : Lives[w] = LifeOf(w) /\ BuiltParts[w] = BuiltFor(w)
  BY DEF Lives, BuiltParts, BuiltFor
<1>4. AskedFor(v) => v \in AskedVms
  BY DEF AskedFor, AskedVms
<1>5. Promise!Order(v) \/ Promise!Show(v) \/ Promise!BeginRemoval(v) \/ Promise!Finish(v)
  <2>1. CASE /\ LifeOf(v) = "none" /\ LifeOf(v)' = "ordered"
             /\ \A w \in Vm \ {v} : NameOf[w] = NameOf[v] => LifeOf(w) \notin LivesOn
    BY <1>1, <1>2, <1>3, <2>1 DEF Promise!Order, Promise!Namesakes, Promise!Existing, LivesOn,
       Lives, AskedVms, BuiltParts
  <2>2. CASE /\ LifeOf(v) \in {"ordered", "removing"} /\ LifeOf(v)' = "shown"
             /\ BuiltFor(v) = {"domain", "disks"}
    BY <1>1, <1>2, <1>3, <2>2 DEF Promise!Show, Promise!Parts, Lives, AskedVms, BuiltParts
  <2>3. CASE /\ LifeOf(v) \in {"ordered", "shown", "removing"} /\ LifeOf(v)' = "doomed"
             /\ AskedFor(v)
    BY <1>1, <1>2, <1>3, <1>4, <2>3 DEF Promise!BeginRemoval, Lives, AskedVms, BuiltParts
  <2>4. CASE LifeOf(v) = "doomed" /\ LifeOf(v)' = "gone" /\ BuiltFor(v) = {}
    BY <1>1, <1>2, <1>3, <2>4 DEF Promise!Finish, Lives, AskedVms, BuiltParts
  <2> QED
    BY <2>1, <2>2, <2>3, <2>4
<1> QED
  BY <1>5 DEF Promise!Next

\* A removal is asked for.
LEMMA PromiseAsks ==
  ASSUME NEW v \in Vm, SameLife(Vm \ {v}), SameBuilt(Vm), LifeOf(v) \in LivesOn,
         LifeOf(v)' = (IF LifeOf(v) = "doomed" THEN "doomed" ELSE "removing"),
         \A w \in Vm : AskedFor(w)' <=> AskedFor(w) \/ w = v
  PROVE  Promise!Next
<1>1. Lives' = [Lives EXCEPT ![v] = IF Lives[v] = "doomed" THEN "doomed" ELSE "removing"]
  BY DEF SameLife, Lives
<1>2. UNCHANGED BuiltParts
  BY DEF SameBuilt, BuiltParts, BuiltFor
<1>3. AskedVms' = AskedVms \union {v}
  BY DEF AskedFor, AskedVms
<1>4. Lives[v] \in LivesOn
  BY DEF Lives
<1>5. Promise!AskRemoval(v)
  BY <1>1, <1>2, <1>3, <1>4 DEF Promise!AskRemoval, Promise!Existing, LivesOn, Lives, AskedVms,
     BuiltParts
<1> QED
  BY <1>5 DEF Promise!Next

\* A part of a VM comes or goes.
LEMMA PromiseBuilds ==
  ASSUME NEW v \in Vm, SameLife(Vm), SameAsked, SameBuilt(Vm \ {v}),
         NEW part \in {"domain", "disks"},
         \/ /\ LifeOf(v) \in LivesOn
            /\ part \notin BuiltFor(v) /\ BuiltFor(v)' = BuiltFor(v) \union {part}
            /\ \A w \in Vm \ {v} : NameOf[w] = NameOf[v] => BuiltFor(w) = {}
         \/ /\ LifeOf(v) = "doomed"
            /\ part \in BuiltFor(v) /\ BuiltFor(v)' = BuiltFor(v) \ {part}
  PROVE  Promise!Next
<1>1. UNCHANGED <<Lives, AskedVms>>
  BY DEF SameAsked, AskedVms, AskedFor, SameLife, Lives
<1>2. BuiltParts' = [BuiltParts EXCEPT ![v] = BuiltFor(v)']
  BY DEF SameBuilt, BuiltParts, BuiltFor
<1>3. \A w \in Vm : Lives[w] = LifeOf(w) /\ BuiltParts[w] = BuiltFor(w)
  BY DEF Lives, BuiltParts, BuiltFor
<1>4. Promise!Build(v) \/ Promise!TakeAway(v)
  <2>1. CASE LifeOf(v) \in LivesOn /\ part \notin BuiltFor(v)
             /\ BuiltFor(v)' = BuiltFor(v) \union {part}
             /\ \A w \in Vm \ {v} : NameOf[w] = NameOf[v] => BuiltFor(w) = {}
    <3>1. BuiltParts' = [BuiltParts EXCEPT ![v] = BuiltParts[v] \union {part}]
      BY <1>2, <1>3, <2>1
    <3> QED
      BY <1>1, <1>3, <2>1, <3>1 DEF Promise!Build, Promise!Parts, Promise!Existing,
         Promise!Namesakes, LivesOn, Lives, AskedVms, BuiltParts
  <2>2. CASE LifeOf(v) = "doomed" /\ part \in BuiltFor(v)
             /\ BuiltFor(v)' = BuiltFor(v) \ {part}
    <3>1. BuiltParts' = [BuiltParts EXCEPT ![v] = BuiltParts[v] \ {part}]
      BY <1>2, <1>3, <2>2
    <3> QED
      BY <1>1, <1>3, <2>2, <3>1 DEF Promise!TakeAway, Lives, AskedVms, BuiltParts
  <2> QED
    BY <2>1, <2>2
<1> QED
  BY <1>4 DEF Promise!Next

\* The VMs of a name are excused.
LEMMA PromiseExcuses ==
  ASSUME NEW n \in Name, \A w \in Vm : NameOf[w] = n => Excused(w)',
         \A w \in Vm : NameOf[w] # n =>
           /\ LifeOf(w)' = LifeOf(w) /\ BuiltFor(w)' = BuiltFor(w)
           /\ AskedFor(w)' <=> AskedFor(w)
  PROVE  Promise!Next
<1> DEFINE V == {v \in Vm : NameOf[v] = n}
<1>1. Lives' = [v \in Vm |-> IF v \in V THEN "excused" ELSE Lives[v]]
  <2>1. \A w \in Vm : Excused(w)' => LifeOf(w)' = "excused"
    BY DEF LifeOf
  <2> QED
    BY <2>1 DEF Lives
<1>2. AskedVms' = AskedVms \ V
  BY DEF AskedVms, AskedFor
<1>3. BuiltParts' = [v \in Vm |-> IF v \in V THEN {} ELSE BuiltParts[v]]
  BY DEF BuiltParts, BuiltFor
<1>4. Promise!Excuse(n)
  BY <1>1, <1>2, <1>3 DEF Promise!Excuse, Lives, AskedVms, BuiltParts
<1> QED
  BY <1>4 DEF Promise!Next

-----------------------------------------------------------------------------
(* Each step of VmLifecycle, as VmPromise sees it.                          *)

\* A VM that is not excused has a calm name.
LEMMA ExcusedIs == \A v \in Vm : Excused(v) <=> ~Calm(NameOf[v])
  BY VmAssumption DEF Excused, Calm

\* The lives of the VMs that are not excused.
LEMMA LifeIs ==
  ASSUME TypeOK, NEW v \in Vm, ~Excused(v)
  PROVE  /\ row[v] \in {"none", "gone"} => LifeOf(v) = row[v]
         /\ LifeOf(v) \in LivesOn <=> Exists(v)
         /\ Exists(v) => /\ LifeOf(v) = "doomed" <=> DeleteBegun(v)
                         /\ ~DeleteBegun(v) =>
                              /\ row[v] = "provisioning" => LifeOf(v) = "ordered"
                              /\ row[v] = "deleting" => LifeOf(v) = "removing"
                              /\ row[v] \in Shown => LifeOf(v) = "shown"
<1>1. row[v] \in RowState
  BY DEF TypeOK
<1>2. CASE row[v] \in {"none", "gone"}
  BY <1>2 DEF LifeOf, LivesOn, Exists
<1>3. CASE row[v] \in {"provisioning", "deleting"} \union Shown
  <2>1. Exists(v)
    BY <1>3 DEF Exists, Shown
  <2>2. CASE DeleteBegun(v)
    BY <1>3, <2>1, <2>2 DEF LifeOf, LivesOn, Exists, Shown
  <2>3. CASE ~DeleteBegun(v)
    BY <1>3, <2>1, <2>3 DEF LifeOf, LivesOn, Exists, Shown
  <2> QED
    BY <1>3, <2>1, <2>2, <2>3 DEF Shown
<1> QED
  BY <1>1, <1>2, <1>3 DEF RowState

\* What a life depends on.
LEMMA LifeStays ==
  ASSUME TypeOK, NEW v \in Vm, row'[v] = row[v] \/ (row[v] \in Shown /\ row'[v] \in Shown),
         Excused(v)' <=> Excused(v), DeleteBegun(v)' <=> DeleteBegun(v)
  PROVE  LifeOf(v)' = LifeOf(v)
<1>1. CASE Excused(v)
  BY <1>1 DEF LifeOf
<1>2. CASE ~Excused(v) /\ row'[v] = row[v] /\ DeleteBegun(v)
  BY <1>2 DEF LifeOf
<1>3. CASE ~Excused(v) /\ row'[v] = row[v] /\ ~DeleteBegun(v)
  <2>1. row[v] \in {"none", "gone", "provisioning", "deleting"} \union Shown
    BY DEF TypeOK, RowState
  <2> QED
    BY <1>3, <2>1 DEF LifeOf, Shown
<1>4. CASE ~Excused(v) /\ row[v] \in Shown /\ row'[v] \in Shown /\ DeleteBegun(v)
  BY <1>4 DEF LifeOf, Shown
<1>5. CASE ~Excused(v) /\ row[v] \in Shown /\ row'[v] \in Shown /\ ~DeleteBegun(v)
  BY <1>5 DEF LifeOf, Shown
<1> QED
  BY <1>1, <1>2, <1>3, <1>4, <1>5

\* Steps that leave the node alone and race nothing.
LEMMA NodeStays ==
  ASSUME UNCHANGED <<domain, disks, raced, skipped>>
  PROVE  /\ SameBuilt(Vm)
         /\ \A w \in Vm : Excused(w)' <=> Excused(w)
         /\ \A w \in Vm : PartsOf(w)' = PartsOf(w)
<1>1. \A w \in Vm : Excused(w)' <=> Excused(w)
  BY DEF Excused, Orderly
<1>2. \A w \in Vm : PartsOf(w)' = PartsOf(w)
  BY DEF PartsOf
<1> QED
  BY <1>1, <1>2 DEF SameBuilt, BuiltFor

\* A task that is enqueued.
LEMMA EnqueueSeen ==
  ASSUME CoreInv, FreshInv, NEW kind \in Kinds, NEW v \in Vm, Enqueue(kind, v)
  PROVE  /\ \A w \in Vm : DeleteBegun(w)' <=> DeleteBegun(w)
         /\ \A w \in Vm : RemovalAsked(w)' <=> RemovalAsked(w) \/ (kind = "delete" /\ w = v)
         /\ row[v] = "none" => ~DeleteBegun(v) /\ ~RemovalAsked(v)
         /\ row'[v] # "none" /\ (\A w \in Vm : row[w] # "none" => row'[w] # "none") => FreshInv'
<1>1. TypeOK /\ RequestInv
  BY DEF CoreInv
<1>2. PICK t \in Task, x \in Tasks :
           /\ task[t].pc = "unused" /\ task' = [task EXCEPT ![t] = x]
           /\ x.pc = "waiting" /\ x.vm = v /\ x.kind = kind /\ x.failures = 0
  BY <1>1, EnqueueChanges
<1>3. task'[t] = x /\ \A u \in Task \ {t} : task'[u] = task[u]
  BY <1>1, <1>2 DEF TypeOK
<1>4. task[t].vm \notin Vm
  BY <1>1, <1>2, VmAssumption DEF RequestInv
<1>5. \A w \in Vm : DeleteBegun(w)' <=> DeleteBegun(w)
  BY <1>2, <1>3, <1>4 DEF DeleteBegun
<1>6. \A w \in Vm : RemovalAsked(w)' <=> RemovalAsked(w) \/ (kind = "delete" /\ w = v)
  BY <1>2, <1>3, <1>4 DEF RemovalAsked
<1>7. row[v] = "none" => ~DeleteBegun(v) /\ ~RemovalAsked(v)
  <2>1. \A u \in Task : task[u].vm = v => task[u].pc # "unused"
    BY <1>1, VmAssumption DEF RequestInv
  <2> QED
    BY <2>1 DEF FreshInv, DeleteBegun, RemovalAsked
<1>8. \A u \in Task : task[u].pc # "unused" => task[u].vm \in Vm
  BY <1>1 DEF RequestInv
<1>9. row'[v] # "none" /\ (\A w \in Vm : row[w] # "none" => row'[w] # "none") => FreshInv'
  BY <1>2, <1>3, <1>8 DEF FreshInv
<1> QED
  BY <1>5, <1>6, <1>7, <1>9

\* A task that moves on: only a call begins a delete.
LEMMA MoveSeen ==
  ASSUME CoreInv, FreshInv, NEW t \in Task, NEW x \in Tasks, task' = [task EXCEPT ![t] = x],
         x.vm = task[t].vm, x.kind = task[t].kind, task[t].pc # "unused",
         x.pc # "waiting" \/ x.failures > 0,
         \A w \in Vm : row[w] # "none" => row'[w] # "none"
  PROVE  /\ \A w \in Vm : RemovalAsked(w)' <=> RemovalAsked(w)
         /\ \A w \in Vm : DeleteBegun(w)' <=>
              DeleteBegun(w) \/ (task[t].kind = "delete" /\ w = task[t].vm)
         /\ task[t].pc # "waiting" => \A w \in Vm : DeleteBegun(w)' <=> DeleteBegun(w)
         /\ FreshInv'
<1>1. TypeOK /\ RequestInv
  BY DEF CoreInv
<1>2. task'[t] = x /\ \A u \in Task \ {t} : task'[u] = task[u]
  BY <1>1 DEF TypeOK
<1>3. \A w \in Vm : RemovalAsked(w)' <=> RemovalAsked(w)
  BY <1>2 DEF RemovalAsked
<1>4. \A w \in Vm : DeleteBegun(w)' <=>
        DeleteBegun(w) \/ (task[t].kind = "delete" /\ w = task[t].vm)
  BY <1>2 DEF DeleteBegun
<1>5. task[t].pc # "waiting" /\ task[t].kind = "delete" => DeleteBegun(task[t].vm)
  BY DEF DeleteBegun
<1>6. \A u \in Task : task[u].pc # "unused" => task[u].vm \in Vm
  BY <1>1 DEF RequestInv
<1>7. FreshInv'
  BY <1>2, <1>6 DEF FreshInv
<1> QED
  BY <1>3, <1>4, <1>5, <1>7

\* The API.
LEMMA CreateSeen ==
  ASSUME CoreInv, FreshInv, NEW v \in Vm, Create(v)
  PROVE  Promise!Next /\ FreshInv'
<1>1. TypeOK /\ "provision" \in Kinds
  BY DEF CoreInv, Kinds
<1>2. /\ row' = [row EXCEPT ![v] = "provisioning"] /\ row[v] = "none"
      /\ UNCHANGED <<domain, disks, raced, skipped>> /\ NameFree(v) /\ Enqueue("provision", v)
  BY DEF Create, nodeVars
<1>3. row'[v] = "provisioning" /\ \A w \in Vm \ {v} : row'[w] = row[w]
  BY <1>1, <1>2 DEF TypeOK
<1>4. /\ \A w \in Vm : DeleteBegun(w)' <=> DeleteBegun(w)
      /\ \A w \in Vm : RemovalAsked(w)' <=> RemovalAsked(w)
      /\ ~DeleteBegun(v) /\ ~RemovalAsked(v) /\ FreshInv'
  BY <1>1, <1>2, <1>3, EnqueueSeen
<1>5. SameBuilt(Vm) /\ \A w \in Vm : Excused(w)' <=> Excused(w)
  BY <1>2, NodeStays
<1>6. SameAsked
  BY <1>4, <1>5 DEF SameAsked, AskedFor
<1>7. SameLife(Vm \ {v})
  BY <1>1, <1>3, <1>4, <1>5, LifeStays DEF SameLife
<1>8. CASE Excused(v)
  <2>1. LifeOf(v)' = LifeOf(v)
    BY <1>5, <1>8 DEF LifeOf
  <2> QED
    BY <1>4, <1>5, <1>6, <1>7, <2>1, PromiseStutters DEF SameLife
<1>9. CASE ~Excused(v)
  <2>1. LifeOf(v) = "none"
    BY <1>1, <1>2, <1>9, LifeIs
  <2>2. LifeOf(v)' = "ordered"
    BY <1>3, <1>4, <1>5, <1>9 DEF LifeOf, Shown
  <2>3. \A w \in Vm : LifeOf(w) \in LivesOn => Exists(w)
    BY <1>1, LifeIs DEF LifeOf, LivesOn
  <2>4. \A w \in Vm \ {v} : NameOf[w] = NameOf[v] => LifeOf(w) \notin LivesOn
    BY <1>2, <2>3 DEF NameFree
  <2> QED
    BY <1>4, <1>5, <1>6, <1>7, <2>1, <2>2, <2>4, PromiseLives
<1> QED
  BY <1>8, <1>9

LEMMA RemoveSeen ==
  ASSUME CoreInv, FreshInv, NEW v \in Vm, Remove(v)
  PROVE  Promise!Next /\ FreshInv'
<1>1. TypeOK /\ "delete" \in Kinds
  BY DEF CoreInv, Kinds
<1>2. /\ row' = [row EXCEPT ![v] = "deleting"] /\ Exists(v)
      /\ UNCHANGED <<domain, disks, raced, skipped>> /\ Enqueue("delete", v)
  BY DEF Remove, nodeVars
<1>3. row'[v] = "deleting" /\ \A w \in Vm \ {v} : row'[w] = row[w]
  BY <1>1, <1>2 DEF TypeOK
<1>4. /\ \A w \in Vm : DeleteBegun(w)' <=> DeleteBegun(w)
      /\ \A w \in Vm : RemovalAsked(w)' <=> RemovalAsked(w) \/ w = v
      /\ FreshInv'
  BY <1>1, <1>2, <1>3, EnqueueSeen
<1>5. SameBuilt(Vm) /\ \A w \in Vm : Excused(w)' <=> Excused(w)
  BY <1>2, NodeStays
<1>6. SameLife(Vm \ {v})
  BY <1>1, <1>3, <1>4, <1>5, LifeStays DEF SameLife
<1>7. CASE Excused(v)
  <2>1. LifeOf(v)' = LifeOf(v)
    BY <1>5, <1>7 DEF LifeOf
  <2>2. SameAsked
    BY <1>4, <1>5, <1>7 DEF SameAsked, AskedFor
  <2> QED
    BY <1>4, <1>5, <1>6, <2>1, <2>2, PromiseStutters DEF SameLife
<1>8. CASE ~Excused(v)
  <2>1. LifeOf(v) \in LivesOn /\ (LifeOf(v) = "doomed" <=> DeleteBegun(v))
    BY <1>1, <1>2, <1>8, LifeIs
  <2>2. LifeOf(v)' = IF DeleteBegun(v) THEN "doomed" ELSE "removing"
    <3>1. CASE DeleteBegun(v)
      BY <1>3, <1>4, <1>5, <1>8, <3>1 DEF LifeOf
    <3>2. CASE ~DeleteBegun(v)
      BY <1>3, <1>4, <1>5, <1>8, <3>2 DEF LifeOf, Shown
    <3> QED
      BY <3>1, <3>2
  <2>3. \A w \in Vm : AskedFor(w)' <=> AskedFor(w) \/ w = v
    BY <1>4, <1>5, <1>8 DEF AskedFor
  <2> QED
    BY <1>4, <1>5, <1>6, <2>1, <2>2, <2>3, PromiseAsks
<1> QED
  BY <1>7, <1>8

LEMMA PowerSeen ==
  ASSUME CoreInv, FreshInv, NEW v \in Vm, NEW k \in PowerKinds, Power(v, k)
  PROVE  Promise!Next /\ FreshInv'
<1>1. TypeOK /\ k \in Kinds \ {"delete"}
  BY VmAssumption DEF CoreInv, Kinds
<1>2. UNCHANGED <<row, domain, disks, raced, skipped>> /\ Exists(v) /\ Enqueue(k, v)
  BY DEF Power, nodeVars
<1>3. row'[v] # "none" /\ \A w \in Vm : row'[w] = row[w]
  BY <1>2 DEF Exists
<1>4. /\ \A w \in Vm : DeleteBegun(w)' <=> DeleteBegun(w)
      /\ \A w \in Vm : RemovalAsked(w)' <=> RemovalAsked(w)
      /\ FreshInv'
  BY <1>1, <1>2, <1>3, EnqueueSeen
<1>5. SameBuilt(Vm) /\ \A w \in Vm : Excused(w)' <=> Excused(w)
  BY <1>2, NodeStays
<1>6. SameLife(Vm)
  BY <1>1, <1>3, <1>4, <1>5, LifeStays DEF SameLife
<1>7. SameAsked
  BY <1>4, <1>5 DEF SameAsked, AskedFor
<1> QED
  BY <1>4, <1>5, <1>6, <1>7, PromiseStutters

\* Tasks that move on without a word to the row.
LEMMA QuietSeen ==
  ASSUME CoreInv, FreshInv, NEW t \in Task, AgentAnswers(t) \/ AgentTimesOut(t)
  PROVE  Promise!Next /\ FreshInv'
<1>1. TypeOK /\ RequestInv /\ CommandInv
  BY DEF CoreInv
<1>2. PICK x \in Tasks :
           /\ task' = [task EXCEPT ![t] = x]
           /\ x.vm = task[t].vm /\ x.kind = task[t].kind
           /\ x.pc # "waiting" \/ x.failures > 0
  BY <1>1, WorkerMoves DEF Worker
<1>3. /\ UNCHANGED <<row, domain, disks, raced, skipped>>
      /\ task[t].pc = "calling"
  BY DEF AgentAnswers, AgentTimesOut, Awaits, nodeVars
<1>4. \A w \in Vm : row[w] # "none" => row'[w] # "none"
  BY <1>3
<1>5. /\ \A w \in Vm : RemovalAsked(w)' <=> RemovalAsked(w)
      /\ \A w \in Vm : DeleteBegun(w)' <=> DeleteBegun(w)
      /\ FreshInv'
  BY <1>2, <1>3, <1>4, MoveSeen
<1>6. SameBuilt(Vm) /\ \A w \in Vm : Excused(w)' <=> Excused(w)
  BY <1>3, NodeStays
<1>7. SameLife(Vm)
  BY <1>1, <1>3, <1>5, <1>6, LifeStays DEF SameLife
<1>8. SameAsked
  BY <1>5, <1>6 DEF SameAsked, AskedFor
<1> QED
  BY <1>5, <1>6, <1>7, <1>8, PromiseStutters

\* A task whose row is gone.
LEMMA MissingSeen ==
  ASSUME CoreInv, FreshInv, NEW t \in Task, HandleMissing(t)
  PROVE  Promise!Next /\ FreshInv'
<1>1. TypeOK /\ RequestInv /\ CommandInv
  BY DEF CoreInv
<1>2. PICK x \in Tasks :
           /\ task' = [task EXCEPT ![t] = x]
           /\ x.vm = task[t].vm /\ x.kind = task[t].kind
           /\ x.pc # "waiting" \/ x.failures > 0
  BY <1>1, WorkerMoves DEF Worker
<1>3. /\ UNCHANGED <<row, domain, disks, raced, skipped>>
      /\ task[t].pc = "waiting" /\ ~Exists(task[t].vm)
  BY DEF HandleMissing, nodeVars
<1>4. \A w \in Vm : row[w] # "none" => row'[w] # "none"
  BY <1>3
<1>5. /\ \A w \in Vm : RemovalAsked(w)' <=> RemovalAsked(w)
      /\ \A w \in Vm : DeleteBegun(w)' <=>
           DeleteBegun(w) \/ (task[t].kind = "delete" /\ w = task[t].vm)
      /\ FreshInv'
  BY <1>2, <1>3, <1>4, MoveSeen
<1>6. SameBuilt(Vm) /\ \A w \in Vm : Excused(w)' <=> Excused(w)
  BY <1>3, NodeStays
<1>7. SameLife(Vm)
  <2> SUFFICES ASSUME NEW w \in Vm
               PROVE  LifeOf(w)' = LifeOf(w)
    BY DEF SameLife
  <2>1. CASE w = task[t].vm
    <3>1. row[w] \in {"none", "gone"} /\ row'[w] = row[w]
      BY <1>3, <2>1 DEF Exists
    <3> QED
      BY <1>6, <3>1 DEF LifeOf
  <2>2. CASE w # task[t].vm
    BY <1>1, <1>3, <1>5, <1>6, <2>2, LifeStays
  <2> QED
    BY <2>1, <2>2
<1>8. SameAsked
  BY <1>5, <1>6 DEF SameAsked, AskedFor
<1> QED
  BY <1>5, <1>6, <1>7, <1>8, PromiseStutters

\* A call may begin a removal, or excuse the name.
LEMMA CallSeen ==
  ASSUME CoreInv, FreshInv, NEW t \in Task, HandleCall(t)
  PROVE  Promise!Next /\ FreshInv'
<1>1. TypeOK /\ RequestInv /\ CommandInv
  BY DEF CoreInv
<1>6. PICK v \in Vm : v = task[t].vm /\ NameOf[v] \in Name
  BY <1>1, VmAssumption DEF RequestInv, HandleCall
<1>2. PICK x \in Tasks :
           /\ task' = [task EXCEPT ![t] = x]
           /\ x.vm = task[t].vm /\ x.kind = task[t].kind
           /\ x.pc # "waiting" \/ x.failures > 0
  BY <1>1, WorkerMoves DEF Worker
<1>3. /\ UNCHANGED <<row, domain, disks, skipped>> /\ raced' \in {raced, raced \union {v}}
      /\ task[t].pc = "waiting" /\ Exists(v)
  BY <1>6 DEF HandleCall, nodeVars
<1>4. \A w \in Vm : row'[w] = row[w] /\ (row[w] # "none" => row'[w] # "none")
  BY <1>3
<1>5. /\ \A w \in Vm : RemovalAsked(w)' <=> RemovalAsked(w)
      /\ \A w \in Vm : DeleteBegun(w)' <=>
           DeleteBegun(w) \/ (task[t].kind = "delete" /\ w = v)
      /\ FreshInv'
  BY <1>6, <1>2, <1>3, <1>4, MoveSeen
<1>7. CASE raced' = raced
  <2>1. SameBuilt(Vm) /\ \A w \in Vm : Excused(w)' <=> Excused(w)
    BY <1>3, <1>7, NodeStays
  <2>2. SameAsked
    BY <1>5, <2>1 DEF SameAsked, AskedFor
  <2>3. SameLife(Vm \ {v})
    BY <1>1, <1>4, <1>5, <2>1, LifeStays DEF SameLife
  <2>4. CASE Excused(v) \/ task[t].kind # "delete" \/ DeleteBegun(v)
    <3>1. LifeOf(v)' = LifeOf(v)
      <4>1. CASE Excused(v)
        BY <1>6, <2>1, <4>1 DEF LifeOf
      <4>2. CASE task[t].kind # "delete" \/ DeleteBegun(v)
        BY <1>1, <1>4, <1>5, <1>6, <2>1, <4>2, LifeStays
      <4> QED
        BY <2>4, <4>1, <4>2
    <3> QED
      BY <1>5, <2>1, <2>2, <2>3, <3>1, PromiseStutters DEF SameLife
  <2>5. CASE ~(Excused(v) \/ task[t].kind # "delete" \/ DeleteBegun(v))
    <3>1. LifeOf(v) \in {"ordered", "shown", "removing"}
      BY <1>1, <1>3, <1>6, <2>5, LifeIs DEF LivesOn
    <3>2. DeleteBegun(v)' /\ ~Excused(v)' /\ row'[v] \notin {"none", "gone"}
      BY <1>3, <1>4, <1>5, <1>6, <2>1, <2>5 DEF Exists
    <3>3. LifeOf(v)' = "doomed"
      BY <3>2 DEF LifeOf
    <3>4. AskedFor(v)
      BY <1>6, <2>5 DEF AskedFor, RemovalAsked
    <3> QED
      BY <1>5, <1>6, <2>1, <2>2, <2>3, <3>1, <3>3, <3>4, PromiseLives
  <2> QED
    BY <2>4, <2>5
<1>8. CASE raced' = raced \union {v}
  <2>1. \A w \in Vm : NameOf[w] = NameOf[v] => Excused(w)'
    BY <1>6, <1>8 DEF Excused, Orderly
  <2>2. ASSUME NEW w \in Vm, NameOf[w] # NameOf[v]
        PROVE  /\ LifeOf(w)' = LifeOf(w) /\ BuiltFor(w)' = BuiltFor(w)
               /\ AskedFor(w)' <=> AskedFor(w)
    <3>1. Excused(w)' <=> Excused(w)
      BY <1>3, <1>8, <2>2 DEF Excused, Orderly
    <3>2. PartsOf(w)' = PartsOf(w)
      BY <1>3 DEF PartsOf
    <3>3. LifeOf(w)' = LifeOf(w)
      BY <1>1, <1>4, <1>5, <2>2, <3>1, LifeStays
    <3> QED
      BY <1>5, <3>1, <3>2, <3>3 DEF BuiltFor, AskedFor
  <2> QED
    BY <1>5, <1>6, <2>1, <2>2, PromiseExcuses
<1> QED
  BY <1>3, <1>7, <1>8

\* What the node has of a calm VM.
LEMMA PartsAre ==
  ASSUME TypeOK, NamesDiffer, NEW n \in Name, Owned(n),
         NEW v \in Vm, NameOf[v] = n, Exists(v)
  PROVE  /\ Present(n) => PartsOf(v) = {"domain", "disks"}
         /\ disks[n] # NoVm => disks[n] = v
         /\ ~Present(n) => domain[n].spec # v
         /\ \A w \in Vm \ {v} : NameOf[w] = n => PartsOf(w) = {}
         /\ disks[n] = NoVm => ~Present(n)
<1>1. NoDomain.spec \notin Vm /\ NoVm \notin Vm
  BY VmAssumption DEF NoDomain
<1>2. Present(n) => domain[n].spec \in Vm
  BY DEF TypeOK, Present, Domain
<1>3. disks[n] # NoVm => disks[n] = v
  BY DEF TypeOK, Owned, NamesDiffer
<1>4. Present(n) => domain[n].spec = v /\ disks[n] = v
  BY <1>1, <1>2, <1>3 DEF Owned
<1>5. ~Present(n) => domain[n].spec \notin Vm
  BY <1>1 DEF Present
<1>6. Present(n) => PartsOf(v) = {"domain", "disks"}
  BY <1>4 DEF PartsOf
<1>7. \A w \in Vm \ {v} : NameOf[w] = n => PartsOf(w) = {}
  BY <1>1, <1>3, <1>4, <1>5 DEF PartsOf
<1> QED
  BY <1>1, <1>3, <1>4, <1>5, <1>6, <1>7

\* A task that was answered writes what the node has become.
LEMMA ReturnSeen ==
  ASSUME CoreInv, NodeInv, FreshInv, NEW t \in Task, HandleReturn(t)
  PROVE  Promise!Next /\ FreshInv'
<1>1. TypeOK /\ RequestInv /\ CommandInv /\ NamesDiffer /\ OwnerInv /\ ReachedInv
  BY DEF CoreInv, NodeInv
<1>4. PICK v \in Vm : v = task[t].vm
  BY <1>1, VmAssumption DEF RequestInv, HandleReturn
<1>2. PICK x \in Tasks :
           /\ task' = [task EXCEPT ![t] = x]
           /\ x.vm = task[t].vm /\ x.kind = task[t].kind
           /\ x.pc # "waiting" \/ x.failures > 0
  BY <1>1, WorkerMoves DEF Worker
<1>3. /\ UNCHANGED <<domain, disks, raced, skipped>> /\ task[t].pc = "answered"
      /\ IF Exists(v) THEN row' = [row EXCEPT ![v] = StateAfter(task[t].kind)]
                      ELSE UNCHANGED row
  BY <1>4 DEF HandleReturn, nodeVars
<1>14. NameOf[v] \in Name /\ task[t].kind \in Kinds
  BY <1>1, VmAssumption DEF TypeOK
<1>5. StateAfter(task[t].kind) \in (IF task[t].kind = "delete" THEN {"gone"} ELSE Shown)
  BY <1>14 DEF StateAfter, Kinds, Shown
<1>6. /\ \A w \in Vm \ {v} : row'[w] = row[w]
      /\ Exists(v) => row'[v] = StateAfter(task[t].kind)
      /\ ~Exists(v) => row'[v] = row[v]
  BY <1>1, <1>3, <1>4 DEF TypeOK
<1>7. \A w \in Vm : row[w] # "none" => row'[w] # "none"
  BY <1>5, <1>6 DEF Shown
<1>8. /\ \A w \in Vm : RemovalAsked(w)' <=> RemovalAsked(w)
      /\ \A w \in Vm : DeleteBegun(w)' <=> DeleteBegun(w)
      /\ FreshInv'
  BY <1>2, <1>3, <1>7, MoveSeen
<1>9. SameBuilt(Vm) /\ \A w \in Vm : Excused(w)' <=> Excused(w)
  BY <1>3, NodeStays
<1>10. SameLife(Vm \ {v})
  BY <1>1, <1>6, <1>8, <1>9, LifeStays DEF SameLife
<1>11. SameAsked
  BY <1>8, <1>9 DEF SameAsked, AskedFor
<1>12. CASE LifeOf(v)' = LifeOf(v)
  BY <1>8, <1>9, <1>10, <1>11, <1>12, PromiseStutters DEF SameLife
<1>13. CASE LifeOf(v)' # LifeOf(v)
  <2> DEFINE n == NameOf[v]
  <2>1. n \in Name /\ ~Excused(v) /\ Calm(n)
    BY <1>4, <1>9, <1>13, <1>14, ExcusedIs DEF LifeOf
  <2>2. Exists(v) /\ row'[v] = StateAfter(task[t].kind)
    BY <1>1, <1>4, <1>6, <1>8, <1>9, <1>13, LifeStays
  <2>3. Achieved(t) /\ Owned(n)
    BY <1>1, <1>3, <1>4, <2>1 DEF ReachedInv, OwnerInv
  <2>4. CASE task[t].kind = "delete"
    <3>1. DeleteBegun(v)
      BY <1>3, <1>4, <2>4 DEF DeleteBegun
    <3>2. LifeOf(v) = "doomed"
      BY <1>1, <1>4, <2>1, <2>2, <3>1, LifeIs
    <3>3. row'[v] = "gone"
      BY <1>5, <2>2, <2>4
    <3>4. LifeOf(v)' = "gone"
      BY <1>4, <1>9, <2>1, <3>3 DEF LifeOf
    <3>5. disks[n] = NoVm /\ domain[n] = NoDomain
      BY <1>4, <2>3, <2>4 DEF Achieved, Present
    <3>6. BuiltFor(v) = {}
      BY <1>4, <3>5, VmAssumption DEF BuiltFor, PartsOf, NoDomain
    <3> QED
      BY <1>4, <1>8, <1>9, <1>10, <1>11, <3>2, <3>4, <3>6, PromiseLives
  <2>5. CASE task[t].kind # "delete"
    <3>1. row'[v] \in Shown
      BY <1>5, <2>2, <2>5
    <3>2. ~DeleteBegun(v)
      <4> SUFFICES ASSUME DeleteBegun(v)
                   PROVE  FALSE
        OBVIOUS
      <4>1. LifeOf(v) = "doomed"
        BY <1>1, <1>4, <2>1, <2>2, LifeIs
      <4>2. DeleteBegun(v)' /\ ~Excused(v)' /\ row'[v] \notin {"none", "gone"}
        BY <1>4, <1>8, <1>9, <2>1, <3>1 DEF Shown
      <4>3. LifeOf(v)' = "doomed"
        BY <4>2 DEF LifeOf
      <4> QED
        BY <1>13, <4>1, <4>3
    <3>3. LifeOf(v)' = "shown"
      BY <1>4, <1>8, <1>9, <2>1, <3>1, <3>2 DEF LifeOf, Shown
    <3>4. LifeOf(v) \in {"ordered", "removing"}
      <4>1. row[v] \in {"provisioning", "deleting"} \union Shown
        BY <1>1, <1>4, <2>2 DEF TypeOK, RowState, Exists
      <4> QED
        BY <1>1, <1>4, <1>13, <2>1, <2>2, <3>2, <3>3, <4>1, LifeIs
    <3>5. PartsOf(v) = {"domain", "disks"}
      <4>1. Present(n)
        BY <1>4, <2>3, <2>5 DEF Achieved
      <4> QED
        BY <1>1, <1>4, <2>1, <2>2, <2>3, <4>1, PartsAre
    <3>6. BuiltFor(v) = {"domain", "disks"}
      BY <2>1, <3>5 DEF BuiltFor
    <3> QED
      BY <1>4, <1>8, <1>9, <1>10, <1>11, <3>3, <3>4, <3>6, PromiseLives
  <2> QED
    BY <2>4, <2>5
<1> QED
  BY <1>12, <1>13

\* The agent builds and takes away, whatever else it does.
LEMMA AgentSeen ==
  ASSUME CoreInv, NodeInv, FreshInv, NEW r \in requests, Execute(r) \/ Failure(r)
  PROVE  Promise!Next /\ FreshInv'
<1> DEFINE n == NameOf[r.vm]
           v == r.vm
<1>1. TypeOK /\ RequestInv /\ NamesDiffer /\ OwnerInv /\ ReachedInv
  BY DEF CoreInv, NodeInv
<1>2. v \in Vm /\ n \in Name
  BY <1>1, VmAssumption DEF TypeOK
<1>3. UNCHANGED <<row, task, raced, skipped>>
  BY DEF Execute, Failure
<1>4. /\ \A w \in Vm : Excused(w)' <=> Excused(w)
      /\ \A w \in Vm : DeleteBegun(w)' <=> DeleteBegun(w)
      /\ \A w \in Vm : RemovalAsked(w)' <=> RemovalAsked(w)
      /\ \A w \in Vm : row'[w] = row[w]
  BY <1>3 DEF Excused, Orderly, DeleteBegun, RemovalAsked
<1>5. SameLife(Vm) /\ SameAsked /\ FreshInv'
  BY <1>1, <1>3, <1>4, LifeStays DEF SameLife, SameAsked, AskedFor, FreshInv
<1>6. \A m \in Name \ {n} : domain'[m] = domain[m] /\ disks'[m] = disks[m]
  BY <1>1 DEF Execute, Failure, Fails, Cut, nodeVars, CreateDisks, DefineDomain, EnsureRunning,
              BeginStop, Drain, KillDomain, UndefineDomain, WipeDisks, TypeOK
<1>7. ASSUME NEW w \in Vm, NameOf[w] # n \/ Excused(v)
      PROVE  BuiltFor(w)' = BuiltFor(w)
  <2>1. CASE NameOf[w] # n
    <3>1. NameOf[w] \in Name
      BY VmAssumption
    <3> QED
      BY <1>4, <1>6, <2>1, <3>1 DEF BuiltFor, PartsOf
  <2>2. CASE NameOf[w] = n /\ Excused(v)
    <3>1. Excused(w) /\ Excused(w)'
      BY <1>4, <2>2 DEF Excused
    <3> QED
      BY <3>1 DEF BuiltFor
  <2> QED
    BY <1>7, <2>1, <2>2
<1>8. CASE Excused(v)
  BY <1>5, <1>7, <1>8, PromiseStutters DEF SameBuilt
<1>9. CASE ~Excused(v)
  <2>1. Calm(n) /\ Owned(n) /\ Reached(r.kind, r.pc, n)
    BY <1>1, <1>2, <1>9, ExcusedIs DEF OwnerInv, ReachedInv
  <2>2. Exists(v) /\ (r.kind = "delete" => DeleteBegun(v))
    BY <2>1, SoleDelete
  <2>3. LifeOf(v) \in LivesOn /\ (r.kind = "delete" => LifeOf(v) = "doomed")
    BY <1>1, <1>2, <1>9, <2>2, LifeIs
  <2>4. /\ Present(n) => PartsOf(v) = {"domain", "disks"}
        /\ disks[n] # NoVm => disks[n] = v
        /\ ~Present(n) => domain[n].spec # v
        /\ \A w \in Vm \ {v} : NameOf[w] = n => PartsOf(w) = {}
        /\ disks[n] = NoVm => ~Present(n)
    BY <1>1, <1>2, <2>1, <2>2, PartsAre
  <2>5. \A w \in Vm : NameOf[w] = n => /\ ~Excused(w) /\ ~Excused(w)'
                                       /\ BuiltFor(w) = PartsOf(w)
                                       /\ BuiltFor(w)' = PartsOf(w)'
    BY <1>4, <1>9 DEF Excused, BuiltFor
  <2>6. domain \in [Name -> Domain \union {NoDomain}] /\ disks \in [Name -> Vm \union {NoVm}]
    BY <1>1 DEF TypeOK
  <2>7. ASSUME domain'[n].spec = domain[n].spec, disks'[n] = disks[n]
        PROVE  Promise!Next /\ FreshInv'
    <3>1. \A w \in Vm : BuiltFor(w)' = BuiltFor(w)
      BY <1>7, <2>5, <2>7 DEF PartsOf
    <3> QED
      BY <1>5, <3>1, PromiseStutters DEF SameBuilt
  <2>8. \A w \in Vm \ {v} : NameOf[w] = n => BuiltFor(w) = {}
    BY <2>4, <2>5
  <2>9. ASSUME \A w \in Vm \ {v} : NameOf[w] = n => PartsOf(w)' = PartsOf(w)
        PROVE  SameBuilt(Vm \ {v})
    BY <1>7, <2>5, <2>9 DEF SameBuilt
  <2>10. CASE CreateDisks(r)
    <3>1. UNCHANGED domain /\ disks'[n] = (IF disks[n] = NoVm THEN v ELSE disks[n])
      BY <1>2, <2>6, <2>10 DEF CreateDisks
    <3>2. CASE disks[n] # NoVm
      BY <2>7, <3>1, <3>2
    <3>3. CASE disks[n] = NoVm
      <4>1. PartsOf(v) = {} /\ PartsOf(v)' = {"disks"}
        BY <1>2, <2>4, <3>1, <3>3, VmAssumption DEF PartsOf
      <4>2. \A w \in Vm \ {v} : NameOf[w] = n => PartsOf(w)' = PartsOf(w)
        BY <1>2, <3>1, <3>3, VmAssumption DEF PartsOf
      <4>3. BuiltFor(v) = {} /\ BuiltFor(v)' = {"disks"}
        BY <1>2, <2>5, <4>1
      <4>4. SameBuilt(Vm \ {v})
        BY <2>9, <4>2
      <4> QED
        BY <1>2, <1>5, <2>3, <2>8, <4>3, <4>4, PromiseBuilds
    <3> QED
      BY <3>2, <3>3
  <2>11. CASE DefineDomain(r)
    <3>1. /\ UNCHANGED disks
          /\ Present(n) => domain'[n] = domain[n]
          /\ ~Present(n) => domain'[n].spec = v
      BY <1>2, <2>6, <2>11 DEF DefineDomain, Present
    <3>2. CASE Present(n)
      BY <2>7, <3>1, <3>2
    <3>3. CASE ~Present(n)
      <4>1. disks[n] = v
        <5>1. r.kind = "provision"
          BY <1>1, <2>11 DEF DefineDomain, RequestInv, TypeOK, Kinds, Steps, Ended
        <5> QED
          BY <2>1, <2>4, <2>11, <5>1 DEF DefineDomain, Reached
      <4>2. PartsOf(v) = {"disks"} /\ PartsOf(v)' = {"disks", "domain"}
        BY <1>2, <2>4, <3>1, <3>3, <4>1 DEF PartsOf
      <4>3. \A w \in Vm \ {v} : NameOf[w] = n => PartsOf(w)' = PartsOf(w)
        BY <1>2, <2>4, <3>1, <3>3, <4>1 DEF PartsOf
      <4>4. BuiltFor(v) = {"disks"} /\ BuiltFor(v)' = BuiltFor(v) \union {"domain"}
        BY <1>2, <2>5, <4>2
      <4>5. SameBuilt(Vm \ {v})
        BY <2>9, <4>3
      <4> QED
        BY <1>2, <1>5, <2>3, <2>8, <4>4, <4>5, PromiseBuilds
    <3> QED
      BY <3>2, <3>3
  <2>12. Present(n) => /\ Destroyed(n).spec = domain[n].spec
                       /\ domain[n] \in Domain
    BY <1>1, <1>2, <2>1, <2>6, DestroyedIs DEF Owned, Present
  <2>13. ~Present(n) => domain[n].st = "absent" /\ ~domain[n].persistent
    BY DEF Present, NoDomain
  <2>14. CASE EnsureRunning(r) \/ BeginStop(r) \/ Drain(r) \/ KillDomain(r)
    <3>1. UNCHANGED disks
      BY <2>14 DEF EnsureRunning, BeginStop, Drain, KillDomain
    <3>2. \/ UNCHANGED domain
          \/ domain[n].st = "shutoff" /\ domain' = [domain EXCEPT ![n].st = "running"]
          \/ Active(n) /\ domain' = [domain EXCEPT ![n] = Destroyed(n)]
      BY <2>14 DEF EnsureRunning, BeginStop, Drain, KillDomain, Active
    <3>3. domain'[n].spec = domain[n].spec
      <4>1. CASE UNCHANGED domain
        BY <4>1
      <4>2. CASE domain[n].st = "shutoff" /\ domain' = [domain EXCEPT ![n].st = "running"]
        <5>1. domain[n] \in Domain
          BY <2>12, <2>13, <4>2
        <5> QED
          BY <1>2, <2>6, <4>2, <5>1 DEF Domain
      <4>3. CASE Active(n) /\ domain' = [domain EXCEPT ![n] = Destroyed(n)]
        <5>1. Present(n)
          BY <2>13, <4>3 DEF Active
        <5> QED
          BY <1>2, <2>6, <2>12, <4>3, <5>1
      <4> QED
        BY <3>2, <4>1, <4>2, <4>3
    <3> QED
      BY <2>7, <3>1, <3>3
  <2>15. r.pc \in {"undefine", "wipe"} => r.kind = "delete"
    BY <1>1 DEF RequestInv, TypeOK, Kinds, Steps, Ended
  <2>16. CASE UndefineDomain(r)
    <3>1. UNCHANGED disks
      BY <2>16 DEF UndefineDomain
    <3>2. ~Active(n) /\ LifeOf(v) = "doomed"
      BY <2>1, <2>3, <2>13, <2>15, <2>16 DEF UndefineDomain, Reached, Active, Owned
    <3>3. CASE ~Present(n)
      BY <2>7, <2>13, <2>16, <3>1, <3>3 DEF UndefineDomain
    <3>4. CASE Present(n)
      <4>1. domain'[n] = NoDomain
        BY <1>2, <2>1, <2>6, <2>16, <3>2, <3>4 DEF UndefineDomain, Owned
      <4>2. PartsOf(v) = {"domain", "disks"} /\ PartsOf(v)' = {"disks"}
        BY <1>2, <2>4, <3>1, <3>4, <4>1, VmAssumption DEF PartsOf, NoDomain
      <4>3. \A w \in Vm \ {v} : NameOf[w] = n => PartsOf(w)' = PartsOf(w)
        <5> SUFFICES ASSUME NEW w \in Vm \ {v}, NameOf[w] = n
                     PROVE  PartsOf(w)' = {}
          BY <2>4
        <5>1. disks[n] # w
          BY <2>4, VmAssumption
        <5> QED
          BY <3>1, <4>1, <5>1, VmAssumption DEF PartsOf, NoDomain
      <4>4. /\ BuiltFor(v) = {"domain", "disks"}
            /\ BuiltFor(v)' = BuiltFor(v) \ {"domain"}
        BY <1>2, <2>5, <4>2
      <4>5. SameBuilt(Vm \ {v})
        BY <2>9, <4>3
      <4> QED
        BY <1>2, <1>5, <3>2, <4>4, <4>5, PromiseBuilds
    <3> QED
      BY <3>3, <3>4
  <2>17. CASE WipeDisks(r)
    <3>1. UNCHANGED domain /\ disks'[n] = NoVm
      BY <1>2, <2>6, <2>17 DEF WipeDisks, WipedDisks
    <3>2. ~Present(n) /\ LifeOf(v) = "doomed"
      BY <2>1, <2>3, <2>15, <2>17 DEF WipeDisks, Reached
    <3>3. CASE disks[n] = NoVm
      BY <2>7, <3>1, <3>3
    <3>4. CASE disks[n] # NoVm
      <4>1. PartsOf(v) = {"disks"} /\ PartsOf(v)' = {}
        BY <1>2, <2>4, <3>1, <3>2, <3>4, VmAssumption DEF PartsOf
      <4>2. \A w \in Vm \ {v} : NameOf[w] = n => PartsOf(w)' = PartsOf(w)
        <5> SUFFICES ASSUME NEW w \in Vm \ {v}, NameOf[w] = n
                     PROVE  PartsOf(w)' = PartsOf(w)
          OBVIOUS
        <5>1. disks[n] # w /\ disks'[n] # w
          BY <2>4, <3>1, VmAssumption
        <5> QED
          BY <3>1, <5>1 DEF PartsOf
      <4>3. BuiltFor(v) = {"disks"} /\ BuiltFor(v)' = BuiltFor(v) \ {"disks"}
        BY <1>2, <2>5, <4>1
      <4>4. SameBuilt(Vm \ {v})
        BY <2>9, <4>2
      <4> QED
        BY <1>2, <1>5, <3>2, <4>3, <4>4, PromiseBuilds
    <3> QED
      BY <3>3, <3>4
  <2>18. CASE Failure(r)
    BY <2>7, <2>18 DEF Failure, Fails, Cut, nodeVars
  <2> QED
    BY <2>10, <2>11, <2>14, <2>16, <2>17, <2>18 DEF Execute
<1> QED
  BY <1>5, <1>8, <1>9

\* A deletion that passes over an error excuses the name.
LEMMA PassOverSeen ==
  ASSUME CoreInv, FreshInv, NEW r \in requests, PassOver(r)
  PROVE  Promise!Next /\ FreshInv'
<1>1. TypeOK
  BY DEF CoreInv
<1>2. PICK v \in Vm : v = r.vm /\ NameOf[v] \in Name
  BY <1>1, VmAssumption DEF TypeOK
<1>3. UNCHANGED <<row, task, domain, disks, raced>> /\ skipped' = skipped \union {v}
  BY <1>2 DEF PassOver, nodeVars
<1>4. /\ \A w \in Vm : DeleteBegun(w)' <=> DeleteBegun(w)
      /\ \A w \in Vm : RemovalAsked(w)' <=> RemovalAsked(w)
      /\ FreshInv'
  BY <1>3 DEF DeleteBegun, RemovalAsked, FreshInv
<1>5. \A w \in Vm : NameOf[w] = NameOf[v] => Excused(w)'
  BY <1>3 DEF Excused, Orderly
<1>6. ASSUME NEW w \in Vm, NameOf[w] # NameOf[v]
      PROVE  /\ LifeOf(w)' = LifeOf(w) /\ BuiltFor(w)' = BuiltFor(w)
             /\ AskedFor(w)' <=> AskedFor(w)
  <2>1. Excused(w)' <=> Excused(w)
    BY <1>3, <1>6 DEF Excused, Orderly
  <2>2. PartsOf(w)' = PartsOf(w)
    BY <1>3 DEF PartsOf
  <2>3. LifeOf(w)' = LifeOf(w)
    BY <1>1, <1>3, <1>4, <2>1, LifeStays
  <2> QED
    BY <1>4, <2>1, <2>2, <2>3 DEF BuiltFor, AskedFor
<1> QED
  BY <1>2, <1>4, <1>5, <1>6, PromiseExcuses

\* A guest that stops keeps its definition, unless its name is excused.
LEMMA GuestSeen ==
  ASSUME CoreInv, NodeInv, FreshInv, NEW n \in Name, GuestPowersOff(n) \/ GuestSuspended(n)
  PROVE  Promise!Next /\ FreshInv'
<1>1. TypeOK /\ OwnerInv
  BY DEF CoreInv, NodeInv
<1>2. UNCHANGED <<row, task, disks, raced, skipped>> /\ domain[n].st = "running"
  BY DEF GuestPowersOff, GuestSuspended
<1>3. \A m \in Name \ {n} : domain'[m] = domain[m]
  BY <1>1 DEF GuestPowersOff, GuestSuspended, TypeOK
<1>4. /\ \A w \in Vm : Excused(w)' <=> Excused(w)
      /\ \A w \in Vm : DeleteBegun(w)' <=> DeleteBegun(w)
      /\ \A w \in Vm : RemovalAsked(w)' <=> RemovalAsked(w)
      /\ \A w \in Vm : row'[w] = row[w]
  BY <1>2 DEF Excused, Orderly, DeleteBegun, RemovalAsked
<1>5. SameLife(Vm) /\ SameAsked /\ FreshInv'
  BY <1>1, <1>2, <1>4, LifeStays DEF SameLife, SameAsked, AskedFor, FreshInv
<1>6. ASSUME NEW w \in Vm, ~Excused(w), NameOf[w] = n
      PROVE  domain'[n].spec = domain[n].spec
  <2>1. Calm(n) /\ Owned(n)
    BY <1>1, <1>6, ExcusedIs DEF OwnerInv
  <2>2. Present(n) /\ domain[n].persistent
    <3>1. NoDomain.st # "running"
      BY DEF NoDomain
    <3> QED
      BY <1>2, <2>1, <3>1 DEF Owned, Present
  <2>3. domain'[n] = Destroyed(n)
    BY <1>1, <2>1 DEF GuestPowersOff, GuestSuspended, Calm, TypeOK
  <2> QED
    BY <1>1, <2>2, <2>3, DestroyedIs
<1>7. ASSUME NEW w \in Vm
      PROVE  BuiltFor(w)' = BuiltFor(w)
  <2>1. CASE Excused(w)
    BY <1>4, <2>1 DEF BuiltFor
  <2>2. CASE ~Excused(w)
    <3>1. domain'[NameOf[w]].spec = domain[NameOf[w]].spec
      BY <1>3, <1>6, <2>2, VmAssumption
    <3> QED
      BY <1>2, <1>4, <2>2, <3>1 DEF BuiltFor, PartsOf
  <2> QED
    BY <2>1, <2>2
<1> QED
  BY <1>5, <1>7, PromiseStutters DEF SameBuilt

\* Reports move a VM among the states that are shown.
LEMMA ReportSeen ==
  ASSUME CoreInv, FreshInv, \/ Heartbeat \/ UNCHANGED vars
                            \/ \E n \in Name : ApplyReport(n)
  PROVE  Promise!Next /\ FreshInv'
<1>1. TypeOK /\ RequestInv
  BY DEF CoreInv
<1>2. UNCHANGED <<task, domain, disks, raced, skipped>>
  BY DEF Heartbeat, ApplyReport, nodeVars, vars
<1>3. UNCHANGED row \/ \E n \in Name, st \in Shown :
        row' = [v \in Vm |-> IF NameOf[v] = n /\ Reportable(v) THEN st ELSE row[v]]
  BY DEF Heartbeat, ApplyReport, vars
<1>4. \A w \in Vm : row'[w] = row[w] \/ (row[w] \in Shown /\ row'[w] \in Shown)
  BY <1>3 DEF Reportable
<1>5. /\ \A w \in Vm : DeleteBegun(w)' <=> DeleteBegun(w)
      /\ \A w \in Vm : RemovalAsked(w)' <=> RemovalAsked(w)
  BY <1>2 DEF DeleteBegun, RemovalAsked
<1>6. SameBuilt(Vm) /\ \A w \in Vm : Excused(w)' <=> Excused(w)
  BY <1>2, NodeStays
<1>7. SameLife(Vm)
  BY <1>1, <1>4, <1>5, <1>6, LifeStays DEF SameLife
<1>8. SameAsked
  BY <1>5, <1>6 DEF SameAsked, AskedFor
<1>9. FreshInv'
  <2>1. \A t \in Task : task[t].pc # "unused" => task[t].vm \in Vm
    BY <1>1 DEF RequestInv
  <2> QED
    BY <1>2, <1>4, <2>1 DEF FreshInv, Shown
<1> QED
  BY <1>6, <1>7, <1>8, <1>9, PromiseStutters

\* Every step.
LEMMA StepSeen ==
  ASSUME VmInv, FreshInv, [Next]_vars
  PROVE  Promise!Next /\ FreshInv'
<1>1. CoreInv /\ NodeInv
  BY DEF VmInv, CoreInv, NodeInv
<1> QED
  BY <1>1, CreateSeen, RemoveSeen, PowerSeen, MissingSeen, CallSeen, QuietSeen, ReturnSeen,
     AgentSeen, PassOverSeen, GuestSeen, ReportSeen DEF Next, Worker

\* Nothing has been ordered yet.
LEMMA InitSeen == Init => Promise!Init /\ FreshInv
<1> SUFFICES ASSUME Init
             PROVE  Promise!Init /\ FreshInv
  OBVIOUS
<1>1. \A t \in Task : task[t].pc = "unused" /\ task[t].vm = NoVm
  BY DEF Init, Unused
<1>2. \A v \in Vm : row[v] = "none" /\ LifeOf(v) \in {"none", "excused"}
  BY DEF Init, LifeOf
<1>3. \A v \in Vm : ~RemovalAsked(v)
  BY <1>1, VmAssumption DEF RemovalAsked
<1>4. \A v \in Vm : PartsOf(v) = {}
  BY VmAssumption DEF Init, PartsOf, NoDomain
<1> QED
  BY <1>1, <1>2, <1>3, <1>4 DEF Promise!Init, FreshInv

\* Whatever retries, timeouts, late requests and heartbeats do underneath, a VM is
\* ordered, built, shown, taken away and gone as VmPromise says, for any number of
\* VMs that share names, of tasks and of attempts.
THEOREM ImplementsVmPromise == Spec => KeepsVmPromise
<1>1. Init => Promise!Init /\ FreshInv
  BY InitSeen
<1>2. VmInv /\ FreshInv /\ [Next]_vars => FreshInv' /\ [Promise!Next]_(Promise!vars)
  BY StepSeen
<1> QED
  BY <1>1, <1>2, VmInvariant, PTL DEF Spec, KeepsVmPromise, Promise!Spec
=============================================================================
