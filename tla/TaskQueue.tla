------------------------------ MODULE TaskQueue ------------------------------
(***************************************************************************)
(* The task subsystem of the backend: TasksService                         *)
(* (backend/src/tasks/tasks.service.ts) on top of a BullMQ queue.          *)
(*                                                                         *)
(* A task is a row of the tasks table (what the UI shows) and a BullMQ job *)
(* (what the worker executes).  They are written one after the other, by   *)
(* different stores, and the retries belong to the job only.  This module  *)
(* keeps both, every step of TasksService.process, and the failures the    *)
(* code can meet between two steps: a rejected database write, a handler   *)
(* that throws, a lost job lock, a crash of the backend process.           *)
(*                                                                         *)
(* BullMQ itself is external: jobs, their lock, attemptsMade and the       *)
(* stalled counter are modelled as far as the options passed in enqueue    *)
(* and in onModuleInit rely on them.                                       *)
(***************************************************************************)
EXTENDS Naturals, Sequences

CONSTANTS
  Task,             \* the calls of enqueue
  Slot,             \* the worker's concurrent executions (8 in the code)
  Service,          \* the services that register themselves as handler
  ServiceOf,        \* ServiceOf[t]: the service whose handle knows t's kind
  BackupTask,       \* the tasks of kind vm.backup
  BootOrders,       \* orders in which Nest may run the onModuleInit hooks
  Attempts,         \* the job option attempts (3)
  MaxStalledCount,  \* BullMQ's default bound on recoveries of one job (1)
  MaxCrashes,       \* bound of the model: crashes of the backend process
  MaxDbFaults,      \* bound of the model: rejected writes of a task row
  NoHandler, NoTask, NoSlot

ASSUME QueueAssumption ==
  /\ ServiceOf \in [Task -> Service]
  /\ BackupTask \subseteq Task
  /\ BootOrders \subseteq Seq(Service)
  /\ Attempts \in Nat \ {0}
  /\ MaxStalledCount \in Nat
  /\ MaxCrashes \in Nat
  /\ MaxDbFaults \in Nat
  /\ NoHandler \notin Service
  /\ NoTask \notin Task
  /\ NoSlot \notin Slot

VARIABLES
  row,           \* tasks.state in PostgreSQL
  enqueuing,     \* enqueue calls between prisma.task.create and queue.add
  job,           \* state of the BullMQ job
  attemptsMade,  \* failed attempts of the job, kept in Redis
  stalls,        \* recoveries of the job by the stalled-job check
  lock,          \* the execution that holds the job's lock
  toRegister,    \* services whose onModuleInit has not run yet
  handler,       \* TasksService.handler
  pc,            \* where each execution of process stands
  current,       \* the task each execution works on
  made,          \* job.attemptsMade as the execution read it
  crashes,       \* number of crashes so far
  dbFaults,      \* number of rejected writes so far
  picks,         \* history: how often the worker took the job
  effects,       \* history: how often the handler returned normally
  disturbed      \* history: tasks hit by a fault other than a throwing handler

queueVars == <<job, attemptsMade, stalls, lock>>
bootVars  == <<toRegister, handler>>
runVars   == <<pc, current, made>>
history   == <<picks, effects>>
vars == <<row, enqueuing, queueVars, bootVars, runVars, crashes, dbFaults,
          history, disturbed>>

RowState == {"none", "queued", "running", "succeeded", "failed"}
JobState == {"none", "waiting", "active", "delayed", "completed", "failed"}
Pc == {"idle", "picked", "handling", "handled", "pruning", "caught",
       "returned", "thrown"}
Terminal == {"succeeded", "failed"}

TypeOK ==
  /\ row \in [Task -> RowState]
  /\ enqueuing \subseteq Task
  /\ job \in [Task -> JobState]
  /\ attemptsMade \in [Task -> Nat]
  /\ stalls \in [Task -> Nat]
  /\ lock \in [Task -> Slot \union {NoSlot}]
  /\ toRegister \in Seq(Service)
  /\ handler \in Service \union {NoHandler}
  /\ pc \in [Slot -> Pc]
  /\ current \in [Slot -> Task \union {NoTask}]
  /\ made \in [Slot -> Nat]
  /\ crashes \in Nat
  /\ dbFaults \in Nat
  /\ picks \in [Task -> Nat]
  /\ effects \in [Task -> Nat]
  /\ disturbed \subseteq Task

Init ==
  /\ row = [t \in Task |-> "none"]
  /\ enqueuing = {}
  /\ job = [t \in Task |-> "none"]
  /\ attemptsMade = [t \in Task |-> 0]
  /\ stalls = [t \in Task |-> 0]
  /\ lock = [t \in Task |-> NoSlot]
  /\ toRegister \in BootOrders
  /\ handler = NoHandler
  /\ pc = [s \in Slot |-> "idle"]
  /\ current = [s \in Slot |-> NoTask]
  /\ made = [s \in Slot |-> 0]
  /\ crashes = 0
  /\ dbFaults = 0
  /\ picks = [t \in Task |-> 0]
  /\ effects = [t \in Task |-> 0]
  /\ disturbed = {}

-----------------------------------------------------------------------------
(* Boot: every service's onModuleInit calls registerHandler; the single    *)
(* field keeps the last one.                                               *)

RegisterHandler ==
  /\ toRegister # <<>>
  /\ handler' = Head(toRegister)
  /\ toRegister' = Tail(toRegister)
  /\ UNCHANGED <<row, enqueuing, queueVars, runVars, crashes, dbFaults,
                 history, disturbed>>

-----------------------------------------------------------------------------
(* enqueue: the row first, then the job.                                   *)

InitialRowState == "queued"

CreateRow(t) ==
  /\ row[t] = "none"
  /\ row' = [row EXCEPT ![t] = InitialRowState]
  /\ enqueuing' = enqueuing \union {t}
  /\ UNCHANGED <<queueVars, bootVars, runVars, crashes, dbFaults, history,
                 disturbed>>

AddJob(t) ==
  /\ t \in enqueuing
  /\ job' = [job EXCEPT ![t] = "waiting"]
  /\ enqueuing' = enqueuing \ {t}
  /\ UNCHANGED <<row, attemptsMade, stalls, lock, bootVars, runVars, crashes,
                 dbFaults, history, disturbed>>

\* queue.add rejects: the caller sees an error, the row stays behind.
AddJobFails(t) ==
  /\ t \in enqueuing
  /\ enqueuing' = enqueuing \ {t}
  /\ disturbed' = disturbed \union {t}
  /\ UNCHANGED <<row, queueVars, bootVars, runVars, crashes, dbFaults, history>>

-----------------------------------------------------------------------------
(* The worker: BullMQ hands a waiting job to a free execution.             *)

Pick(s, t) ==
  /\ pc[s] = "idle"
  /\ job[t] = "waiting"
  /\ job' = [job EXCEPT ![t] = "active"]
  /\ lock' = [lock EXCEPT ![t] = s]
  /\ pc' = [pc EXCEPT ![s] = "picked"]
  /\ current' = [current EXCEPT ![s] = t]
  /\ made' = [made EXCEPT ![s] = attemptsMade[t]]
  /\ picks' = [picks EXCEPT ![t] = @ + 1]
  /\ UNCHANGED <<row, enqueuing, attemptsMade, stalls, bootVars, crashes,
                 dbFaults, effects, disturbed>>

Goto(s, label) == pc' = [pc EXCEPT ![s] = label]

\* updateTask(..., {state: st}) of execution s resolves.
WriteRow(s, st) ==
  /\ row' = [row EXCEPT ![current[s]] = st]
  /\ UNCHANGED <<dbFaults, disturbed>>

\* updateTask of execution s rejects: the row keeps its state.
WriteRejected(s) ==
  /\ dbFaults < MaxDbFaults
  /\ dbFaults' = dbFaults + 1
  /\ disturbed' = disturbed \union {current[s]}
  /\ UNCHANGED row

ProcessFrame == UNCHANGED <<enqueuing, queueVars, bootVars, current, made,
                            crashes, picks>>

\* No handler yet: the throw is outside the try, nothing is written.
NoHandlerYet(s) ==
  /\ pc[s] = "picked"
  /\ handler = NoHandler
  /\ Goto(s, "thrown")
  /\ disturbed' = disturbed \union {current[s]}
  /\ UNCHANGED <<row, dbFaults, effects>>
  /\ ProcessFrame

\* The write of state running is outside the try as well.
MarkRunning(s) ==
  /\ pc[s] = "picked"
  /\ handler # NoHandler
  /\ \/ WriteRow(s, "running") /\ Goto(s, "handling")
     \/ WriteRejected(s) /\ Goto(s, "thrown")
  /\ UNCHANGED effects
  /\ ProcessFrame

\* A service that does not know the kind never returns normally: its first
\* lookup is made with an undefined id and throws.
HandlerReturns(s) ==
  /\ pc[s] = "handling"
  /\ handler = ServiceOf[current[s]]
  /\ Goto(s, "handled")
  /\ effects' = [effects EXCEPT ![current[s]] = @ + 1]
  /\ UNCHANGED <<row, dbFaults, disturbed>>
  /\ ProcessFrame

HandlerThrows(s) ==
  /\ pc[s] = "handling"
  /\ Goto(s, "caught")
  /\ UNCHANGED <<row, dbFaults, disturbed, effects>>
  /\ ProcessFrame

PrunesAfter(t) == t \in BackupTask

MarkSucceeded(s) ==
  /\ pc[s] = "handled"
  /\ \/ /\ WriteRow(s, "succeeded")
        /\ Goto(s, IF PrunesAfter(current[s]) THEN "pruning" ELSE "returned")
     \/ WriteRejected(s) /\ Goto(s, "caught")
  /\ UNCHANGED effects
  /\ ProcessFrame

\* pruneBackups runs inside the try: it may reject (a row it deletes has been
\* deleted meanwhile), and then the finished task enters the catch block.
PruneBackups(s) ==
  /\ pc[s] = "pruning"
  /\ \E outcome \in {"returned", "caught"} : Goto(s, outcome)
  /\ UNCHANGED <<row, dbFaults, disturbed, effects>>
  /\ ProcessFrame

MutantLastTooEarly(s) == made[s] + 2 >= Attempts
MutantLastTooLate(s) == made[s] >= Attempts
MutantLastAlways(s) == TRUE  \* the test is missing

IsLastAttempt(s) == made[s] + 1 >= Attempts

CatchBlock(s) ==
  /\ pc[s] = "caught"
  /\ Goto(s, "thrown")
  /\ IF IsLastAttempt(s)
     THEN WriteRow(s, "failed") \/ WriteRejected(s)
     ELSE UNCHANGED <<row, dbFaults, disturbed>>
  /\ UNCHANGED effects
  /\ ProcessFrame

-----------------------------------------------------------------------------
(* BullMQ takes the result of process.  It is dropped when the execution   *)
(* has lost the lock of its job.                                           *)

HoldsLock(s) == lock[current[s]] = s /\ job[current[s]] = "active"

Release(s) ==
  /\ pc' = [pc EXCEPT ![s] = "idle"]
  /\ current' = [current EXCEPT ![s] = NoTask]
  /\ made' = [made EXCEPT ![s] = 0]
  /\ UNCHANGED <<row, enqueuing, stalls, bootVars, crashes, dbFaults, history,
                 disturbed>>

JobCompleted(s) ==
  /\ pc[s] = "returned"
  /\ HoldsLock(s)
  /\ job' = [job EXCEPT ![current[s]] = "completed"]
  /\ lock' = [lock EXCEPT ![current[s]] = NoSlot]
  /\ UNCHANGED attemptsMade
  /\ Release(s)

Retried(s) == made[s] + 1 < Attempts

JobFailed(s) ==
  LET t == current[s] IN
  /\ pc[s] = "thrown"
  /\ HoldsLock(s)
  /\ attemptsMade' = [attemptsMade EXCEPT ![t] = @ + 1]
  /\ job' = [job EXCEPT ![t] = IF Retried(s) THEN "delayed" ELSE "failed"]
  /\ lock' = [lock EXCEPT ![t] = NoSlot]
  /\ Release(s)

ResultDropped(s) ==
  /\ pc[s] \in {"returned", "thrown"}
  /\ ~HoldsLock(s)
  /\ UNCHANGED <<job, attemptsMade, lock>>
  /\ Release(s)

BackoffElapsed(t) ==
  /\ job[t] = "delayed"
  /\ job' = [job EXCEPT ![t] = "waiting"]
  /\ UNCHANGED <<row, enqueuing, attemptsMade, stalls, lock, bootVars, runVars,
                 crashes, dbFaults, history, disturbed>>

\* The lock of an active job expires (its process died, or could not renew
\* it); the stalled check requeues the job, or fails it for good without
\* running process again.
MutantSeesLockedOnly(t) == job[t] = "active" /\ lock[t] # NoSlot

Stallable(t) == job[t] = "active"

Stall(t) ==
  /\ Stallable(t)
  /\ stalls' = [stalls EXCEPT ![t] = @ + 1]
  /\ job' = [job EXCEPT ![t] = IF stalls[t] < MaxStalledCount THEN "waiting"
                                                              ELSE "failed"]
  /\ lock' = [lock EXCEPT ![t] = NoSlot]
  /\ disturbed' = disturbed \union {t}
  /\ UNCHANGED <<row, enqueuing, attemptsMade, bootVars, runVars, crashes,
                 dbFaults, history>>

\* The backend process dies: executions and unfinished enqueue calls are
\* gone, jobs and rows are not; the next process boots with no handler.
Crash ==
  /\ crashes < MaxCrashes
  /\ crashes' = crashes + 1
  /\ pc' = [s \in Slot |-> "idle"]
  /\ current' = [s \in Slot |-> NoTask]
  /\ made' = [s \in Slot |-> 0]
  /\ lock' = [t \in Task |-> NoSlot]
  /\ handler' = NoHandler
  /\ toRegister' \in BootOrders
  /\ disturbed' = disturbed \union enqueuing
  /\ enqueuing' = {}
  /\ UNCHANGED <<row, job, attemptsMade, stalls, dbFaults, history>>

-----------------------------------------------------------------------------
Process(s) ==
  \/ NoHandlerYet(s)
  \/ MarkRunning(s)
  \/ HandlerReturns(s)
  \/ HandlerThrows(s)
  \/ MarkSucceeded(s)
  \/ PruneBackups(s)
  \/ CatchBlock(s)
  \/ JobCompleted(s)
  \/ JobFailed(s)
  \/ ResultDropped(s)

Next ==
  \/ RegisterHandler
  \/ \E t \in Task :
       \/ CreateRow(t)
       \/ AddJob(t)
       \/ AddJobFails(t)
       \/ BackoffElapsed(t)
       \/ Stall(t)
       \/ \E s \in Slot : Pick(s, t)
  \/ \E s \in Slot : Process(s)
  \/ Crash

Spec == Init /\ [][Next]_vars

\* An execution that has lost its process's lock is found again only by the
\* stalled check; a job that is being executed stalls only by accident, which
\* is not fair.
RecoverOrphan(t) == lock[t] = NoSlot /\ Stall(t)

Fairness ==
  /\ WF_vars(RegisterHandler)
  /\ \A t \in Task : WF_vars(BackoffElapsed(t)) /\ WF_vars(RecoverOrphan(t))
  /\ \A t \in Task : WF_vars(\E s \in Slot : Pick(s, t))
  /\ \A s \in Slot : WF_vars(Process(s))

FairSpec == Spec /\ Fairness
-----------------------------------------------------------------------------
(* Properties.                                                             *)

\* A row says "failed" only when the job has used up all but its last
\* attempt: a transient error of an earlier attempt, which BullMQ will retry,
\* is never reported as the outcome (the isLastAttempt test of process).
FailedOnlyAfterLastAttempt ==
  \A t \in Task : row[t] = "failed" => attemptsMade[t] + 1 >= Attempts

\* The two stores agree at the end: unless a fault outside the handler hit
\* the task, a completed job has a succeeded row and a job out of attempts has
\* a failed row.  They are written by different calls, the row first.
FinishedJobHasFinishedRow ==
  \A t \in Task \ disturbed :
    /\ job[t] = "completed" => row[t] = "succeeded"
    /\ job[t] = "failed" => row[t] = "failed"

\* Retries do not repeat work that was done: the handler of an undisturbed
\* task returns at most once, and never for a task reported as failed.  Tasks
\* of kind vm.backup are excepted, because process prunes old backups inside
\* the try and a rejected prune runs the whole backup again.
NoRepeatedEffect ==
  \A t \in Task \ (disturbed \union BackupTask) :
    /\ effects[t] <= 1
    /\ row[t] = "failed" => effects[t] = 0

\* However crashes, lost locks and errors interleave, the worker takes a job
\* at most attempts times plus the recoveries BullMQ grants; so the agent sees
\* a bounded number of repetitions of a command.
PicksBounded ==
  \A t \in Task : picks[t] <= Attempts + MaxStalledCount

\* A finished row stays as it is, unless a fault disturbed the task or the
\* task is a backup (see NoRepeatedEffect): process writes "running" without
\* looking at the row, so only the retry discipline protects a final state.
TerminalRowIsFinal ==
  [][\A t \in Task \ (disturbed \union BackupTask) :
       row[t] \in Terminal => row'[t] = row[t] \/ t \in disturbed']_vars

\* Every job that reached the queue is eventually completed or failed, across
\* boots, crashes and backoffs.
JobSettles ==
  \A t \in Task : job[t] = "waiting" ~> job[t] \in {"completed", "failed"}

\* The refinement: outside the faults a task may be disturbed by, and outside
\* the backups, rows and jobs together keep the promise of TaskPromise.
Promised == Task \ BackupTask

ShownOutcome ==
  [t \in Promised |->
     IF t \in disturbed THEN "excused"
     ELSE IF row[t] = "none" THEN "new"
     ELSE IF row[t] \in Terminal THEN row[t] ELSE "open"]

CarriedOut == [t \in Promised |-> IF t \in disturbed THEN 0 ELSE effects[t]]

Promise == INSTANCE TaskPromise WITH
  Command <- Promised, outcome <- ShownOutcome, done <- CarriedOut

\* A command is reported as what became of it, once and for all, and no retry
\* repeats one that was carried out: every step of the queue is a step of the
\* abstract specification or leaves its variables alone.
KeepsPromise == Promise!Spec

\* What the comment on TasksService says: the queue serves the VM operations,
\* and its handler is VmsService.  After the boot, the handler that a VM task
\* is given to is the service that knows the VM kinds.
VmTaskReachesItsService ==
  \A s \in Slot :
    pc[s] = "handling" /\ toRegister = <<>> => handler = ServiceOf[current[s]]

-----------------------------------------------------------------------------
(* The inductive invariant behind these properties.                        *)

\* An execution works on a task exactly when it is not idle.
IdleInv == \A s \in Slot : pc[s] = "idle" <=> current[s] = NoTask

\* The holder of a lock executes that job and has read its current
\* attemptsMade; any other execution of the job has read an older one.
LockInv ==
  /\ \A t \in Task : lock[t] # NoSlot =>
       /\ job[t] = "active"
       /\ current[lock[t]] = t
       /\ made[lock[t]] = attemptsMade[t]
  /\ \A s \in Slot : current[s] # NoTask =>
       /\ made[s] <= attemptsMade[current[s]]
       /\ job[current[s]] # "none"

\* Every pick is paid for by a failed attempt, a recovery, or is the last one.
CountOf(t) ==
  /\ job[t] = "none" => picks[t] = 0 /\ attemptsMade[t] = 0 /\ stalls[t] = 0
  /\ job[t] \in {"waiting", "delayed"} =>
       /\ picks[t] <= attemptsMade[t] + stalls[t]
       /\ attemptsMade[t] < Attempts /\ stalls[t] <= MaxStalledCount
  /\ job[t] = "active" =>
       /\ picks[t] <= attemptsMade[t] + stalls[t] + 1
       /\ attemptsMade[t] < Attempts /\ stalls[t] <= MaxStalledCount
  /\ picks[t] <= Attempts + MaxStalledCount

CountInv == \A t \in Task : CountOf(t)

\* What the row of a task may still be while it can be retried: a backup whose
\* prune failed comes back with a succeeded row.
OpenRow(t) ==
  \/ row[t] \in {"queued", "running"}
  \/ row[t] = "succeeded" /\ t \in BackupTask

\* An undisturbed task is executed by the holder of its lock only, and its row
\* is what the last write of that execution left.
SoleRun(s) ==
  LET t == current[s] IN
  /\ lock[t] = s
  /\ pc[s] \in {"picked", "caught"} => OpenRow(t)
  /\ pc[s] \in {"handling", "handled"} => row[t] = "running"
  /\ pc[s] \in {"pruning", "returned"} => row[t] = "succeeded"
  /\ pc[s] = "pruning" => t \in BackupTask
  /\ pc[s] = "thrown" /\ IsLastAttempt(s) => row[t] = "failed"
  /\ pc[s] = "thrown" /\ ~IsLastAttempt(s) => OpenRow(t)

SoleRunInv == \A s \in Slot : current[s] \in Task \ disturbed => SoleRun(s)

\* A job comes after its row.
EnqueueInv ==
  \A t \in Task :
    /\ row[t] = "none" => job[t] = "none"
    /\ t \in enqueuing => row[t] = "queued" /\ job[t] = "none"

\* The row of an undisturbed task that no execution works on.
RestingRowInv ==
  \A t \in Task \ disturbed :
    /\ job[t] \in {"waiting", "delayed"} => OpenRow(t)
    /\ job[t] = "none" => row[t] \notin Terminal

\* How often the handler of an undisturbed task has returned.
EffectInv ==
  /\ \A t \in Task \ (disturbed \union BackupTask) :
       /\ job[t] \in {"none", "waiting", "delayed"} => effects[t] = 0
       /\ effects[t] <= 1
       /\ row[t] = "failed" => effects[t] = 0
  /\ \A s \in Slot :
       /\ current[s] \in Task \ (disturbed \union BackupTask)
       /\ pc[s] \in {"picked", "handling", "caught", "thrown"}
       => effects[current[s]] = 0

IInv ==
  /\ TypeOK
  /\ IdleInv
  /\ LockInv
  /\ CountInv
  /\ EnqueueInv
  /\ SoleRunInv
  /\ RestingRowInv
  /\ EffectInv
  /\ FailedOnlyAfterLastAttempt
  /\ FinishedJobHasFinishedRow
=============================================================================
