--------------------------- MODULE TaskQueueProofs ---------------------------
(***************************************************************************)
(* Proofs about TaskQueue for every set of tasks, executions and services, *)
(* every boot order and every bound.  IInv is inductive; the lemmas below  *)
(* prove its conjuncts one at a time, one step per action.                 *)
(***************************************************************************)
EXTENDS TaskQueue, SequenceTheorems, TLAPS

\* An execution that is under way has a task whose job exists, and has read
\* an attemptsMade that is not newer than the job's.
LEMMA RunnerFacts ==
  ASSUME TypeOK, IdleInv, LockInv, NEW s \in Slot, pc[s] # "idle"
  PROVE  /\ current[s] \in Task
         /\ job[current[s]] # "none"
         /\ made[s] <= attemptsMade[current[s]]
BY QueueAssumption DEF TypeOK, IdleInv, LockInv

\* The execution of an undisturbed task is the only one and holds the lock.
LEMMA SoleRunner ==
  ASSUME TypeOK, IdleInv, LockInv, SoleRunInv, NEW s \in Slot,
         pc[s] # "idle", current[s] \notin disturbed
  PROVE  /\ SoleRun(s)
         /\ lock[current[s]] = s
         /\ job[current[s]] = "active"
         /\ \A r \in Slot : current[r] = current[s] => r = s
BY RunnerFacts, QueueAssumption DEF TypeOK, LockInv, SoleRunInv, SoleRun

\* An execution that is under way has a task.
LEMMA RunnerTask ==
  ASSUME TypeOK, IdleInv, NEW s \in Slot, pc[s] # "idle"
  PROVE  current[s] \in Task
BY QueueAssumption DEF TypeOK, IdleInv

-----------------------------------------------------------------------------
(* What the writing steps of process do, point by point.                   *)

Others(s) ==
  /\ \A r \in Slot : r # s => pc'[r] = pc[r]
  /\ \A u \in Task : u # current[s] => row'[u] = row[u]
  /\ disturbed \subseteq disturbed'
  /\ UNCHANGED <<enqueuing, job, attemptsMade, stalls, lock, current, made>>

Rejected(s) ==
  /\ row'[current[s]] = row[current[s]]
  /\ current[s] \in disturbed'

MarkRunningEffect(s) ==
  /\ Others(s) /\ UNCHANGED effects /\ current[s] \in Task
  /\ pc[s] = "picked"
  /\ \/ pc'[s] = "handling" /\ row'[current[s]] = "running"
     \/ pc'[s] = "thrown" /\ Rejected(s)

\* MarkRunning does what MarkRunningEffect says.
LEMMA MarkRunningFacts ==
  ASSUME TypeOK, IdleInv, NEW s \in Slot, MarkRunning(s)
  PROVE  MarkRunningEffect(s)
<1>1. current[s] \in Task
  BY RunnerTask DEF MarkRunning
<1>2. QED
  BY <1>1 DEF MarkRunningEffect, MarkRunning, Others, Rejected, Goto,
       WriteRow, WriteRejected,
              ProcessFrame, queueVars, TypeOK

HandlerReturnsEffect(s) ==
  /\ Others(s) /\ UNCHANGED row /\ current[s] \in Task
  /\ pc[s] = "handling" /\ pc'[s] = "handled"
  /\ effects'[current[s]] = effects[current[s]] + 1
  /\ \A u \in Task : u # current[s] => effects'[u] = effects[u]

\* HandlerReturns does what HandlerReturnsEffect says.
LEMMA HandlerReturnsFacts ==
  ASSUME TypeOK, IdleInv, NEW s \in Slot, HandlerReturns(s)
  PROVE  HandlerReturnsEffect(s)
<1>1. current[s] \in Task
  BY RunnerTask DEF HandlerReturns
<1>2. QED
  BY <1>1 DEF HandlerReturnsEffect, HandlerReturns, Others, Goto,
       ProcessFrame, queueVars, TypeOK

MarkSucceededEffect(s) ==
  /\ Others(s) /\ UNCHANGED effects /\ current[s] \in Task
  /\ pc[s] = "handled"
  /\ \/ /\ row'[current[s]] = "succeeded"
        /\ pc'[s] = "pruning" => current[s] \in BackupTask
        /\ pc'[s] \in {"pruning", "returned"}
     \/ pc'[s] = "caught" /\ Rejected(s)

\* MarkSucceeded does what MarkSucceededEffect says.
LEMMA MarkSucceededFacts ==
  ASSUME TypeOK, IdleInv, NEW s \in Slot, MarkSucceeded(s)
  PROVE  MarkSucceededEffect(s)
<1>1. current[s] \in Task
  BY RunnerTask DEF MarkSucceeded
<1>2. QED
  BY <1>1 DEF MarkSucceededEffect, MarkSucceeded, PrunesAfter, Others,
       Rejected, Goto, WriteRow, WriteRejected,
              ProcessFrame, queueVars, TypeOK

CatchBlockEffect(s) ==
  /\ Others(s) /\ UNCHANGED effects /\ current[s] \in Task
  /\ pc[s] = "caught" /\ pc'[s] = "thrown"
  /\ \/ IsLastAttempt(s) /\ row'[current[s]] = "failed"
     \/ IsLastAttempt(s) /\ Rejected(s)
     \/ ~IsLastAttempt(s) /\ UNCHANGED row

\* CatchBlock does what CatchBlockEffect says.
LEMMA CatchBlockFacts ==
  ASSUME TypeOK, IdleInv, NEW s \in Slot, CatchBlock(s)
  PROVE  CatchBlockEffect(s)
<1>1. current[s] \in Task
  BY RunnerTask DEF CatchBlock
<1>2. QED
  BY <1>1 DEF CatchBlockEffect, CatchBlock, Others, Rejected, Goto, WriteRow,
       WriteRejected,
              ProcessFrame, queueVars, TypeOK

JobFailedEffect(s) ==
  /\ current[s] \in Task
  /\ pc[s] = "thrown" /\ HoldsLock(s)
  /\ pc'[s] = "idle" /\ current'[s] = NoTask /\ made'[s] = 0
  /\ \A r \in Slot : r # s =>
       pc'[r] = pc[r] /\ current'[r] = current[r] /\ made'[r] = made[r]
  /\ \A u \in Task : u # current[s] =>
       /\ job'[u] = job[u] /\ lock'[u] = lock[u]
       /\ attemptsMade'[u] = attemptsMade[u]
  /\ attemptsMade'[current[s]] = attemptsMade[current[s]] + 1
  /\ lock'[current[s]] = NoSlot
  /\ IsLastAttempt(s) => job'[current[s]] = "failed"
  /\ ~IsLastAttempt(s) => job'[current[s]] = "delayed"
  /\ UNCHANGED <<row, enqueuing, stalls, picks, effects, disturbed>>

\* JobFailed does what JobFailedEffect says.
LEMMA JobFailedFacts ==
  ASSUME TypeOK, IdleInv, NEW s \in Slot, JobFailed(s)
  PROVE  JobFailedEffect(s)
<1>1. current[s] \in Task
  BY RunnerTask DEF JobFailed
<1>2. Retried(s) <=> ~IsLastAttempt(s)
  BY QueueAssumption DEF TypeOK, IsLastAttempt, Retried
<1>3. QED
  BY <1>1, <1>2 DEF JobFailedEffect, JobFailed, Release, HoldsLock, bootVars,
       history, TypeOK

-----------------------------------------------------------------------------
(* The conjuncts of the invariant.                                         *)

\* Every step of the queue, the worker and process keeps the types.
LEMMA TypeOKStep ==
  ASSUME TypeOK, IdleInv, [Next]_vars
  PROVE  TypeOK'
<1>1. ASSUME RegisterHandler PROVE TypeOK'
  BY <1>1, QueueAssumption, HeadTailProperties DEF TypeOK, RowState, JobState,
       Pc, RegisterHandler, queueVars, runVars, history
<1>2. ASSUME NEW t \in Task, CreateRow(t) PROVE TypeOK'
  BY <1>2, QueueAssumption DEF TypeOK, RowState, JobState, Pc, CreateRow,
       InitialRowState, queueVars, bootVars, runVars, history
<1>3. ASSUME NEW t \in Task, AddJob(t) PROVE TypeOK'
  BY <1>3, QueueAssumption DEF TypeOK, RowState, JobState, Pc, AddJob,
       bootVars, runVars, history
<1>4. ASSUME NEW t \in Task, AddJobFails(t) PROVE TypeOK'
  BY <1>4, QueueAssumption DEF TypeOK, RowState, JobState, Pc, AddJobFails,
       queueVars, bootVars, runVars, history
<1>5. ASSUME NEW t \in Task, BackoffElapsed(t) PROVE TypeOK'
  BY <1>5, QueueAssumption DEF TypeOK, RowState, JobState, Pc, BackoffElapsed,
       bootVars, runVars, history
<1>6. ASSUME NEW t \in Task, Stall(t) PROVE TypeOK'
  BY <1>6, QueueAssumption DEF TypeOK, RowState, JobState, Pc, Stall,
       Stallable, bootVars, runVars, history
<1>7. ASSUME NEW s \in Slot, NEW t \in Task, Pick(s, t) PROVE TypeOK'
  BY <1>7, QueueAssumption DEF TypeOK, RowState, JobState, Pc, Pick, bootVars
<1>8. ASSUME NEW s \in Slot, NoHandlerYet(s) PROVE TypeOK'
  <2>1. current[s] \in Task
    BY <1>8, RunnerTask DEF NoHandlerYet
  <2>2. QED
    BY <1>8, <2>1, QueueAssumption DEF NoHandlerYet, Goto, ProcessFrame,
         queueVars, bootVars, TypeOK, RowState, JobState, Pc
<1>9. ASSUME NEW s \in Slot, MarkRunning(s) PROVE TypeOK'
  <2>1. current[s] \in Task
    BY <1>9, RunnerTask DEF MarkRunning
  <2>2. row' \in [Task -> RowState]
    BY <1>9, <2>1 DEF MarkRunning, WriteRow, WriteRejected, TypeOK, RowState
  <2>3. pc' \in [Slot -> Pc]
    BY <1>9 DEF MarkRunning, Goto, TypeOK, Pc
  <2>4. disturbed' \subseteq Task /\ dbFaults' \in Nat
    BY <1>9, <2>1 DEF MarkRunning, WriteRow, WriteRejected, TypeOK
  <2>5. QED
    BY <1>9, <2>2, <2>3, <2>4 DEF MarkRunning, ProcessFrame, queueVars,
         bootVars, TypeOK
<1>10. ASSUME NEW s \in Slot, HandlerReturns(s) PROVE TypeOK'
  <2>1. current[s] \in Task
    BY <1>10, RunnerTask DEF HandlerReturns
  <2>2. pc' \in [Slot -> Pc]
    BY <1>10 DEF HandlerReturns, Goto, TypeOK, Pc
  <2>3. effects' \in [Task -> Nat]
    BY <1>10, <2>1 DEF HandlerReturns, TypeOK
  <2>4. QED
    BY <1>10, <2>2, <2>3 DEF HandlerReturns, ProcessFrame, queueVars, bootVars,
         TypeOK
<1>11. ASSUME NEW s \in Slot, HandlerThrows(s) PROVE TypeOK'
  BY <1>11, QueueAssumption DEF TypeOK, RowState, JobState, Pc, HandlerThrows,
       Goto, ProcessFrame, queueVars, bootVars
<1>12. ASSUME NEW s \in Slot, MarkSucceeded(s) PROVE TypeOK'
  <2>1. current[s] \in Task
    BY <1>12, RunnerTask DEF MarkSucceeded
  <2>2. row' \in [Task -> RowState]
    BY <1>12, <2>1 DEF MarkSucceeded, WriteRow, WriteRejected, TypeOK, RowState
  <2>3. pc' \in [Slot -> Pc]
    BY <1>12 DEF MarkSucceeded, Goto, TypeOK, Pc
  <2>4. disturbed' \subseteq Task /\ dbFaults' \in Nat
    BY <1>12, <2>1 DEF MarkSucceeded, WriteRow, WriteRejected, TypeOK
  <2>5. QED
    BY <1>12, <2>2, <2>3, <2>4 DEF MarkSucceeded, ProcessFrame, queueVars,
         bootVars, TypeOK
<1>13. ASSUME NEW s \in Slot, PruneBackups(s) PROVE TypeOK'
  BY <1>13, QueueAssumption DEF TypeOK, RowState, JobState, Pc, PruneBackups,
       Goto, ProcessFrame, queueVars, bootVars
<1>14. ASSUME NEW s \in Slot, CatchBlock(s) PROVE TypeOK'
  <2>1. current[s] \in Task
    BY <1>14, RunnerTask DEF CatchBlock
  <2>2. row' \in [Task -> RowState]
    BY <1>14, <2>1 DEF CatchBlock, WriteRow, WriteRejected, TypeOK, RowState
  <2>3. pc' \in [Slot -> Pc]
    BY <1>14 DEF CatchBlock, Goto, TypeOK, Pc
  <2>4. disturbed' \subseteq Task /\ dbFaults' \in Nat
    BY <1>14, <2>1 DEF CatchBlock, WriteRow, WriteRejected, TypeOK
  <2>5. QED
    BY <1>14, <2>2, <2>3, <2>4 DEF CatchBlock, ProcessFrame, queueVars,
         bootVars, TypeOK
<1>15. ASSUME NEW s \in Slot, JobCompleted(s) PROVE TypeOK'
  BY <1>15, QueueAssumption DEF TypeOK, RowState, JobState, Pc, JobCompleted,
       Release, HoldsLock, bootVars, history
<1>16. ASSUME NEW s \in Slot, JobFailed(s) PROVE TypeOK'
  <2>1. current[s] \in Task
    BY <1>16, RunnerTask DEF JobFailed
  <2>2. QED
    BY <1>16, <2>1, QueueAssumption, SMTT(30) DEF JobFailed, Release, HoldsLock,
         Retried, bootVars, history, TypeOK, RowState, JobState, Pc
<1>17. ASSUME NEW s \in Slot, ResultDropped(s) PROVE TypeOK'
  BY <1>17, QueueAssumption DEF TypeOK, RowState, JobState, Pc, ResultDropped,
       Release, HoldsLock, bootVars, history
<1>18. ASSUME Crash PROVE TypeOK'
  BY <1>18, QueueAssumption DEF TypeOK, RowState, JobState, Pc, Crash, history
<1>19. CASE UNCHANGED vars
  BY <1>19 DEF TypeOK, RowState, JobState, Pc, vars, queueVars, bootVars,
       runVars, history
<1> QED
  BY <1>1, <1>2, <1>3, <1>4, <1>5, <1>6, <1>7, <1>8, <1>9, <1>10, <1>11,
       <1>12, <1>13, <1>14, <1>15, <1>16, <1>17, <1>18, <1>19 DEF Next,
       Process

\* An execution gets its task when it starts and loses it when it ends.
LEMMA IdleInvStep ==
  ASSUME TypeOK, IdleInv, [Next]_vars
  PROVE  IdleInv'
<1>1. ASSUME RegisterHandler PROVE IdleInv'
  BY <1>1, QueueAssumption DEF TypeOK, IdleInv, RegisterHandler, queueVars,
       runVars, history
<1>2. ASSUME NEW t \in Task, CreateRow(t) PROVE IdleInv'
  BY <1>2, QueueAssumption DEF TypeOK, IdleInv, CreateRow, InitialRowState,
       queueVars, bootVars, runVars, history
<1>3. ASSUME NEW t \in Task, AddJob(t) PROVE IdleInv'
  BY <1>3, QueueAssumption DEF TypeOK, IdleInv, AddJob, bootVars, runVars,
       history
<1>4. ASSUME NEW t \in Task, AddJobFails(t) PROVE IdleInv'
  BY <1>4, QueueAssumption DEF TypeOK, IdleInv, AddJobFails, queueVars,
       bootVars, runVars, history
<1>5. ASSUME NEW t \in Task, BackoffElapsed(t) PROVE IdleInv'
  BY <1>5, QueueAssumption DEF TypeOK, IdleInv, BackoffElapsed, bootVars,
       runVars, history
<1>6. ASSUME NEW t \in Task, Stall(t) PROVE IdleInv'
  BY <1>6, QueueAssumption DEF TypeOK, IdleInv, Stall, Stallable, bootVars,
       runVars, history
<1>7. ASSUME NEW s \in Slot, NEW t \in Task, Pick(s, t) PROVE IdleInv'
  BY <1>7, QueueAssumption DEF TypeOK, IdleInv, Pick, bootVars
<1>8. ASSUME NEW s \in Slot, NoHandlerYet(s) PROVE IdleInv'
  BY <1>8, QueueAssumption DEF TypeOK, IdleInv, NoHandlerYet, Goto,
       ProcessFrame, queueVars, bootVars
<1>9. ASSUME NEW s \in Slot, MarkRunning(s) PROVE IdleInv'
  BY <1>9, QueueAssumption DEF TypeOK, IdleInv, MarkRunning, Goto,
       ProcessFrame, WriteRow, WriteRejected, queueVars, bootVars
<1>10. ASSUME NEW s \in Slot, HandlerReturns(s) PROVE IdleInv'
  BY <1>10, QueueAssumption DEF TypeOK, IdleInv, HandlerReturns, Goto,
       ProcessFrame, queueVars, bootVars
<1>11. ASSUME NEW s \in Slot, HandlerThrows(s) PROVE IdleInv'
  BY <1>11, QueueAssumption DEF TypeOK, IdleInv, HandlerThrows, Goto,
       ProcessFrame, queueVars, bootVars
<1>12. ASSUME NEW s \in Slot, MarkSucceeded(s) PROVE IdleInv'
  BY <1>12, QueueAssumption DEF TypeOK, IdleInv, MarkSucceeded, Goto,
       ProcessFrame, WriteRow, WriteRejected, PrunesAfter, queueVars, bootVars
<1>13. ASSUME NEW s \in Slot, PruneBackups(s) PROVE IdleInv'
  BY <1>13, QueueAssumption DEF TypeOK, IdleInv, PruneBackups, Goto,
       ProcessFrame, queueVars, bootVars
<1>14. ASSUME NEW s \in Slot, CatchBlock(s) PROVE IdleInv'
  BY <1>14, QueueAssumption DEF TypeOK, IdleInv, CatchBlock, Goto,
       ProcessFrame, WriteRow, WriteRejected, IsLastAttempt, queueVars,
       bootVars
<1>15. ASSUME NEW s \in Slot, JobCompleted(s) PROVE IdleInv'
  BY <1>15, QueueAssumption DEF TypeOK, IdleInv, JobCompleted, Release,
       HoldsLock, bootVars, history
<1>16. ASSUME NEW s \in Slot, JobFailed(s) PROVE IdleInv'
  BY <1>16, QueueAssumption DEF TypeOK, IdleInv, JobFailed, Release,
       HoldsLock, Retried, bootVars, history
<1>17. ASSUME NEW s \in Slot, ResultDropped(s) PROVE IdleInv'
  BY <1>17, QueueAssumption DEF TypeOK, IdleInv, ResultDropped, Release,
       HoldsLock, bootVars, history
<1>18. ASSUME Crash PROVE IdleInv'
  BY <1>18, QueueAssumption DEF TypeOK, IdleInv, Crash, history
<1>19. CASE UNCHANGED vars
  BY <1>19 DEF TypeOK, IdleInv, vars, queueVars, bootVars, runVars, history
<1> QED
  BY <1>1, <1>2, <1>3, <1>4, <1>5, <1>6, <1>7, <1>8, <1>9, <1>10, <1>11,
       <1>12, <1>13, <1>14, <1>15, <1>16, <1>17, <1>18, <1>19 DEF Next,
       Process

\* Locks are taken with the job and given back with it; attemptsMade grows
\* only under the lock, so its holder's copy stays exact.
LEMMA LockInvStep ==
  ASSUME TypeOK, IdleInv, LockInv, EnqueueInv, [Next]_vars
  PROVE  LockInv'
<1>1. ASSUME RegisterHandler PROVE LockInv'
  BY <1>1, QueueAssumption DEF TypeOK, IdleInv, LockInv, EnqueueInv,
       RegisterHandler, queueVars, runVars, history
<1>2. ASSUME NEW t \in Task, CreateRow(t) PROVE LockInv'
  BY <1>2, QueueAssumption DEF TypeOK, IdleInv, LockInv, EnqueueInv,
       CreateRow, InitialRowState, queueVars, bootVars, runVars, history
<1>3. ASSUME NEW t \in Task, AddJob(t) PROVE LockInv'
  BY <1>3, QueueAssumption DEF TypeOK, IdleInv, LockInv, EnqueueInv, AddJob,
       bootVars, runVars, history
<1>4. ASSUME NEW t \in Task, AddJobFails(t) PROVE LockInv'
  BY <1>4, QueueAssumption DEF TypeOK, IdleInv, LockInv, EnqueueInv,
       AddJobFails, queueVars, bootVars, runVars, history
<1>5. ASSUME NEW t \in Task, BackoffElapsed(t) PROVE LockInv'
  BY <1>5, QueueAssumption DEF TypeOK, IdleInv, LockInv, EnqueueInv,
       BackoffElapsed, bootVars, runVars, history
<1>6. ASSUME NEW t \in Task, Stall(t) PROVE LockInv'
  BY <1>6, QueueAssumption DEF TypeOK, IdleInv, LockInv, EnqueueInv, Stall,
       Stallable, bootVars, runVars, history
<1>7. ASSUME NEW s \in Slot, NEW t \in Task, Pick(s, t) PROVE LockInv'
  BY <1>7, QueueAssumption DEF TypeOK, IdleInv, LockInv, EnqueueInv, Pick,
       bootVars
<1>8. ASSUME NEW s \in Slot, NoHandlerYet(s) PROVE LockInv'
  BY <1>8, QueueAssumption DEF TypeOK, IdleInv, LockInv, EnqueueInv,
       NoHandlerYet, Goto, ProcessFrame, queueVars, bootVars
<1>9. ASSUME NEW s \in Slot, MarkRunning(s) PROVE LockInv'
  BY <1>9, QueueAssumption DEF TypeOK, IdleInv, LockInv, EnqueueInv,
       MarkRunning, Goto, ProcessFrame, WriteRow, WriteRejected, queueVars,
       bootVars
<1>10. ASSUME NEW s \in Slot, HandlerReturns(s) PROVE LockInv'
  BY <1>10, QueueAssumption DEF TypeOK, IdleInv, LockInv, EnqueueInv,
       HandlerReturns, Goto, ProcessFrame, queueVars, bootVars
<1>11. ASSUME NEW s \in Slot, HandlerThrows(s) PROVE LockInv'
  BY <1>11, QueueAssumption DEF TypeOK, IdleInv, LockInv, EnqueueInv,
       HandlerThrows, Goto, ProcessFrame, queueVars, bootVars
<1>12. ASSUME NEW s \in Slot, MarkSucceeded(s) PROVE LockInv'
  BY <1>12, QueueAssumption DEF TypeOK, IdleInv, LockInv, EnqueueInv,
       MarkSucceeded, Goto, ProcessFrame, WriteRow, WriteRejected,
       PrunesAfter, queueVars, bootVars
<1>13. ASSUME NEW s \in Slot, PruneBackups(s) PROVE LockInv'
  BY <1>13, QueueAssumption DEF TypeOK, IdleInv, LockInv, EnqueueInv,
       PruneBackups, Goto, ProcessFrame, queueVars, bootVars
<1>14. ASSUME NEW s \in Slot, CatchBlock(s) PROVE LockInv'
  BY <1>14, QueueAssumption DEF TypeOK, IdleInv, LockInv, EnqueueInv,
       CatchBlock, Goto, ProcessFrame, WriteRow, WriteRejected, IsLastAttempt,
       queueVars, bootVars
<1>15. ASSUME NEW s \in Slot, JobCompleted(s) PROVE LockInv'
  BY <1>15, QueueAssumption, SMTT(30) DEF TypeOK, IdleInv, LockInv, EnqueueInv,
       JobCompleted, Release, HoldsLock, bootVars, history
<1>16. ASSUME NEW s \in Slot, JobFailed(s) PROVE LockInv'
  <2>1. JobFailedEffect(s)
    BY <1>16, JobFailedFacts
  <2>2. ASSUME NEW u \in Task, lock'[u] # NoSlot
        PROVE  /\ job'[u] = "active"
               /\ current'[lock'[u]] = u
               /\ made'[lock'[u]] = attemptsMade'[u]
    <3>1. u # current[s] /\ lock'[u] = lock[u] /\ lock[u] \in Slot
      BY <2>1, <2>2 DEF JobFailedEffect, TypeOK
    <3>2. current[lock[u]] = u /\ made[lock[u]] = attemptsMade[u] /\ job[u] = "active"
      BY <2>2, <3>1 DEF LockInv
    <3>3. lock[u] # s
      BY <3>1, <3>2
    <3>4. QED
      BY <2>1, <3>1, <3>2, <3>3 DEF JobFailedEffect
  <2>3. ASSUME NEW r \in Slot, current'[r] # NoTask
        PROVE  made'[r] <= attemptsMade'[current'[r]] /\ job'[current'[r]] # "none"
    <3>1. r # s /\ current'[r] = current[r] /\ made'[r] = made[r] /\ current[r] \in Task
      BY <2>1, <2>3 DEF JobFailedEffect, TypeOK
    <3>2. made[r] <= attemptsMade[current[r]] /\ job[current[r]] # "none"
      BY <3>1, QueueAssumption DEF LockInv
    <3>3. CASE current[r] = current[s]
      BY <2>1, <3>1, <3>2, <3>3 DEF JobFailedEffect, TypeOK
    <3>4. CASE current[r] # current[s]
      BY <2>1, <3>1, <3>2, <3>4 DEF JobFailedEffect
    <3>5. QED
      BY <3>3, <3>4
  <2>4. QED
    BY <2>2, <2>3 DEF LockInv
<1>17. ASSUME NEW s \in Slot, ResultDropped(s) PROVE LockInv'
  BY <1>17, QueueAssumption DEF TypeOK, IdleInv, LockInv, EnqueueInv,
       ResultDropped, Release, HoldsLock, bootVars, history
<1>18. ASSUME Crash PROVE LockInv'
  BY <1>18, QueueAssumption DEF TypeOK, IdleInv, LockInv, EnqueueInv, Crash,
       history
<1>19. CASE UNCHANGED vars
  BY <1>19 DEF TypeOK, IdleInv, LockInv, EnqueueInv, vars, queueVars,
       bootVars, runVars, history
<1> QED
  BY <1>1, <1>2, <1>3, <1>4, <1>5, <1>6, <1>7, <1>8, <1>9, <1>10, <1>11,
       <1>12, <1>13, <1>14, <1>15, <1>16, <1>17, <1>18, <1>19 DEF Next,
       Process

\* The budget of picks: attempts and recoveries pay for them.
LEMMA CountInvStep ==
  ASSUME TypeOK, IdleInv, LockInv, EnqueueInv, CountInv, [Next]_vars
  PROVE  CountInv'
<1>1. ASSUME RegisterHandler PROVE CountInv'
  BY <1>1, QueueAssumption DEF TypeOK, IdleInv, LockInv, EnqueueInv, CountInv,
       CountOf, RegisterHandler, queueVars, runVars, history
<1>2. ASSUME NEW t \in Task, CreateRow(t) PROVE CountInv'
  BY <1>2, QueueAssumption DEF TypeOK, IdleInv, LockInv, EnqueueInv, CountInv,
       CountOf, CreateRow, InitialRowState, queueVars, bootVars, runVars,
       history
<1>3. ASSUME NEW t \in Task, AddJob(t) PROVE CountInv'
  BY <1>3, QueueAssumption DEF TypeOK, IdleInv, LockInv, EnqueueInv, CountInv,
       CountOf, AddJob, bootVars, runVars, history
<1>4. ASSUME NEW t \in Task, AddJobFails(t) PROVE CountInv'
  BY <1>4, QueueAssumption DEF TypeOK, IdleInv, LockInv, EnqueueInv, CountInv,
       CountOf, AddJobFails, queueVars, bootVars, runVars, history
<1>5. ASSUME NEW t \in Task, BackoffElapsed(t) PROVE CountInv'
  BY <1>5, QueueAssumption DEF TypeOK, IdleInv, LockInv, EnqueueInv, CountInv,
       CountOf, BackoffElapsed, bootVars, runVars, history
<1>6. ASSUME NEW t \in Task, Stall(t) PROVE CountInv'
  BY <1>6, QueueAssumption, SMTT(30) DEF TypeOK, IdleInv, LockInv, EnqueueInv, CountInv,
       CountOf, Stall, Stallable, bootVars, runVars, history
<1>7. ASSUME NEW s \in Slot, NEW t \in Task, Pick(s, t) PROVE CountInv'
  BY <1>7, QueueAssumption DEF TypeOK, IdleInv, LockInv, EnqueueInv, CountInv,
       CountOf, Pick, bootVars
<1>8. ASSUME NEW s \in Slot, NoHandlerYet(s) PROVE CountInv'
  BY <1>8, QueueAssumption DEF TypeOK, IdleInv, LockInv, EnqueueInv, CountInv,
       CountOf, NoHandlerYet, Goto, ProcessFrame, queueVars, bootVars
<1>9. ASSUME NEW s \in Slot, MarkRunning(s) PROVE CountInv'
  BY <1>9, QueueAssumption DEF TypeOK, IdleInv, LockInv, EnqueueInv, CountInv,
       CountOf, MarkRunning, Goto, ProcessFrame, WriteRow, WriteRejected,
       queueVars, bootVars
<1>10. ASSUME NEW s \in Slot, HandlerReturns(s) PROVE CountInv'
  BY <1>10, QueueAssumption DEF TypeOK, IdleInv, LockInv, EnqueueInv,
       CountInv, CountOf, HandlerReturns, Goto, ProcessFrame, queueVars,
       bootVars
<1>11. ASSUME NEW s \in Slot, HandlerThrows(s) PROVE CountInv'
  BY <1>11, QueueAssumption DEF TypeOK, IdleInv, LockInv, EnqueueInv,
       CountInv, CountOf, HandlerThrows, Goto, ProcessFrame, queueVars,
       bootVars
<1>12. ASSUME NEW s \in Slot, MarkSucceeded(s) PROVE CountInv'
  BY <1>12, QueueAssumption DEF TypeOK, IdleInv, LockInv, EnqueueInv,
       CountInv, CountOf, MarkSucceeded, Goto, ProcessFrame, WriteRow,
       WriteRejected, PrunesAfter, queueVars, bootVars
<1>13. ASSUME NEW s \in Slot, PruneBackups(s) PROVE CountInv'
  BY <1>13, QueueAssumption DEF TypeOK, IdleInv, LockInv, EnqueueInv,
       CountInv, CountOf, PruneBackups, Goto, ProcessFrame, queueVars,
       bootVars
<1>14. ASSUME NEW s \in Slot, CatchBlock(s) PROVE CountInv'
  BY <1>14, QueueAssumption DEF TypeOK, IdleInv, LockInv, EnqueueInv,
       CountInv, CountOf, CatchBlock, Goto, ProcessFrame, WriteRow,
       WriteRejected, IsLastAttempt, queueVars, bootVars
<1>15. ASSUME NEW s \in Slot, JobCompleted(s) PROVE CountInv'
  BY <1>15, QueueAssumption DEF TypeOK, IdleInv, LockInv, EnqueueInv,
       CountInv, CountOf, JobCompleted, Release, HoldsLock, bootVars, history
<1>16. ASSUME NEW s \in Slot, JobFailed(s) PROVE CountInv'
  <2>1. JobFailedEffect(s)
    BY <1>16, JobFailedFacts
  <2> SUFFICES ASSUME NEW u \in Task PROVE CountOf(u)'
    BY DEF CountInv
  <2>2. CountOf(u)
    BY DEF CountInv
  <2>3. CASE u = current[s]
    <3>1. attemptsMade[u] = made[s] /\ job[u] = "active"
      BY <2>1, <2>3, QueueAssumption DEF JobFailedEffect, HoldsLock, LockInv
    <3>2. /\ attemptsMade'[u] = attemptsMade[u] + 1
          /\ picks'[u] = picks[u] /\ stalls'[u] = stalls[u]
          /\ job'[u] \in {"delayed", "failed"}
          /\ job'[u] = "delayed" => ~(attemptsMade[u] + 1 >= Attempts)
      BY <2>1, <2>3, <3>1 DEF JobFailedEffect, IsLastAttempt
    <3>3. /\ attemptsMade[u] \in Nat /\ stalls[u] \in Nat /\ picks[u] \in Nat
          /\ Attempts \in Nat /\ MaxStalledCount \in Nat
      BY QueueAssumption DEF TypeOK
    <3>4. QED
      BY <2>2, <3>1, <3>2, <3>3 DEF CountOf
  <2>4. CASE u # current[s]
    BY <2>1, <2>2, <2>4 DEF JobFailedEffect, CountOf
  <2>5. QED
    BY <2>3, <2>4
<1>17. ASSUME NEW s \in Slot, ResultDropped(s) PROVE CountInv'
  BY <1>17, QueueAssumption DEF TypeOK, IdleInv, LockInv, EnqueueInv,
       CountInv, CountOf, ResultDropped, Release, HoldsLock, bootVars, history
<1>18. ASSUME Crash PROVE CountInv'
  BY <1>18, QueueAssumption DEF TypeOK, IdleInv, LockInv, EnqueueInv,
       CountInv, CountOf, Crash, history
<1>19. CASE UNCHANGED vars
  BY <1>19 DEF TypeOK, IdleInv, LockInv, EnqueueInv, CountInv, CountOf, vars,
       queueVars, bootVars, runVars, history
<1> QED
  BY <1>1, <1>2, <1>3, <1>4, <1>5, <1>6, <1>7, <1>8, <1>9, <1>10, <1>11,
       <1>12, <1>13, <1>14, <1>15, <1>16, <1>17, <1>18, <1>19 DEF Next,
       Process

\* enqueue writes the row before it adds the job.
LEMMA EnqueueInvStep ==
  ASSUME TypeOK, IdleInv, LockInv, EnqueueInv, [Next]_vars
  PROVE  EnqueueInv'
<1>1. ASSUME RegisterHandler PROVE EnqueueInv'
  BY <1>1, QueueAssumption DEF TypeOK, IdleInv, LockInv, EnqueueInv,
       RegisterHandler, queueVars, runVars, history
<1>2. ASSUME NEW t \in Task, CreateRow(t) PROVE EnqueueInv'
  BY <1>2, QueueAssumption DEF TypeOK, IdleInv, LockInv, EnqueueInv,
       CreateRow, InitialRowState, queueVars, bootVars, runVars, history
<1>3. ASSUME NEW t \in Task, AddJob(t) PROVE EnqueueInv'
  BY <1>3, QueueAssumption DEF TypeOK, IdleInv, LockInv, EnqueueInv, AddJob,
       bootVars, runVars, history
<1>4. ASSUME NEW t \in Task, AddJobFails(t) PROVE EnqueueInv'
  BY <1>4, QueueAssumption DEF TypeOK, IdleInv, LockInv, EnqueueInv,
       AddJobFails, queueVars, bootVars, runVars, history
<1>5. ASSUME NEW t \in Task, BackoffElapsed(t) PROVE EnqueueInv'
  BY <1>5, QueueAssumption DEF TypeOK, IdleInv, LockInv, EnqueueInv,
       BackoffElapsed, bootVars, runVars, history
<1>6. ASSUME NEW t \in Task, Stall(t) PROVE EnqueueInv'
  BY <1>6, QueueAssumption DEF TypeOK, IdleInv, LockInv, EnqueueInv, Stall,
       Stallable, bootVars, runVars, history
<1>7. ASSUME NEW s \in Slot, NEW t \in Task, Pick(s, t) PROVE EnqueueInv'
  BY <1>7, QueueAssumption DEF TypeOK, IdleInv, LockInv, EnqueueInv, Pick,
       bootVars
<1>8. ASSUME NEW s \in Slot, NoHandlerYet(s) PROVE EnqueueInv'
  BY <1>8, QueueAssumption DEF TypeOK, IdleInv, LockInv, EnqueueInv,
       NoHandlerYet, Goto, ProcessFrame, queueVars, bootVars
<1>9. ASSUME NEW s \in Slot, MarkRunning(s) PROVE EnqueueInv'
  BY <1>9, QueueAssumption DEF TypeOK, IdleInv, LockInv, EnqueueInv,
       MarkRunning, Goto, ProcessFrame, WriteRow, WriteRejected, queueVars,
       bootVars
<1>10. ASSUME NEW s \in Slot, HandlerReturns(s) PROVE EnqueueInv'
  BY <1>10, QueueAssumption DEF TypeOK, IdleInv, LockInv, EnqueueInv,
       HandlerReturns, Goto, ProcessFrame, queueVars, bootVars
<1>11. ASSUME NEW s \in Slot, HandlerThrows(s) PROVE EnqueueInv'
  BY <1>11, QueueAssumption DEF TypeOK, IdleInv, LockInv, EnqueueInv,
       HandlerThrows, Goto, ProcessFrame, queueVars, bootVars
<1>12. ASSUME NEW s \in Slot, MarkSucceeded(s) PROVE EnqueueInv'
  BY <1>12, QueueAssumption DEF TypeOK, IdleInv, LockInv, EnqueueInv,
       MarkSucceeded, Goto, ProcessFrame, WriteRow, WriteRejected,
       PrunesAfter, queueVars, bootVars
<1>13. ASSUME NEW s \in Slot, PruneBackups(s) PROVE EnqueueInv'
  BY <1>13, QueueAssumption DEF TypeOK, IdleInv, LockInv, EnqueueInv,
       PruneBackups, Goto, ProcessFrame, queueVars, bootVars
<1>14. ASSUME NEW s \in Slot, CatchBlock(s) PROVE EnqueueInv'
  BY <1>14, QueueAssumption DEF TypeOK, IdleInv, LockInv, EnqueueInv,
       CatchBlock, Goto, ProcessFrame, WriteRow, WriteRejected, IsLastAttempt,
       queueVars, bootVars
<1>15. ASSUME NEW s \in Slot, JobCompleted(s) PROVE EnqueueInv'
  BY <1>15, QueueAssumption DEF TypeOK, IdleInv, LockInv, EnqueueInv,
       JobCompleted, Release, HoldsLock, bootVars, history
<1>16. ASSUME NEW s \in Slot, JobFailed(s) PROVE EnqueueInv'
  BY <1>16, QueueAssumption DEF TypeOK, IdleInv, LockInv, EnqueueInv,
       JobFailed, Release, HoldsLock, Retried, bootVars, history
<1>17. ASSUME NEW s \in Slot, ResultDropped(s) PROVE EnqueueInv'
  BY <1>17, QueueAssumption DEF TypeOK, IdleInv, LockInv, EnqueueInv,
       ResultDropped, Release, HoldsLock, bootVars, history
<1>18. ASSUME Crash PROVE EnqueueInv'
  BY <1>18, QueueAssumption DEF TypeOK, IdleInv, LockInv, EnqueueInv, Crash,
       history
<1>19. CASE UNCHANGED vars
  BY <1>19 DEF TypeOK, IdleInv, LockInv, EnqueueInv, vars, queueVars,
       bootVars, runVars, history
<1> QED
  BY <1>1, <1>2, <1>3, <1>4, <1>5, <1>6, <1>7, <1>8, <1>9, <1>10, <1>11,
       <1>12, <1>13, <1>14, <1>15, <1>16, <1>17, <1>18, <1>19 DEF Next,
       Process

\* The row of an undisturbed task is written by one execution, in order.
LEMMA SoleRunInvStep ==
  ASSUME TypeOK, IdleInv, LockInv, EnqueueInv, SoleRunInv, RestingRowInv,
       [Next]_vars
  PROVE  SoleRunInv'
<1>1. ASSUME RegisterHandler PROVE SoleRunInv'
  BY <1>1, QueueAssumption DEF TypeOK, IdleInv, LockInv, EnqueueInv,
       SoleRunInv, SoleRun, OpenRow, IsLastAttempt, RestingRowInv,
       RegisterHandler, queueVars, runVars, history
<1>2. ASSUME NEW t \in Task, CreateRow(t) PROVE SoleRunInv'
  BY <1>2, QueueAssumption DEF TypeOK, IdleInv, LockInv, EnqueueInv,
       SoleRunInv, SoleRun, OpenRow, IsLastAttempt, RestingRowInv, CreateRow,
       InitialRowState, queueVars, bootVars, runVars, history
<1>3. ASSUME NEW t \in Task, AddJob(t) PROVE SoleRunInv'
  BY <1>3, QueueAssumption DEF TypeOK, IdleInv, LockInv, EnqueueInv,
       SoleRunInv, SoleRun, OpenRow, IsLastAttempt, RestingRowInv, AddJob,
       bootVars, runVars, history
<1>4. ASSUME NEW t \in Task, AddJobFails(t) PROVE SoleRunInv'
  BY <1>4, QueueAssumption DEF TypeOK, IdleInv, LockInv, EnqueueInv,
       SoleRunInv, SoleRun, OpenRow, IsLastAttempt, RestingRowInv,
       AddJobFails, queueVars, bootVars, runVars, history
<1>5. ASSUME NEW t \in Task, BackoffElapsed(t) PROVE SoleRunInv'
  BY <1>5, QueueAssumption DEF TypeOK, IdleInv, LockInv, EnqueueInv,
       SoleRunInv, SoleRun, OpenRow, IsLastAttempt, RestingRowInv,
       BackoffElapsed, bootVars, runVars, history
<1>6. ASSUME NEW t \in Task, Stall(t) PROVE SoleRunInv'
  BY <1>6, QueueAssumption DEF TypeOK, IdleInv, LockInv, EnqueueInv,
       SoleRunInv, SoleRun, OpenRow, IsLastAttempt, RestingRowInv, Stall,
       Stallable, bootVars, runVars, history
<1>7. ASSUME NEW s \in Slot, NEW t \in Task, Pick(s, t) PROVE SoleRunInv'
  <2>1. ASSUME NEW r \in Slot, current'[r] \in Task \ disturbed', r # s
        PROVE  SoleRun(r)'
    <3>1. current'[r] = current[r] /\ disturbed' = disturbed
      BY <1>7, <2>1 DEF Pick, TypeOK
    <3>2. SoleRun(r)
      BY <2>1, <3>1 DEF SoleRunInv
    <3>3. job[current[r]] = "active"
      BY <2>1, <3>1, <3>2, QueueAssumption DEF SoleRun, LockInv
    <3>4. current[r] # t
      BY <1>7, <3>3 DEF Pick
    <3>5. QED
      BY <1>7, <2>1, <3>1, <3>2, <3>4 DEF Pick, SoleRun, OpenRow,
           IsLastAttempt, TypeOK
  <2>2. ASSUME t \notin disturbed PROVE SoleRun(s)'
    <3>1. OpenRow(t)
      BY <1>7, <2>2 DEF Pick, RestingRowInv
    <3>2. /\ OpenRow(t)' /\ current'[s] = t /\ lock'[t] = s /\ pc'[s] = "picked"
      BY <1>7, <3>1 DEF Pick, OpenRow, TypeOK
    <3>3. QED
      BY <3>2 DEF SoleRun, OpenRow
  <2>3. t \in disturbed => t \in disturbed'
    BY <1>7 DEF Pick
  <2>4. current'[s] = t
    BY <1>7 DEF Pick, TypeOK
  <2>5. QED
    BY <2>1, <2>2, <2>3, <2>4 DEF SoleRunInv
<1>8. ASSUME NEW s \in Slot, NoHandlerYet(s) PROVE SoleRunInv'
  BY <1>8, QueueAssumption DEF TypeOK, IdleInv, LockInv, EnqueueInv,
       SoleRunInv, SoleRun, OpenRow, IsLastAttempt, RestingRowInv,
       NoHandlerYet, Goto, ProcessFrame, queueVars, bootVars
<1>9. ASSUME NEW s \in Slot, MarkRunning(s) PROVE SoleRunInv'
  <2>1. MarkRunningEffect(s)
    BY <1>9, MarkRunningFacts
  <2>2. ASSUME NEW r \in Slot, current'[r] \in Task \ disturbed'
        PROVE  current[r] \notin disturbed /\ SoleRun(r)
    BY <2>1, <2>2 DEF MarkRunningEffect, Others, SoleRunInv
  <2>3. ASSUME NEW r \in Slot, current'[r] \in Task \ disturbed', r # s
        PROVE  SoleRun(r)'
    <3>1. current[r] # current[s]
      BY <2>1, <2>2, <2>3 DEF MarkRunningEffect, Others, SoleRun
    <3>2. QED
      BY <2>1, <2>2, <2>3, <3>1
         DEF MarkRunningEffect, Others, SoleRun, OpenRow, IsLastAttempt
  <2>4. ASSUME current'[s] \in Task \ disturbed' PROVE SoleRun(s)'
    BY <2>1, <2>2, <2>4
       DEF MarkRunningEffect, Others, Rejected, SoleRun, OpenRow, IsLastAttempt
  <2>5. QED
    BY <2>3, <2>4 DEF SoleRunInv
<1>10. ASSUME NEW s \in Slot, HandlerReturns(s) PROVE SoleRunInv'
  <2>1. HandlerReturnsEffect(s)
    BY <1>10, HandlerReturnsFacts
  <2>2. ASSUME NEW r \in Slot, current'[r] \in Task \ disturbed'
        PROVE  current[r] \notin disturbed /\ SoleRun(r)
    BY <2>1, <2>2 DEF HandlerReturnsEffect, Others, SoleRunInv
  <2>3. ASSUME NEW r \in Slot, current'[r] \in Task \ disturbed', r # s
        PROVE  SoleRun(r)'
    <3>1. current[r] # current[s]
      BY <2>1, <2>2, <2>3 DEF HandlerReturnsEffect, Others, SoleRun
    <3>2. QED
      BY <2>1, <2>2, <2>3, <3>1
         DEF HandlerReturnsEffect, Others, SoleRun, OpenRow, IsLastAttempt
  <2>4. ASSUME current'[s] \in Task \ disturbed' PROVE SoleRun(s)'
    BY <2>1, <2>2, <2>4
       DEF HandlerReturnsEffect, Others, Rejected, SoleRun, OpenRow, IsLastAttempt
  <2>5. QED
    BY <2>3, <2>4 DEF SoleRunInv
<1>11. ASSUME NEW s \in Slot, HandlerThrows(s) PROVE SoleRunInv'
  BY <1>11, QueueAssumption DEF TypeOK, IdleInv, LockInv, EnqueueInv,
       SoleRunInv, SoleRun, OpenRow, IsLastAttempt, RestingRowInv,
       HandlerThrows, Goto, ProcessFrame, queueVars, bootVars
<1>12. ASSUME NEW s \in Slot, MarkSucceeded(s) PROVE SoleRunInv'
  <2>1. MarkSucceededEffect(s)
    BY <1>12, MarkSucceededFacts
  <2>2. ASSUME NEW r \in Slot, current'[r] \in Task \ disturbed'
        PROVE  current[r] \notin disturbed /\ SoleRun(r)
    BY <2>1, <2>2 DEF MarkSucceededEffect, Others, SoleRunInv
  <2>3. ASSUME NEW r \in Slot, current'[r] \in Task \ disturbed', r # s
        PROVE  SoleRun(r)'
    <3>1. current[r] # current[s]
      BY <2>1, <2>2, <2>3 DEF MarkSucceededEffect, Others, SoleRun
    <3>2. QED
      BY <2>1, <2>2, <2>3, <3>1
         DEF MarkSucceededEffect, Others, SoleRun, OpenRow, IsLastAttempt
  <2>4. ASSUME current'[s] \in Task \ disturbed' PROVE SoleRun(s)'
    BY <2>1, <2>2, <2>4
       DEF MarkSucceededEffect, Others, Rejected, SoleRun, OpenRow, IsLastAttempt
  <2>5. QED
    BY <2>3, <2>4 DEF SoleRunInv
<1>13. ASSUME NEW s \in Slot, PruneBackups(s) PROVE SoleRunInv'
  BY <1>13, QueueAssumption DEF TypeOK, IdleInv, LockInv, EnqueueInv,
       SoleRunInv, SoleRun, OpenRow, IsLastAttempt, RestingRowInv,
       PruneBackups, Goto, ProcessFrame, queueVars, bootVars
<1>14. ASSUME NEW s \in Slot, CatchBlock(s) PROVE SoleRunInv'
  <2>1. CatchBlockEffect(s)
    BY <1>14, CatchBlockFacts
  <2>2. ASSUME NEW r \in Slot, current'[r] \in Task \ disturbed'
        PROVE  current[r] \notin disturbed /\ SoleRun(r)
    BY <2>1, <2>2 DEF CatchBlockEffect, Others, SoleRunInv
  <2>3. ASSUME NEW r \in Slot, current'[r] \in Task \ disturbed', r # s
        PROVE  SoleRun(r)'
    <3>1. current[r] # current[s]
      BY <2>1, <2>2, <2>3 DEF CatchBlockEffect, Others, SoleRun
    <3>2. QED
      BY <2>1, <2>2, <2>3, <3>1
         DEF CatchBlockEffect, Others, SoleRun, OpenRow, IsLastAttempt
  <2>4. ASSUME current'[s] \in Task \ disturbed' PROVE SoleRun(s)'
    BY <2>1, <2>2, <2>4
       DEF CatchBlockEffect, Others, Rejected, SoleRun, OpenRow, IsLastAttempt
  <2>5. QED
    BY <2>3, <2>4 DEF SoleRunInv
<1>15. ASSUME NEW s \in Slot, JobCompleted(s) PROVE SoleRunInv'
  BY <1>15, QueueAssumption DEF TypeOK, IdleInv, LockInv, EnqueueInv,
       SoleRunInv, SoleRun, OpenRow, IsLastAttempt, RestingRowInv,
       JobCompleted, Release, HoldsLock, bootVars, history
<1>16. ASSUME NEW s \in Slot, JobFailed(s) PROVE SoleRunInv'
  BY <1>16, QueueAssumption DEF TypeOK, IdleInv, LockInv, EnqueueInv,
       SoleRunInv, SoleRun, OpenRow, IsLastAttempt, RestingRowInv, JobFailed,
       Release, HoldsLock, Retried, bootVars, history
<1>17. ASSUME NEW s \in Slot, ResultDropped(s) PROVE SoleRunInv'
  BY <1>17, QueueAssumption DEF TypeOK, IdleInv, LockInv, EnqueueInv,
       SoleRunInv, SoleRun, OpenRow, IsLastAttempt, RestingRowInv,
       ResultDropped, Release, HoldsLock, bootVars, history
<1>18. ASSUME Crash PROVE SoleRunInv'
  BY <1>18, QueueAssumption DEF TypeOK, IdleInv, LockInv, EnqueueInv,
       SoleRunInv, SoleRun, OpenRow, IsLastAttempt, RestingRowInv, Crash,
       history
<1>19. CASE UNCHANGED vars
  BY <1>19 DEF TypeOK, IdleInv, LockInv, EnqueueInv, SoleRunInv, SoleRun,
       OpenRow, IsLastAttempt, RestingRowInv, vars, queueVars, bootVars,
       runVars, history
<1> QED
  BY <1>1, <1>2, <1>3, <1>4, <1>5, <1>6, <1>7, <1>8, <1>9, <1>10, <1>11,
       <1>12, <1>13, <1>14, <1>15, <1>16, <1>17, <1>18, <1>19 DEF Next,
       Process

\* A job goes back to the queue only with a row that may be retried.
LEMMA RestingRowInvStep ==
  ASSUME TypeOK, IdleInv, LockInv, EnqueueInv, SoleRunInv, RestingRowInv,
       [Next]_vars
  PROVE  RestingRowInv'
<1>1. ASSUME RegisterHandler PROVE RestingRowInv'
  BY <1>1, QueueAssumption DEF TypeOK, RestingRowInv, OpenRow, Terminal,
       RegisterHandler, queueVars, runVars, history
<1>2. ASSUME NEW t \in Task, CreateRow(t) PROVE RestingRowInv'
  BY <1>2, QueueAssumption DEF TypeOK, RestingRowInv, OpenRow, Terminal,
       CreateRow, InitialRowState, queueVars, bootVars, runVars, history,
       EnqueueInv, LockInv
<1>3. ASSUME NEW t \in Task, AddJob(t) PROVE RestingRowInv'
  BY <1>3, QueueAssumption DEF TypeOK, RestingRowInv, OpenRow, Terminal,
       AddJob, bootVars, runVars, history, EnqueueInv, LockInv
<1>4. ASSUME NEW t \in Task, AddJobFails(t) PROVE RestingRowInv'
  BY <1>4, QueueAssumption DEF TypeOK, RestingRowInv, OpenRow, Terminal,
       AddJobFails, queueVars, bootVars, runVars, history, EnqueueInv, LockInv
<1>5. ASSUME NEW t \in Task, BackoffElapsed(t) PROVE RestingRowInv'
  BY <1>5, QueueAssumption DEF TypeOK, RestingRowInv, OpenRow, Terminal,
       BackoffElapsed, bootVars, runVars, history, EnqueueInv, LockInv
<1>6. ASSUME NEW t \in Task, Stall(t) PROVE RestingRowInv'
  BY <1>6, QueueAssumption DEF TypeOK, RestingRowInv, OpenRow, Terminal,
       Stall, Stallable, bootVars, runVars, history, EnqueueInv, LockInv
<1>7. ASSUME NEW s \in Slot, NEW t \in Task, Pick(s, t) PROVE RestingRowInv'
  BY <1>7, QueueAssumption DEF TypeOK, RestingRowInv, OpenRow, Terminal, Pick,
       bootVars, EnqueueInv, LockInv
<1>8. ASSUME NEW s \in Slot, NoHandlerYet(s) PROVE RestingRowInv'
  BY <1>8, QueueAssumption, RunnerFacts, SoleRunner DEF TypeOK, RestingRowInv,
       OpenRow, Terminal, NoHandlerYet, Goto, ProcessFrame, queueVars,
       bootVars, SoleRun, IsLastAttempt
<1>9. ASSUME NEW s \in Slot, MarkRunning(s) PROVE RestingRowInv'
  <2>1. MarkRunningEffect(s)
    BY <1>9, MarkRunningFacts
  <2>2. current[s] \notin disturbed => SoleRun(s) /\ job[current[s]] = "active"
    BY <2>1, SoleRunner DEF MarkRunningEffect
  <2>3. QED
    BY <2>1, <2>2 DEF MarkRunningEffect, Others, Rejected, SoleRun, OpenRow,
         TypeOK, RestingRowInv, OpenRow, Terminal
<1>10. ASSUME NEW s \in Slot, HandlerReturns(s) PROVE RestingRowInv'
  <2>1. HandlerReturnsEffect(s)
    BY <1>10, HandlerReturnsFacts
  <2>2. current[s] \notin disturbed => SoleRun(s) /\ job[current[s]] = "active"
    BY <2>1, SoleRunner DEF HandlerReturnsEffect
  <2>3. QED
    BY <2>1, <2>2 DEF HandlerReturnsEffect, Others, Rejected, SoleRun,
         OpenRow, TypeOK, RestingRowInv, OpenRow, Terminal
<1>11. ASSUME NEW s \in Slot, HandlerThrows(s) PROVE RestingRowInv'
  BY <1>11, QueueAssumption, RunnerFacts, SoleRunner DEF TypeOK,
       RestingRowInv, OpenRow, Terminal, HandlerThrows, Goto, ProcessFrame,
       queueVars, bootVars, SoleRun, IsLastAttempt
<1>12. ASSUME NEW s \in Slot, MarkSucceeded(s) PROVE RestingRowInv'
  <2>1. MarkSucceededEffect(s)
    BY <1>12, MarkSucceededFacts
  <2>2. current[s] \notin disturbed => SoleRun(s) /\ job[current[s]] = "active"
    BY <2>1, SoleRunner DEF MarkSucceededEffect
  <2>3. QED
    BY <2>1, <2>2 DEF MarkSucceededEffect, Others, Rejected, SoleRun, OpenRow,
         TypeOK, RestingRowInv, OpenRow, Terminal
<1>13. ASSUME NEW s \in Slot, PruneBackups(s) PROVE RestingRowInv'
  BY <1>13, QueueAssumption, RunnerFacts, SoleRunner DEF TypeOK,
       RestingRowInv, OpenRow, Terminal, PruneBackups, Goto, ProcessFrame,
       queueVars, bootVars, SoleRun, IsLastAttempt
<1>14. ASSUME NEW s \in Slot, CatchBlock(s) PROVE RestingRowInv'
  <2>1. CatchBlockEffect(s)
    BY <1>14, CatchBlockFacts
  <2>2. current[s] \notin disturbed => SoleRun(s) /\ job[current[s]] = "active"
    BY <2>1, SoleRunner DEF CatchBlockEffect
  <2>3. QED
    BY <2>1, <2>2 DEF CatchBlockEffect, Others, Rejected, SoleRun, OpenRow,
         TypeOK, RestingRowInv, OpenRow, Terminal
<1>15. ASSUME NEW s \in Slot, JobCompleted(s) PROVE RestingRowInv'
  BY <1>15, QueueAssumption, RunnerFacts, SoleRunner DEF TypeOK,
       RestingRowInv, OpenRow, Terminal, JobCompleted, Release, HoldsLock,
       bootVars, history, SoleRun, IsLastAttempt
<1>16. ASSUME NEW s \in Slot, JobFailed(s) PROVE RestingRowInv'
  <2>1. JobFailedEffect(s)
    BY <1>16, JobFailedFacts
  <2>2. current[s] \notin disturbed => SoleRun(s)
    BY <2>1, SoleRunner DEF JobFailedEffect
  <2>3. QED
    BY <2>1, <2>2 DEF JobFailedEffect, SoleRun, OpenRow, TypeOK,
         RestingRowInv, OpenRow, Terminal
<1>17. ASSUME NEW s \in Slot, ResultDropped(s) PROVE RestingRowInv'
  BY <1>17, QueueAssumption, RunnerFacts, SoleRunner DEF TypeOK,
       RestingRowInv, OpenRow, Terminal, ResultDropped, Release, HoldsLock,
       bootVars, history, SoleRun, IsLastAttempt
<1>18. ASSUME Crash PROVE RestingRowInv'
  BY <1>18, QueueAssumption DEF TypeOK, RestingRowInv, OpenRow, Terminal,
       Crash, history, EnqueueInv, LockInv
<1>19. CASE UNCHANGED vars
  BY <1>19 DEF TypeOK, RestingRowInv, OpenRow, Terminal, vars, queueVars,
       bootVars, runVars, history
<1> QED
  BY <1>1, <1>2, <1>3, <1>4, <1>5, <1>6, <1>7, <1>8, <1>9, <1>10, <1>11,
       <1>12, <1>13, <1>14, <1>15, <1>16, <1>17, <1>18, <1>19 DEF Next,
       Process

\* A handler that has returned is not called again, prunes excepted.
LEMMA EffectInvStep ==
  ASSUME TypeOK, IdleInv, LockInv, EnqueueInv, SoleRunInv, EffectInv,
       [Next]_vars
  PROVE  EffectInv'
<1>1. ASSUME RegisterHandler PROVE EffectInv'
  BY <1>1, QueueAssumption DEF TypeOK, EffectInv, RegisterHandler, queueVars,
       runVars, history
<1>2. ASSUME NEW t \in Task, CreateRow(t) PROVE EffectInv'
  BY <1>2, QueueAssumption DEF TypeOK, EffectInv, CreateRow, InitialRowState,
       queueVars, bootVars, runVars, history, EnqueueInv, LockInv
<1>3. ASSUME NEW t \in Task, AddJob(t) PROVE EffectInv'
  BY <1>3, QueueAssumption DEF TypeOK, EffectInv, AddJob, bootVars, runVars,
       history, EnqueueInv, LockInv
<1>4. ASSUME NEW t \in Task, AddJobFails(t) PROVE EffectInv'
  BY <1>4, QueueAssumption DEF TypeOK, EffectInv, AddJobFails, queueVars,
       bootVars, runVars, history, EnqueueInv, LockInv
<1>5. ASSUME NEW t \in Task, BackoffElapsed(t) PROVE EffectInv'
  BY <1>5, QueueAssumption DEF TypeOK, EffectInv, BackoffElapsed, bootVars,
       runVars, history, EnqueueInv, LockInv
<1>6. ASSUME NEW t \in Task, Stall(t) PROVE EffectInv'
  BY <1>6, QueueAssumption, SMTT(30) DEF TypeOK, EffectInv, Stall, Stallable, bootVars,
       runVars, history, EnqueueInv, LockInv
<1>7. ASSUME NEW s \in Slot, NEW t \in Task, Pick(s, t) PROVE EffectInv'
  BY <1>7, QueueAssumption, SMTT(30) DEF TypeOK, EffectInv, Pick, bootVars, EnqueueInv,
       LockInv
<1>8. ASSUME NEW s \in Slot, NoHandlerYet(s) PROVE EffectInv'
  BY <1>8, QueueAssumption, RunnerFacts, SoleRunner, SMTT(30) DEF TypeOK, EffectInv,
       NoHandlerYet, Goto, ProcessFrame, queueVars, bootVars, SoleRun,
       OpenRow, IsLastAttempt
<1>9. ASSUME NEW s \in Slot, MarkRunning(s) PROVE EffectInv'
  <2>1. MarkRunningEffect(s)
    BY <1>9, MarkRunningFacts
  <2>2. current[s] \notin disturbed => SoleRun(s) /\ job[current[s]] = "active"
    BY <2>1, SoleRunner DEF MarkRunningEffect
  <2>3. \A r \in Slot : current[s] \notin disturbed /\ current[r] = current[s] => r = s
    BY <2>1, SoleRunner DEF MarkRunningEffect
  <2>4. QED
    BY <2>1, <2>2, <2>3 DEF MarkRunningEffect, Others, Rejected, SoleRun,
         OpenRow, TypeOK, EffectInv
<1>10. ASSUME NEW s \in Slot, HandlerReturns(s) PROVE EffectInv'
  <2>1. HandlerReturnsEffect(s)
    BY <1>10, HandlerReturnsFacts
  <2>2. current[s] \notin disturbed => SoleRun(s) /\ job[current[s]] = "active"
    BY <2>1, SoleRunner DEF HandlerReturnsEffect
  <2>3. \A r \in Slot : current[s] \notin disturbed /\ current[r] = current[s] => r = s
    BY <2>1, SoleRunner DEF HandlerReturnsEffect
  <2>4. ASSUME NEW u \in Task, u \notin disturbed', u \notin BackupTask
        PROVE  /\ job'[u] \in {"none", "waiting", "delayed"} => effects'[u] = 0
               /\ effects'[u] <= 1
               /\ row'[u] = "failed" => effects'[u] = 0
    <3>1. u \notin disturbed
      BY <2>1, <2>4 DEF HandlerReturnsEffect, Others
    <3>2. CASE u = current[s]
      <4>1. effects[u] = 0
        BY <2>1, <2>4, <3>1, <3>2 DEF HandlerReturnsEffect, EffectInv
      <4>2. effects'[u] = 1 /\ job'[u] = "active" /\ row'[u] = "running"
        BY <2>1, <2>2, <3>1, <3>2, <4>1 DEF HandlerReturnsEffect, Others,
             SoleRun
      <4>3. QED
        BY <4>2
    <3>3. CASE u # current[s]
      BY <2>1, <2>4, <3>1, <3>3 DEF HandlerReturnsEffect, Others, EffectInv
    <3>4. QED
      BY <3>2, <3>3
  <2>5. ASSUME NEW r \in Slot, current'[r] \in Task \ (disturbed' \union BackupTask),
               pc'[r] \in {"picked", "handling", "caught", "thrown"}
        PROVE  effects'[current'[r]] = 0
    <3>1. r # s /\ current'[r] = current[r] /\ pc'[r] = pc[r] /\ current[r] \notin disturbed
      BY <2>1, <2>5 DEF HandlerReturnsEffect, Others
    <3>2. current[r] # current[s]
      BY <2>3, <3>1
    <3>3. QED
      BY <2>1, <2>5, <3>1, <3>2 DEF HandlerReturnsEffect, EffectInv
  <2>6. QED
    BY <2>4, <2>5 DEF EffectInv
<1>11. ASSUME NEW s \in Slot, HandlerThrows(s) PROVE EffectInv'
  BY <1>11, QueueAssumption, RunnerFacts, SoleRunner DEF TypeOK, EffectInv,
       HandlerThrows, Goto, ProcessFrame, queueVars, bootVars, SoleRun,
       OpenRow, IsLastAttempt
<1>12. ASSUME NEW s \in Slot, MarkSucceeded(s) PROVE EffectInv'
  <2>1. MarkSucceededEffect(s)
    BY <1>12, MarkSucceededFacts
  <2>2. current[s] \notin disturbed => SoleRun(s) /\ job[current[s]] = "active"
    BY <2>1, SoleRunner DEF MarkSucceededEffect
  <2>3. \A r \in Slot : current[s] \notin disturbed /\ current[r] = current[s] => r = s
    BY <2>1, SoleRunner DEF MarkSucceededEffect
  <2>4. QED
    BY <2>1, <2>2, <2>3 DEF MarkSucceededEffect, Others, Rejected, SoleRun,
         OpenRow, TypeOK, EffectInv
<1>13. ASSUME NEW s \in Slot, PruneBackups(s) PROVE EffectInv'
  BY <1>13, QueueAssumption, RunnerFacts, SoleRunner DEF TypeOK, EffectInv,
       PruneBackups, Goto, ProcessFrame, queueVars, bootVars, SoleRun,
       OpenRow, IsLastAttempt
<1>14. ASSUME NEW s \in Slot, CatchBlock(s) PROVE EffectInv'
  <2>1. CatchBlockEffect(s)
    BY <1>14, CatchBlockFacts
  <2>2. current[s] \notin disturbed => SoleRun(s) /\ job[current[s]] = "active"
    BY <2>1, SoleRunner DEF CatchBlockEffect
  <2>3. \A r \in Slot : current[s] \notin disturbed /\ current[r] = current[s] => r = s
    BY <2>1, SoleRunner DEF CatchBlockEffect
  <2>4. QED
    BY <2>1, <2>2, <2>3 DEF CatchBlockEffect, Others, Rejected, SoleRun,
         OpenRow, TypeOK, EffectInv
<1>15. ASSUME NEW s \in Slot, JobCompleted(s) PROVE EffectInv'
  BY <1>15, QueueAssumption, RunnerFacts, SoleRunner DEF TypeOK, EffectInv,
       JobCompleted, Release, HoldsLock, bootVars, history, SoleRun, OpenRow,
       IsLastAttempt
<1>16. ASSUME NEW s \in Slot, JobFailed(s) PROVE EffectInv'
  BY <1>16, QueueAssumption, RunnerFacts, SoleRunner DEF TypeOK, EffectInv,
       JobFailed, Release, HoldsLock, Retried, bootVars, history, SoleRun,
       OpenRow, IsLastAttempt
<1>17. ASSUME NEW s \in Slot, ResultDropped(s) PROVE EffectInv'
  BY <1>17, QueueAssumption, RunnerFacts, SoleRunner DEF TypeOK, EffectInv,
       ResultDropped, Release, HoldsLock, bootVars, history, SoleRun, OpenRow,
       IsLastAttempt
<1>18. ASSUME Crash PROVE EffectInv'
  BY <1>18, QueueAssumption DEF TypeOK, EffectInv, Crash, history, EnqueueInv,
       LockInv
<1>19. CASE UNCHANGED vars
  BY <1>19 DEF TypeOK, EffectInv, vars, queueVars, bootVars, runVars, history
<1> QED
  BY <1>1, <1>2, <1>3, <1>4, <1>5, <1>6, <1>7, <1>8, <1>9, <1>10, <1>11,
       <1>12, <1>13, <1>14, <1>15, <1>16, <1>17, <1>18, <1>19 DEF Next,
       Process

\* "failed" is written by a last attempt only, and attemptsMade only grows.
LEMMA FailedOnlyAfterLastAttemptStep ==
  ASSUME TypeOK, IdleInv, LockInv, FailedOnlyAfterLastAttempt, [Next]_vars
  PROVE  FailedOnlyAfterLastAttempt'
<1>1. ASSUME RegisterHandler PROVE FailedOnlyAfterLastAttempt'
  BY <1>1, QueueAssumption DEF TypeOK, FailedOnlyAfterLastAttempt,
       RegisterHandler, queueVars, runVars, history
<1>2. ASSUME NEW t \in Task, CreateRow(t) PROVE FailedOnlyAfterLastAttempt'
  BY <1>2, QueueAssumption DEF TypeOK, FailedOnlyAfterLastAttempt, CreateRow,
       InitialRowState, queueVars, bootVars, runVars, history
<1>3. ASSUME NEW t \in Task, AddJob(t) PROVE FailedOnlyAfterLastAttempt'
  BY <1>3, QueueAssumption DEF TypeOK, FailedOnlyAfterLastAttempt, AddJob,
       bootVars, runVars, history
<1>4. ASSUME NEW t \in Task, AddJobFails(t) PROVE FailedOnlyAfterLastAttempt'
  BY <1>4, QueueAssumption DEF TypeOK, FailedOnlyAfterLastAttempt,
       AddJobFails, queueVars, bootVars, runVars, history
<1>5. ASSUME NEW t \in Task, BackoffElapsed(t)
      PROVE  FailedOnlyAfterLastAttempt'
  BY <1>5, QueueAssumption DEF TypeOK, FailedOnlyAfterLastAttempt,
       BackoffElapsed, bootVars, runVars, history
<1>6. ASSUME NEW t \in Task, Stall(t) PROVE FailedOnlyAfterLastAttempt'
  BY <1>6, QueueAssumption DEF TypeOK, FailedOnlyAfterLastAttempt, Stall,
       Stallable, bootVars, runVars, history
<1>7. ASSUME NEW s \in Slot, NEW t \in Task, Pick(s, t)
      PROVE  FailedOnlyAfterLastAttempt'
  BY <1>7, QueueAssumption DEF TypeOK, FailedOnlyAfterLastAttempt, Pick,
       bootVars
<1>8. ASSUME NEW s \in Slot, NoHandlerYet(s) PROVE FailedOnlyAfterLastAttempt'
  BY <1>8, QueueAssumption, RunnerFacts DEF TypeOK,
       FailedOnlyAfterLastAttempt, NoHandlerYet, Goto, ProcessFrame,
       queueVars, bootVars, IsLastAttempt
<1>9. ASSUME NEW s \in Slot, MarkRunning(s) PROVE FailedOnlyAfterLastAttempt'
  <2>1. MarkRunningEffect(s)
    BY <1>9, MarkRunningFacts
  <2>2. made[s] <= attemptsMade[current[s]]
    BY <2>1, RunnerFacts DEF MarkRunningEffect
  <2>3. QED
    BY <2>1, <2>2, QueueAssumption DEF MarkRunningEffect, Others, Rejected,
         IsLastAttempt, TypeOK, FailedOnlyAfterLastAttempt
<1>10. ASSUME NEW s \in Slot, HandlerReturns(s)
      PROVE  FailedOnlyAfterLastAttempt'
  <2>1. HandlerReturnsEffect(s)
    BY <1>10, HandlerReturnsFacts
  <2>2. made[s] <= attemptsMade[current[s]]
    BY <2>1, RunnerFacts DEF HandlerReturnsEffect
  <2>3. QED
    BY <2>1, <2>2, QueueAssumption DEF HandlerReturnsEffect, Others, Rejected,
         IsLastAttempt, TypeOK, FailedOnlyAfterLastAttempt
<1>11. ASSUME NEW s \in Slot, HandlerThrows(s)
      PROVE  FailedOnlyAfterLastAttempt'
  BY <1>11, QueueAssumption, RunnerFacts DEF TypeOK,
       FailedOnlyAfterLastAttempt, HandlerThrows, Goto, ProcessFrame,
       queueVars, bootVars, IsLastAttempt
<1>12. ASSUME NEW s \in Slot, MarkSucceeded(s)
      PROVE  FailedOnlyAfterLastAttempt'
  <2>1. MarkSucceededEffect(s)
    BY <1>12, MarkSucceededFacts
  <2>2. made[s] <= attemptsMade[current[s]]
    BY <2>1, RunnerFacts DEF MarkSucceededEffect
  <2>3. QED
    BY <2>1, <2>2, QueueAssumption DEF MarkSucceededEffect, Others, Rejected,
         IsLastAttempt, TypeOK, FailedOnlyAfterLastAttempt
<1>13. ASSUME NEW s \in Slot, PruneBackups(s)
      PROVE  FailedOnlyAfterLastAttempt'
  BY <1>13, QueueAssumption, RunnerFacts DEF TypeOK,
       FailedOnlyAfterLastAttempt, PruneBackups, Goto, ProcessFrame,
       queueVars, bootVars, IsLastAttempt
<1>14. ASSUME NEW s \in Slot, CatchBlock(s) PROVE FailedOnlyAfterLastAttempt'
  <2>1. CatchBlockEffect(s)
    BY <1>14, CatchBlockFacts
  <2>2. made[s] <= attemptsMade[current[s]]
    BY <2>1, RunnerFacts DEF CatchBlockEffect
  <2>3. QED
    BY <2>1, <2>2, QueueAssumption, SMTT(30) DEF CatchBlockEffect, Others, Rejected,
         IsLastAttempt, TypeOK, FailedOnlyAfterLastAttempt
<1>15. ASSUME NEW s \in Slot, JobCompleted(s)
      PROVE  FailedOnlyAfterLastAttempt'
  BY <1>15, QueueAssumption, RunnerFacts DEF TypeOK,
       FailedOnlyAfterLastAttempt, JobCompleted, Release, HoldsLock, bootVars,
       history, IsLastAttempt
<1>16. ASSUME NEW s \in Slot, JobFailed(s) PROVE FailedOnlyAfterLastAttempt'
  <2>1. JobFailedEffect(s)
    BY <1>16, JobFailedFacts
  <2> SUFFICES ASSUME NEW u \in Task, row'[u] = "failed"
               PROVE  attemptsMade'[u] + 1 >= Attempts
    BY DEF FailedOnlyAfterLastAttempt
  <2>2. attemptsMade[u] + 1 >= Attempts
    BY <2>1 DEF JobFailedEffect, FailedOnlyAfterLastAttempt
  <2>3. attemptsMade[u] \in Nat /\ Attempts \in Nat
    BY QueueAssumption DEF TypeOK
  <2>4. attemptsMade'[u] = attemptsMade[u] \/ attemptsMade'[u] = attemptsMade[u] + 1
    BY <2>1 DEF JobFailedEffect
  <2>5. QED
    BY <2>2, <2>3, <2>4
<1>17. ASSUME NEW s \in Slot, ResultDropped(s)
      PROVE  FailedOnlyAfterLastAttempt'
  BY <1>17, QueueAssumption, RunnerFacts DEF TypeOK,
       FailedOnlyAfterLastAttempt, ResultDropped, Release, HoldsLock,
       bootVars, history, IsLastAttempt
<1>18. ASSUME Crash PROVE FailedOnlyAfterLastAttempt'
  BY <1>18, QueueAssumption DEF TypeOK, FailedOnlyAfterLastAttempt, Crash,
       history
<1>19. CASE UNCHANGED vars
  BY <1>19 DEF TypeOK, FailedOnlyAfterLastAttempt, vars, queueVars, bootVars,
       runVars, history
<1> QED
  BY <1>1, <1>2, <1>3, <1>4, <1>5, <1>6, <1>7, <1>8, <1>9, <1>10, <1>11,
       <1>12, <1>13, <1>14, <1>15, <1>16, <1>17, <1>18, <1>19 DEF Next,
       Process

\* The job is finished by the execution that has finished the row.
LEMMA FinishedJobHasFinishedRowStep ==
  ASSUME TypeOK, IdleInv, LockInv, EnqueueInv, SoleRunInv,
       FinishedJobHasFinishedRow, [Next]_vars
  PROVE  FinishedJobHasFinishedRow'
<1>1. ASSUME RegisterHandler PROVE FinishedJobHasFinishedRow'
  BY <1>1, QueueAssumption DEF TypeOK, FinishedJobHasFinishedRow,
       RegisterHandler, queueVars, runVars, history
<1>2. ASSUME NEW t \in Task, CreateRow(t) PROVE FinishedJobHasFinishedRow'
  BY <1>2, QueueAssumption DEF TypeOK, FinishedJobHasFinishedRow, CreateRow,
       InitialRowState, queueVars, bootVars, runVars, history, EnqueueInv,
       LockInv
<1>3. ASSUME NEW t \in Task, AddJob(t) PROVE FinishedJobHasFinishedRow'
  BY <1>3, QueueAssumption DEF TypeOK, FinishedJobHasFinishedRow, AddJob,
       bootVars, runVars, history, EnqueueInv, LockInv
<1>4. ASSUME NEW t \in Task, AddJobFails(t) PROVE FinishedJobHasFinishedRow'
  BY <1>4, QueueAssumption DEF TypeOK, FinishedJobHasFinishedRow, AddJobFails,
       queueVars, bootVars, runVars, history, EnqueueInv, LockInv
<1>5. ASSUME NEW t \in Task, BackoffElapsed(t)
      PROVE  FinishedJobHasFinishedRow'
  BY <1>5, QueueAssumption DEF TypeOK, FinishedJobHasFinishedRow,
       BackoffElapsed, bootVars, runVars, history, EnqueueInv, LockInv
<1>6. ASSUME NEW t \in Task, Stall(t) PROVE FinishedJobHasFinishedRow'
  BY <1>6, QueueAssumption DEF TypeOK, FinishedJobHasFinishedRow, Stall,
       Stallable, bootVars, runVars, history, EnqueueInv, LockInv
<1>7. ASSUME NEW s \in Slot, NEW t \in Task, Pick(s, t)
      PROVE  FinishedJobHasFinishedRow'
  BY <1>7, QueueAssumption DEF TypeOK, FinishedJobHasFinishedRow, Pick,
       bootVars, EnqueueInv, LockInv
<1>8. ASSUME NEW s \in Slot, NoHandlerYet(s) PROVE FinishedJobHasFinishedRow'
  BY <1>8, QueueAssumption, RunnerFacts, SoleRunner DEF TypeOK,
       FinishedJobHasFinishedRow, NoHandlerYet, Goto, ProcessFrame, queueVars,
       bootVars, SoleRun, OpenRow, IsLastAttempt
<1>9. ASSUME NEW s \in Slot, MarkRunning(s) PROVE FinishedJobHasFinishedRow'
  <2>1. MarkRunningEffect(s)
    BY <1>9, MarkRunningFacts
  <2>2. current[s] \notin disturbed => SoleRun(s) /\ job[current[s]] = "active"
    BY <2>1, SoleRunner DEF MarkRunningEffect
  <2>3. QED
    BY <2>1, <2>2 DEF MarkRunningEffect, Others, Rejected, SoleRun, OpenRow,
         TypeOK, FinishedJobHasFinishedRow
<1>10. ASSUME NEW s \in Slot, HandlerReturns(s)
      PROVE  FinishedJobHasFinishedRow'
  <2>1. HandlerReturnsEffect(s)
    BY <1>10, HandlerReturnsFacts
  <2>2. current[s] \notin disturbed => SoleRun(s) /\ job[current[s]] = "active"
    BY <2>1, SoleRunner DEF HandlerReturnsEffect
  <2>3. QED
    BY <2>1, <2>2 DEF HandlerReturnsEffect, Others, Rejected, SoleRun,
         OpenRow, TypeOK, FinishedJobHasFinishedRow
<1>11. ASSUME NEW s \in Slot, HandlerThrows(s)
      PROVE  FinishedJobHasFinishedRow'
  BY <1>11, QueueAssumption, RunnerFacts, SoleRunner DEF TypeOK,
       FinishedJobHasFinishedRow, HandlerThrows, Goto, ProcessFrame,
       queueVars, bootVars, SoleRun, OpenRow, IsLastAttempt
<1>12. ASSUME NEW s \in Slot, MarkSucceeded(s)
      PROVE  FinishedJobHasFinishedRow'
  <2>1. MarkSucceededEffect(s)
    BY <1>12, MarkSucceededFacts
  <2>2. current[s] \notin disturbed => SoleRun(s) /\ job[current[s]] = "active"
    BY <2>1, SoleRunner DEF MarkSucceededEffect
  <2>3. QED
    BY <2>1, <2>2 DEF MarkSucceededEffect, Others, Rejected, SoleRun, OpenRow,
         TypeOK, FinishedJobHasFinishedRow
<1>13. ASSUME NEW s \in Slot, PruneBackups(s) PROVE FinishedJobHasFinishedRow'
  BY <1>13, QueueAssumption, RunnerFacts, SoleRunner DEF TypeOK,
       FinishedJobHasFinishedRow, PruneBackups, Goto, ProcessFrame, queueVars,
       bootVars, SoleRun, OpenRow, IsLastAttempt
<1>14. ASSUME NEW s \in Slot, CatchBlock(s) PROVE FinishedJobHasFinishedRow'
  <2>1. CatchBlockEffect(s)
    BY <1>14, CatchBlockFacts
  <2>2. current[s] \notin disturbed => SoleRun(s) /\ job[current[s]] = "active"
    BY <2>1, SoleRunner DEF CatchBlockEffect
  <2>3. QED
    BY <2>1, <2>2 DEF CatchBlockEffect, Others, Rejected, SoleRun, OpenRow,
         TypeOK, FinishedJobHasFinishedRow
<1>15. ASSUME NEW s \in Slot, JobCompleted(s) PROVE FinishedJobHasFinishedRow'
  BY <1>15, QueueAssumption, RunnerFacts, SoleRunner DEF TypeOK,
       FinishedJobHasFinishedRow, JobCompleted, Release, HoldsLock, bootVars,
       history, SoleRun, OpenRow, IsLastAttempt
<1>16. ASSUME NEW s \in Slot, JobFailed(s) PROVE FinishedJobHasFinishedRow'
  <2>1. JobFailedEffect(s)
    BY <1>16, JobFailedFacts
  <2>2. current[s] \notin disturbed => SoleRun(s)
    BY <2>1, SoleRunner DEF JobFailedEffect
  <2>3. QED
    BY <2>1, <2>2 DEF JobFailedEffect, SoleRun, OpenRow, TypeOK,
         FinishedJobHasFinishedRow
<1>17. ASSUME NEW s \in Slot, ResultDropped(s)
      PROVE  FinishedJobHasFinishedRow'
  BY <1>17, QueueAssumption, RunnerFacts, SoleRunner DEF TypeOK,
       FinishedJobHasFinishedRow, ResultDropped, Release, HoldsLock, bootVars,
       history, SoleRun, OpenRow, IsLastAttempt
<1>18. ASSUME Crash PROVE FinishedJobHasFinishedRow'
  BY <1>18, QueueAssumption DEF TypeOK, FinishedJobHasFinishedRow, Crash,
       history, EnqueueInv, LockInv
<1>19. CASE UNCHANGED vars
  BY <1>19 DEF TypeOK, FinishedJobHasFinishedRow, vars, queueVars, bootVars,
       runVars, history
<1> QED
  BY <1>1, <1>2, <1>3, <1>4, <1>5, <1>6, <1>7, <1>8, <1>9, <1>10, <1>11,
       <1>12, <1>13, <1>14, <1>15, <1>16, <1>17, <1>18, <1>19 DEF Next,
       Process

-----------------------------------------------------------------------------
\* IInv holds initially and is preserved by every step.
THEOREM Inductive == Spec => []IInv
<1>1. Init => IInv
  <2> SUFFICES ASSUME Init PROVE IInv
    OBVIOUS
  <2> USE QueueAssumption DEF Init
  <2>1. TypeOK
    BY DEF TypeOK, RowState, JobState, Pc
  <2>2. IdleInv /\ LockInv /\ CountInv /\ EnqueueInv
    BY DEF IdleInv, LockInv, CountInv, CountOf, EnqueueInv
  <2>3. SoleRunInv /\ RestingRowInv /\ EffectInv
    BY DEF SoleRunInv, RestingRowInv, EffectInv, OpenRow, Terminal
  <2>4. FailedOnlyAfterLastAttempt /\ FinishedJobHasFinishedRow
    BY DEF FailedOnlyAfterLastAttempt, FinishedJobHasFinishedRow
  <2>5. QED
    BY <2>1, <2>2, <2>3, <2>4 DEF IInv
<1>2. IInv /\ [Next]_vars => IInv'
  BY TypeOKStep, IdleInvStep, LockInvStep, CountInvStep, EnqueueInvStep,
     SoleRunInvStep, RestingRowInvStep, EffectInvStep,
     FailedOnlyAfterLastAttemptStep, FinishedJobHasFinishedRowStep DEF IInv
<1>3. QED
  BY <1>1, <1>2, PTL DEF Spec

\* Type correctness of the task subsystem.
THEOREM TypeCorrect == Spec => []TypeOK
<1>1. IInv => TypeOK
  BY DEF IInv
<1>2. QED
  BY <1>1, Inductive, PTL

\* A row is never reported failed while BullMQ still has attempts to spend,
\* whatever crashes, lost locks and rejected writes happen (isLastAttempt).
THEOREM FailedIsFinal == Spec => []FailedOnlyAfterLastAttempt
<1>1. IInv => FailedOnlyAfterLastAttempt
  BY DEF IInv
<1>2. QED
  BY <1>1, Inductive, PTL

\* A finished job of an undisturbed task has the row that goes with it.
THEOREM RowAgreesWithJob == Spec => []FinishedJobHasFinishedRow
<1>1. IInv => FinishedJobHasFinishedRow
  BY DEF IInv
<1>2. QED
  BY <1>1, Inductive, PTL

\* Retries of an undisturbed task that is not a backup never repeat a
\* handler that has returned, and never report it as failed.
THEOREM EffectOnce == Spec => []NoRepeatedEffect
<1>1. IInv => NoRepeatedEffect
  BY QueueAssumption DEF IInv, EffectInv, NoRepeatedEffect
<1>2. QED
  BY <1>1, Inductive, PTL

\* The worker takes a job at most Attempts + MaxStalledCount times.
THEOREM BoundedPicks == Spec => []PicksBounded
<1>1. IInv => PicksBounded
  BY DEF IInv, CountInv, CountOf, PicksBounded
<1>2. QED
  BY <1>1, Inductive, PTL

\* No step takes a finished row back, outside the two exceptions.
LEMMA TerminalStep ==
  ASSUME IInv, Next, NEW t \in Task \ (disturbed \union BackupTask),
         row[t] \in Terminal
  PROVE  row'[t] = row[t] \/ t \in disturbed'
<1> USE DEF IInv
<1>1. ASSUME NEW u \in Task, CreateRow(u) PROVE row'[t] = row[t]
  BY <1>1 DEF CreateRow, TypeOK, Terminal
<1>2. ASSUME NEW s \in Slot, MarkRunning(s)
      PROVE  row'[t] = row[t] \/ t \in disturbed'
  <2>1. MarkRunningEffect(s)
    BY <1>2, MarkRunningFacts
  <2>2. current[s] = t => OpenRow(t)
    BY <2>1, SoleRunner DEF MarkRunningEffect, SoleRun
  <2>3. QED
    BY <2>1, <2>2 DEF MarkRunningEffect, Others, Rejected, OpenRow, Terminal
<1>3. ASSUME NEW s \in Slot, MarkSucceeded(s)
      PROVE  row'[t] = row[t] \/ t \in disturbed'
  <2>1. MarkSucceededEffect(s)
    BY <1>3, MarkSucceededFacts
  <2>2. current[s] = t => row[t] = "running"
    BY <2>1, SoleRunner DEF MarkSucceededEffect, SoleRun
  <2>3. QED
    BY <2>1, <2>2 DEF MarkSucceededEffect, Others, Rejected, Terminal
<1>4. ASSUME NEW s \in Slot, CatchBlock(s)
      PROVE  row'[t] = row[t] \/ t \in disturbed'
  <2>1. CatchBlockEffect(s)
    BY <1>4, CatchBlockFacts
  <2>2. current[s] = t => OpenRow(t)
    BY <2>1, SoleRunner DEF CatchBlockEffect, SoleRun
  <2>3. QED
    BY <2>1, <2>2 DEF CatchBlockEffect, Others, Rejected, OpenRow, Terminal
<1>5. ASSUME NEW s \in Slot,
             \/ NoHandlerYet(s) \/ HandlerReturns(s) \/ HandlerThrows(s)
             \/ PruneBackups(s) \/ JobCompleted(s) \/ JobFailed(s)
             \/ ResultDropped(s)
      PROVE  row'[t] = row[t]
  BY <1>5 DEF NoHandlerYet, HandlerReturns, HandlerThrows, PruneBackups,
              JobCompleted, JobFailed, ResultDropped, Release
<1>6. ASSUME NEW u \in Task,
             \/ AddJob(u) \/ AddJobFails(u) \/ BackoffElapsed(u) \/ Stall(u)
             \/ \E s \in Slot : Pick(s, u)
      PROVE  row'[t] = row[t]
  BY <1>6 DEF AddJob, AddJobFails, BackoffElapsed, Stall, Pick
<1>7. ASSUME RegisterHandler \/ Crash PROVE row'[t] = row[t]
  BY <1>7 DEF RegisterHandler, Crash
<1>8. QED
  BY <1>1, <1>2, <1>3, <1>4, <1>5, <1>6, <1>7 DEF Next, Process

\* A finished row of an undisturbed task that is not a backup never changes.
THEOREM TerminalRowStays == Spec => TerminalRowIsFinal
<1>1. IInv /\ [Next]_vars
        => [\A t \in Task \ (disturbed \union BackupTask) :
              row[t] \in Terminal => row'[t] = row[t] \/ t \in disturbed']_vars
  BY TerminalStep
<1>2. QED
  BY <1>1, Inductive, PTL DEF Spec, TerminalRowIsFinal

-----------------------------------------------------------------------------
(* The refinement: TaskQueue implements TaskPromise.                       *)

\* The handler of an execution about to report success has returned once.
HandledInv ==
  \A s \in Slot :
    pc[s] = "handled" /\ current[s] \in Promised \ disturbed
      => effects[current[s]] = 1

\* A step in which no handler returns and no execution becomes "handled".
Calm ==
  /\ UNCHANGED effects
  /\ disturbed \subseteq disturbed'
  /\ \A r \in Slot : pc'[r] = "handled"
       => pc[r] = "handled" /\ current'[r] = current[r]

\* Every step other than the return of a handler is calm.
LEMMA CalmStep ==
  ASSUME IInv, [Next]_vars, \A s \in Slot : ~HandlerReturns(s)
  PROVE  Calm
<1> USE DEF IInv
<1>1. CASE RegisterHandler
  BY <1>1 DEF RegisterHandler, Calm, runVars, history
<1>2. ASSUME NEW t \in Task,
             \/ CreateRow(t) \/ AddJob(t) \/ AddJobFails(t)
             \/ BackoffElapsed(t) \/ Stall(t)
      PROVE  Calm
  BY <1>2 DEF CreateRow, AddJob, AddJobFails, BackoffElapsed, Stall, Calm,
       runVars, history
<1>3. ASSUME NEW s \in Slot, NEW t \in Task, Pick(s, t) PROVE Calm
  BY <1>3 DEF Pick, Calm, TypeOK
<1>4. ASSUME NEW s \in Slot, NoHandlerYet(s) \/ HandlerThrows(s)
                              \/ PruneBackups(s)
      PROVE  Calm
  BY <1>4 DEF NoHandlerYet, HandlerThrows, PruneBackups, Goto, ProcessFrame,
       Calm, TypeOK
<1>5. ASSUME NEW s \in Slot, MarkRunning(s) PROVE Calm
  BY <1>5, MarkRunningFacts DEF MarkRunningEffect, Others, Calm
<1>6. ASSUME NEW s \in Slot, MarkSucceeded(s) PROVE Calm
  BY <1>6, MarkSucceededFacts DEF MarkSucceededEffect, Others, Calm
<1>7. ASSUME NEW s \in Slot, CatchBlock(s) PROVE Calm
  BY <1>7, CatchBlockFacts DEF CatchBlockEffect, Others, Calm
<1>8. ASSUME NEW s \in Slot, JobCompleted(s) \/ JobFailed(s)
                              \/ ResultDropped(s)
      PROVE  Calm
  BY <1>8 DEF JobCompleted, JobFailed, ResultDropped, Release, Calm, history,
       TypeOK
<1>9. CASE Crash
  BY <1>9 DEF Crash, Calm, history
<1>10. CASE UNCHANGED vars
  BY <1>10 DEF vars, Calm, runVars, history
<1> QED
  BY <1>1, <1>2, <1>3, <1>4, <1>5, <1>6, <1>7, <1>8, <1>9, <1>10 DEF Next,
     Process

\* HandledInv is preserved: the execution of an undisturbed task is alone.
LEMMA HandledStep ==
  ASSUME IInv, HandledInv, [Next]_vars
  PROVE  HandledInv'
<1>1. ASSUME NEW s \in Slot, HandlerReturns(s) PROVE HandledInv'
  <2>1. HandlerReturnsEffect(s) /\ current[s] \in Task
    BY <1>1, HandlerReturnsFacts DEF IInv, HandlerReturnsEffect
  <2>2. current[s] \in Promised \ disturbed => effects[current[s]] = 0
    BY <2>1 DEF IInv, EffectInv, Promised, HandlerReturnsEffect
  <2>3. ASSUME NEW r \in Slot, r # s, current[s] \notin disturbed
        PROVE  current[r] # current[s]
    BY <2>1, <2>3, SoleRunner DEF IInv, HandlerReturnsEffect
  <2> SUFFICES ASSUME NEW r \in Slot, pc'[r] = "handled",
                      current'[r] \in Promised \ disturbed'
               PROVE  effects'[current'[r]] = 1
    BY DEF HandledInv, Promised
  <2>4. current'[r] = current[r] /\ current[r] \in Promised \ disturbed
    BY <2>1 DEF HandlerReturnsEffect, Others
  <2>5. CASE r = s
    BY <2>1, <2>2, <2>4, <2>5 DEF HandlerReturnsEffect
  <2>6. CASE r # s /\ current[r] # current[s]
    BY <2>1, <2>4, <2>6 DEF HandlerReturnsEffect, Others, HandledInv, Promised
  <2>7. CASE r # s /\ current[r] = current[s]
    BY <2>3, <2>4, <2>7
  <2>8. QED
    BY <2>5, <2>6, <2>7
<1>2. CASE \A s \in Slot : ~HandlerReturns(s)
  <2>1. Calm
    BY <1>2, CalmStep
  <2>2. QED
    BY <2>1 DEF Calm, HandledInv, Promised
<1>3. QED
  BY <1>1, <1>2

\* The rows t may have before and after a step that leaves its outcome alone.
SameOutcome(t) ==
  \/ row'[t] = row[t]
  \/ {row[t], row'[t]} \subseteq {"queued", "running"}

\* A step that changes no undisturbed command, and may disturb some.
LEMMA QuietStep ==
  ASSUME disturbed \subseteq disturbed',
         \A t \in Promised \ disturbed' :
            SameOutcome(t) /\ effects'[t] = effects[t]
  PROVE  Promise!Next
<1> DEFINE C == Promised \cap disturbed'
<1>1. \A t \in Promised :
         ShownOutcome'[t] = IF t \in C THEN "excused" ELSE ShownOutcome[t]
  BY DEF ShownOutcome, SameOutcome, Promised, Terminal
<1>2. \A t \in Promised :
         CarriedOut'[t] = IF t \in C THEN 0 ELSE CarriedOut[t]
  BY DEF CarriedOut, Promised
<1>3. ShownOutcome' =
        [t \in Promised |-> IF t \in C THEN "excused" ELSE ShownOutcome[t]]
  BY <1>1 DEF ShownOutcome, Promised
<1>4. CarriedOut' = [t \in Promised |-> IF t \in C THEN 0 ELSE CarriedOut[t]]
  BY <1>2 DEF CarriedOut, Promised
<1>5. C \in SUBSET Promised /\ Promise!Excuse(C)
  BY <1>3, <1>4 DEF Promise!Excuse
<1>6. QED
  BY <1>5 DEF Promise!Next

\* A step that moves only the outcome of the undisturbed command t.
LEMMA OutcomeStep ==
  ASSUME NEW t \in Promised, t \notin disturbed, UNCHANGED disturbed,
         UNCHANGED effects,
         \A u \in Promised \ {t} : row'[u] = row[u],
         \/ row[t] = "none" /\ row'[t] = "queued"
         \/ /\ row[t] \in {"queued", "running"}
            /\ \/ row'[t] = "succeeded" /\ effects[t] = 1
               \/ row'[t] = "failed" /\ effects[t] = 0
  PROVE  Promise!Next
<1>1. \A u \in Promised \ {t} : ShownOutcome'[u] = ShownOutcome[u]
  BY DEF ShownOutcome, Promised
<1>2. UNCHANGED CarriedOut
  BY DEF CarriedOut, Promised
<1>3. \A x : [ShownOutcome EXCEPT ![t] = x]
               = [u \in Promised |-> IF u = t THEN x ELSE ShownOutcome[u]]
  BY DEF ShownOutcome
<1>4. ShownOutcome' = [ShownOutcome EXCEPT ![t] = ShownOutcome'[t]]
  <2>1. ShownOutcome' = [u \in Promised |-> ShownOutcome'[u]]
    BY DEF ShownOutcome, Promised
  <2>2. QED
    BY <1>1, <1>3, <2>1
<1>5. CASE row[t] = "none" /\ row'[t] = "queued"
  <2>1. ShownOutcome[t] = "new" /\ ShownOutcome'[t] = "open"
    BY <1>5 DEF ShownOutcome, Promised, Terminal
  <2>2. Promise!Accept(t)
    BY <1>2, <1>4, <2>1 DEF Promise!Accept
  <2>3. QED
    BY <2>2 DEF Promise!Next
<1>6. CASE /\ row[t] \in {"queued", "running"}
           /\ \/ row'[t] = "succeeded" /\ effects[t] = 1
              \/ row'[t] = "failed" /\ effects[t] = 0
  <2>1. ShownOutcome[t] = "open" /\ ShownOutcome'[t] = row'[t]
    BY <1>6 DEF ShownOutcome, Promised, Terminal
  <2>2. CarriedOut[t] = effects[t]
    BY DEF CarriedOut
  <2>3. row'[t] = IF CarriedOut[t] = 1 THEN "succeeded" ELSE "failed"
    BY <1>6, <2>2
  <2>4. Promise!Report(t)
    BY <1>2, <1>4, <2>1, <2>3 DEF Promise!Report
  <2>5. QED
    BY <2>4 DEF Promise!Next
<1>7. QED
  BY <1>5, <1>6

\* A step of the queue is a step of TaskPromise or leaves its variables alone.
LEMMA RefinementStep ==
  ASSUME IInv, HandledInv, Next
  PROVE  Promise!Next
<1> USE DEF IInv
<1>1. ASSUME NEW t \in Task, CreateRow(t) PROVE Promise!Next
  <2>1. /\ row[t] = "none" /\ row' = [row EXCEPT ![t] = "queued"]
        /\ UNCHANGED <<disturbed, effects>>
    BY <1>1 DEF CreateRow, InitialRowState, history
  <2>2. CASE t \in Promised \ disturbed
    BY <2>1, <2>2, OutcomeStep DEF TypeOK, Promised
  <2>3. CASE t \notin Promised \ disturbed
    BY <2>1, <2>3, QuietStep DEF TypeOK, Promised, SameOutcome
  <2>4. QED
    BY <2>2, <2>3
<1>2. ASSUME NEW t \in Task,
             \/ AddJob(t) \/ AddJobFails(t) \/ BackoffElapsed(t) \/ Stall(t)
             \/ \E s \in Slot : Pick(s, t)
      PROVE  Promise!Next
  <2>1. UNCHANGED <<row, effects>> /\ disturbed \subseteq disturbed'
    BY <1>2 DEF AddJob, AddJobFails, BackoffElapsed, Stall, Pick, history
  <2>2. QED
    BY <2>1, QuietStep DEF SameOutcome, Promised
<1>3. ASSUME NEW s \in Slot,
             \/ NoHandlerYet(s) \/ HandlerThrows(s) \/ PruneBackups(s)
             \/ JobCompleted(s) \/ JobFailed(s) \/ ResultDropped(s)
      PROVE  Promise!Next
  <2>1. UNCHANGED <<row, effects>> /\ disturbed \subseteq disturbed'
    BY <1>3 DEF NoHandlerYet, HandlerThrows, PruneBackups, JobCompleted,
         JobFailed, ResultDropped, Release, history
  <2>2. QED
    BY <2>1, QuietStep DEF SameOutcome, Promised
<1>4. CASE RegisterHandler \/ Crash
  <2>1. UNCHANGED <<row, effects>> /\ disturbed \subseteq disturbed'
    BY <1>4 DEF RegisterHandler, Crash, history
  <2>2. QED
    BY <2>1, QuietStep DEF SameOutcome, Promised
<1>5. ASSUME NEW s \in Slot, MarkRunning(s) PROVE Promise!Next
  <2>1. MarkRunningEffect(s)
    BY <1>5, MarkRunningFacts
  <2>2. current[s] \in Promised \ disturbed
          => row[current[s]] \in {"queued", "running"}
    BY <2>1, SoleRunner DEF MarkRunningEffect, SoleRun, OpenRow, Promised
  <2>3. \A t \in Promised \ disturbed' :
           SameOutcome(t) /\ effects'[t] = effects[t]
    BY <2>1, <2>2 DEF MarkRunningEffect, Others, Rejected, SameOutcome,
       Promised
  <2>4. QED
    BY <2>1, <2>3, QuietStep DEF MarkRunningEffect, Others
<1>6. ASSUME NEW s \in Slot, HandlerReturns(s) PROVE Promise!Next
  <2>1. HandlerReturnsEffect(s) /\ UNCHANGED disturbed
    BY <1>6, HandlerReturnsFacts DEF HandlerReturns
  <2> DEFINE t == current[s]
  <2>2. CASE t \in Promised \ disturbed
    <3>1. row[t] = "running" /\ effects[t] = 0
      BY <2>1, <2>2, SoleRunner DEF HandlerReturnsEffect, SoleRun, EffectInv,
         Promised
    <3>2. ShownOutcome[t] = "open" /\ CarriedOut[t] = 0
      BY <2>2, <3>1 DEF ShownOutcome, CarriedOut, Terminal, Promised
    <3>3. UNCHANGED ShownOutcome
      BY <2>1 DEF HandlerReturnsEffect, ShownOutcome, Promised
    <3>4. \A u \in Promised :
             CarriedOut'[u] = IF u = t THEN 1 ELSE CarriedOut[u]
      BY <2>1, <2>2, <3>1 DEF HandlerReturnsEffect, CarriedOut, Promised
    <3>5. CarriedOut' = [u \in Promised |-> CarriedOut'[u]]
      BY DEF CarriedOut, Promised
    <3>6. [CarriedOut EXCEPT ![t] = 1]
            = [u \in Promised |-> IF u = t THEN 1 ELSE CarriedOut[u]]
      BY DEF CarriedOut
    <3>7. CarriedOut' = [CarriedOut EXCEPT ![t] = 1]
      BY <3>4, <3>5, <3>6
    <3>8. Promise!CarryOut(t)
      BY <3>2, <3>3, <3>7 DEF Promise!CarryOut
    <3>9. QED
      BY <2>2, <3>8 DEF Promise!Next
  <2>3. CASE t \notin Promised \ disturbed
    <3>1. \A u \in Promised \ disturbed' :
             SameOutcome(u) /\ effects'[u] = effects[u]
      BY <2>1, <2>3 DEF HandlerReturnsEffect, SameOutcome, Promised
    <3>2. QED
      BY <2>1, <3>1, QuietStep
  <2>4. QED
    BY <2>2, <2>3
<1>7. ASSUME NEW s \in Slot, MarkSucceeded(s) PROVE Promise!Next
  <2>1. MarkSucceededEffect(s)
    BY <1>7, MarkSucceededFacts
  <2>2. CASE current[s] \in Promised \ disturbed'
    <3>1. row'[current[s]] = "succeeded" /\ UNCHANGED disturbed
      BY <1>7, <2>1, <2>2 DEF MarkSucceeded, WriteRow, WriteRejected,
         MarkSucceededEffect, Rejected
    <3>2. row[current[s]] = "running"
      BY <2>1, <2>2, <3>1, SoleRunner DEF MarkSucceededEffect, SoleRun
    <3>3. effects[current[s]] = 1
      BY <2>1, <2>2, <3>1 DEF MarkSucceededEffect, HandledInv
    <3>4. \A u \in Promised \ {current[s]} : row'[u] = row[u]
      BY <2>1 DEF MarkSucceededEffect, Others, Promised
    <3>5. QED
      BY <2>1, <2>2, <3>1, <3>2, <3>3, <3>4, OutcomeStep
         DEF MarkSucceededEffect
  <2>3. CASE current[s] \notin Promised \ disturbed'
    <3>1. \A t \in Promised \ disturbed' :
             SameOutcome(t) /\ effects'[t] = effects[t]
      BY <2>1, <2>3 DEF MarkSucceededEffect, Others, SameOutcome, Promised
    <3>2. QED
      BY <2>1, <3>1, QuietStep DEF MarkSucceededEffect, Others
  <2>4. QED
    BY <2>2, <2>3
<1>8. ASSUME NEW s \in Slot, CatchBlock(s) PROVE Promise!Next
  <2>1. CatchBlockEffect(s)
    BY <1>8, CatchBlockFacts
  <2>2. CASE /\ current[s] \in Promised \ disturbed'
             /\ row'[current[s]] # row[current[s]]
    <3>1. row'[current[s]] = "failed" /\ UNCHANGED disturbed
      BY <1>8, <2>1, <2>2 DEF CatchBlock, WriteRow, WriteRejected,
         CatchBlockEffect, Rejected
    <3>2. row[current[s]] \in {"queued", "running"}
      BY <2>1, <2>2, <3>1, SoleRunner DEF CatchBlockEffect, SoleRun, OpenRow,
         Promised
    <3>3. effects[current[s]] = 0
      BY <2>1, <2>2, <3>1 DEF CatchBlockEffect, EffectInv, Promised
    <3>4. \A u \in Promised \ {current[s]} : row'[u] = row[u]
      BY <2>1 DEF CatchBlockEffect, Others, Promised
    <3>5. QED
      BY <2>1, <2>2, <3>1, <3>2, <3>3, <3>4, OutcomeStep DEF CatchBlockEffect
  <2>3. CASE ~ (/\ current[s] \in Promised \ disturbed'
                /\ row'[current[s]] # row[current[s]])
    <3>1. \A t \in Promised \ disturbed' :
             SameOutcome(t) /\ effects'[t] = effects[t]
      BY <2>1, <2>3 DEF CatchBlockEffect, Others, SameOutcome, Promised
    <3>2. QED
      BY <2>1, <3>1, QuietStep DEF CatchBlockEffect, Others
  <2>4. QED
    BY <2>2, <2>3
<1>9. QED
  BY <1>1, <1>2, <1>3, <1>4, <1>5, <1>6, <1>7, <1>8 DEF Next, Process

\* The task subsystem implements TaskPromise: a command that no fault
\* disturbs is carried out at most once and reported as what became of it,
\* once and for all.
THEOREM ImplementsPromise == Spec => KeepsPromise
<1>1. Init => Promise!Init
  BY DEF Init, Promise!Init, ShownOutcome, CarriedOut, Promised
<1>2. Init => HandledInv
  BY DEF Init, HandledInv
<1>3. IInv /\ HandledInv /\ [Next]_vars => HandledInv'
  BY HandledStep
<1>4. IInv /\ HandledInv /\ [Next]_vars => [Promise!Next]_(Promise!vars)
  <2>1. IInv /\ HandledInv /\ Next => Promise!Next
    BY RefinementStep
  <2>2. UNCHANGED vars => UNCHANGED Promise!vars
    BY DEF vars, history, Promise!vars, ShownOutcome, CarriedOut, Promised
  <2>3. QED
    BY <2>1, <2>2
<1>5. QED
  BY <1>1, <1>2, <1>3, <1>4, Inductive, PTL
     DEF Spec, KeepsPromise, Promise!Spec
=============================================================================
