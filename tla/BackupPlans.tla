---------------------------- MODULE BackupPlans ----------------------------
(***************************************************************************)
(* The two services that start backups by the clock:                       *)
(*   - BackupSchedulesService.runDue, every five minutes, for plans with   *)
(*     an interval in hours;                                               *)
(*   - CronRunnerService.runDue, every five minutes, for plans with a cron *)
(*     expression.                                                         *)
(* They share no row, so a behaviour looks at one of them.                 *)
(* Both read the due plans once and then work through the list: enqueue    *)
(* the task, then write the next date.  A pass may outlast the five        *)
(* minutes (the queue blocks while Redis is away), so two passes may       *)
(* overlap, a statement may fail, the panel may be restarted, and          *)
(* administrators edit the plans in between.                               *)
(***************************************************************************)
EXTENDS Naturals, FiniteSets

CONSTANTS Plans,        \* plans that may be created
          Passes,       \* passes that may overlap
          Interval,     \* bound, in ticks of five minutes: the longest interval of a
                        \* plan, and the longest time between two that a cron
                        \* expression names
          PlanFaults    \* bound on failing statements and restarts

ASSUME PlanAssumption == Interval \in Nat \ {0} /\ PlanFaults \in Nat

VARIABLES service,      \* "interval" or "cron"
          plan,         \* table BackupSchedule or CronSchedule
          pass,         \* what each pass under way still has to do
          planFaults,   \* faults left
          owed,         \* history: ticks until the interval of the last run of an
                        \* interval plan is over, from when the pass of that run began
          unrecorded,   \* history: interval plans whose next date does not count from the
                        \* last run, or that another pass still has in hand
          early         \* history: plans that ran early without a reason

planVars == <<service, plan, pass, planFaults, owed, unrecorded, early>>

NoPlan == [present |-> FALSE, known |-> FALSE, enabled |-> FALSE,
           ran |-> FALSE, wait |-> 0, every |-> 1, valid |-> FALSE]
Idle == [busy |-> FALSE, todo |-> {}, writes |-> {}, age |-> 0]

\* An entry is the plan as the pass read it.
Entry == [id : Plans, valid : BOOLEAN, every : 1..Interval]

PlanTypeOK ==
  /\ service \in {"interval", "cron"}
  /\ plan \in [Plans -> [present : BOOLEAN, known : BOOLEAN, enabled : BOOLEAN, ran : BOOLEAN,
                         wait : 0..Interval, every : 1..Interval, valid : BOOLEAN]]
  /\ pass \in [Passes -> [busy : BOOLEAN, todo : SUBSET Entry, writes : SUBSET Entry, age : 0..Interval]]
  /\ planFaults \in 0..PlanFaults
  /\ owed \in [Plans -> 0..Interval]
  /\ unrecorded \subseteq Plans /\ early \subseteq Plans

PlanInit ==
  /\ service \in {"interval", "cron"}
  /\ plan = [s \in Plans |-> NoPlan]
  /\ pass = [p \in Passes |-> Idle]
  /\ planFaults = PlanFaults
  /\ owed = [s \in Plans |-> 0]
  /\ unrecorded = {} /\ early = {}

Quiet == UNCHANGED <<service, pass, planFaults, owed, unrecorded, early>>

-----------------------------------------------------------------------------
(* The administrator.                                                       *)

NewPlan(valid, wait, every) == [present |-> TRUE, known |-> TRUE, enabled |-> TRUE,
                                ran |-> FALSE, valid |-> valid, wait |-> wait, every |-> every]

\* BackupSchedulesService.create writes nextRunAt; lastRunAt is null.
CreateIntervalPlan(s) ==
  /\ service = "interval" /\ ~plan[s].known
  /\ \E n \in 1..Interval : plan' = [plan EXCEPT ![s] = NewPlan(TRUE, n, n)]
  /\ Quiet

\* SchedulesController.create leaves nextRunAt null; nothing parses the expression.
CreateCronPlan(s) ==
  /\ service = "cron" /\ ~plan[s].known
  /\ \E v \in BOOLEAN : plan' = [plan EXCEPT ![s] = NewPlan(v, 0, 1)]
  /\ Quiet

\* update and toggle: the row changes, the dates do not.  (POST :id/run writes
\* lastRunAt only, which the due date of a cron plan does not depend on.)
TogglePlan(s) ==
  /\ plan[s].present
  /\ plan' = [plan EXCEPT ![s].enabled = ~@]
  /\ Quiet

\* update with intervalHours; the date of the next run stays as it is.
UpdateInterval(s) ==
  /\ service = "interval" /\ plan[s].present
  /\ \E n \in 1..Interval : plan' = [plan EXCEPT ![s].every = n]
  /\ Quiet

UpdateExpression(s) ==
  /\ service = "cron" /\ plan[s].present
  /\ plan' = [plan EXCEPT ![s].valid = ~@]
  /\ Quiet

RemovePlan(s) ==
  /\ plan[s].present
  /\ plan' = [plan EXCEPT ![s] = [NoPlan EXCEPT !.known = TRUE]]
  /\ Quiet

-----------------------------------------------------------------------------
(* The two services.                                                        *)

\* (Defect for a mutant run: nothing is due that has no date yet.)
MutantIsDue(s) == plan[s].present /\ plan[s].enabled /\ plan[s].ran /\ plan[s].wait = 0

\* interval: lastRunAt is null or nextRunAt has passed; cron: nextRunAt is null
\* or has passed.
IsDue(s) == plan[s].present /\ plan[s].enabled /\ (~plan[s].ran \/ plan[s].wait = 0)

\* findMany reads the due plans and the pass works on what it has read.
RunDue(p) ==
  /\ ~pass[p].busy
  /\ \E s \in Plans : IsDue(s)
  /\ pass' = [pass EXCEPT ![p] =
       [busy |-> TRUE, writes |-> {}, age |-> 0,
        todo |-> {[id |-> s, valid |-> plan[s].valid, every |-> plan[s].every] :
                  s \in {t \in Plans : IsDue(t)}}]]
  /\ UNCHANGED <<service, plan, planFaults, owed, unrecorded, early>>

\* What is left at present of the interval that a pass has read, which counts from the
\* beginning of the pass.
Rest(p, e) == IF e.every > pass[p].age THEN e.every - pass[p].age ELSE 0

\* backup.create (interval plans) and enqueue.  The run counts from the time the
\* pass read the clock, which is what the next date is computed from.
StartBackup(p, e) ==
  /\ pass[p].writes = {} /\ e \in pass[p].todo
  /\ pass' = [pass EXCEPT ![p].todo = @ \ {e}, ![p].writes = {e}]
  /\ IF service = "cron" THEN UNCHANGED <<owed, unrecorded, early>>
     ELSE /\ early' = IF owed[e.id] > 0 /\ e.id \notin unrecorded
                        THEN early \cup {e.id} ELSE early
          /\ owed' = [owed EXCEPT ![e.id] = Rest(p, e)]
          /\ unrecorded' = unrecorded \cup {e.id}
  /\ UNCHANGED <<service, plan, planFaults>>

Holds(p, s) == \E e \in pass[p].todo \cup pass[p].writes : e.id = s

\* (Defect for a mutant run: the run is noted without a new date.)
MutantFollowing(p, e) == {[plan[e.id] EXCEPT !.ran = TRUE]}

\* The next time that a cron expression names comes at any time after the present one.
Following(p, e) ==
  {[plan[e.id] EXCEPT !.ran = TRUE, !.wait = n] :
     n \in IF service = "interval" THEN {Rest(p, e)} ELSE 1..Interval}

\* The next date is written; an invalid expression, a row that is gone and a
\* failing statement end in the catch and leave the row as it is.
RecordRun(p) ==
  \E e \in pass[p].writes :
    /\ e.valid /\ plan[e.id].present
    /\ \E next \in Following(p, e) : plan' = [plan EXCEPT ![e.id] = next]
    /\ pass' = [pass EXCEPT ![p].writes = {}]
    /\ unrecorded' = IF \/ Rest(p, e) < owed[e.id]
                         \/ \E q \in Passes \ {p} : Holds(q, e.id)
                        THEN unrecorded ELSE unrecorded \ {e.id}
    /\ UNCHANGED <<service, planFaults, owed, early>>

SkipRecord(p) ==
  \E e \in pass[p].writes :
    /\ ~(e.valid /\ plan[e.id].present)
    /\ pass' = [pass EXCEPT ![p].writes = {}]
    /\ UNCHANGED <<service, plan, planFaults, owed, unrecorded, early>>

EndPass(p) ==
  /\ pass[p].busy /\ pass[p].todo = {} /\ pass[p].writes = {}
  /\ pass' = [pass EXCEPT ![p] = Idle]
  /\ UNCHANGED <<service, plan, planFaults, owed, unrecorded, early>>

PassStep(p) ==
  \/ \E e \in pass[p].todo : StartBackup(p, e)
  \/ RecordRun(p)
  \/ SkipRecord(p)
  \/ EndPass(p)

\* A statement fails: the catch logs it and the pass goes on with the next plan.
StatementFails(p) ==
  /\ planFaults > 0
  /\ planFaults' = planFaults - 1
  /\ \/ pass[p].writes # {} /\ pass' = [pass EXCEPT ![p].writes = {}]
     \/ /\ pass[p].writes = {}
        /\ \E e \in pass[p].todo : pass' = [pass EXCEPT ![p].todo = @ \ {e}]
  /\ UNCHANGED <<service, plan, owed, unrecorded, early>>

PlansRestart ==
  /\ planFaults > 0 /\ \E p \in Passes : pass[p].busy
  /\ planFaults' = planFaults - 1
  /\ pass' = [p \in Passes |-> Idle]
  /\ UNCHANGED <<service, plan, owed, unrecorded, early>>

Count(n) == IF n > 0 THEN n - 1 ELSE 0

\* Five minutes pass.  A pass that is under way grows older; it is not followed
\* beyond Interval ticks.
FiveMinutes ==
  /\ \A p \in Passes : pass[p].busy => pass[p].age < Interval
  /\ plan' = [s \in Plans |-> [plan[s] EXCEPT !.wait = Count(@)]]
  /\ pass' = [p \in Passes |->
                IF pass[p].busy THEN [pass[p] EXCEPT !.age = @ + 1] ELSE Idle]
  /\ owed' = [s \in Plans |-> Count(owed[s])]
  /\ UNCHANGED <<service, planFaults, unrecorded, early>>

PlanNext ==
  \/ \E s \in Plans : \/ CreateIntervalPlan(s) \/ CreateCronPlan(s)
                      \/ TogglePlan(s) \/ UpdateInterval(s) \/ UpdateExpression(s) \/ RemovePlan(s)
  \/ \E p \in Passes : RunDue(p) \/ PassStep(p) \/ StatementFails(p)
  \/ PlansRestart
  \/ FiveMinutes

\* The @Cron method is called for ever and a pass under way goes on.
PlanFairness ==
  /\ WF_planVars(FiveMinutes)
  /\ \A p \in Passes : WF_planVars(PassStep(p))
  /\ WF_planVars(\E p \in Passes : RunDue(p))

PlanSpec == PlanInit /\ [][PlanNext]_planVars /\ PlanFairness

-----------------------------------------------------------------------------
(* Properties.                                                              *)

\* Two runs of an interval plan are at least the interval apart that the pass of the
\* first one read, counted from the passes that made them, however the interval is
\* changed, unless the date of the first one was never written or two passes had the
\* plan in hand at once.
RunsAreSpaced == early = {}

Runs(s) == \E p \in Passes : \E e \in pass[p].todo : e.id = s /\ StartBackup(p, e)

\* A plan that stays enabled is run again and again, whatever statements failed,
\* whoever restarted the panel, and however its passes overlapped.
RunsForEver ==
  \A s \in Plans :
    <>[](plan[s].present /\ plan[s].enabled) =>
      []<><<Runs(s)>>_planVars
=============================================================================
