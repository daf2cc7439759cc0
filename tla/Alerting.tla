------------------------------ MODULE Alerting ------------------------------
(***************************************************************************)
(* Alert rules.  Every minute AlertsService.evaluateAlerts reads the       *)
(* enabled rules once and evaluates one after the other: cooldown, samples *)
(* of the window, firedAt, webhooks, mails.  A webhook may take ten        *)
(* seconds and a mail longer, so an evaluation may still be under way when *)
(* the next one begins; rules and webhooks are edited in between, and the  *)
(* panel may stop.                                                         *)
(***************************************************************************)
EXTENDS Naturals, FiniteSets

CONSTANTS Rules,        \* alert rules
          Hooks,        \* webhooks subscribed to alert.triggered
          Evaluations,  \* evaluations that may overlap
          Cooldown,     \* minutes a rule stays silent (cooldownMinutes)
          AlertFaults   \* bound on failing statements and restarts

ASSUME AlertAssumption == Cooldown \in Nat /\ AlertFaults \in Nat

VARIABLES alertRule,    \* table AlertRule
          hook,         \* table Webhook
          evaluation,   \* what each evaluation under way still has to do
          alertFaults,  \* faults left
          repeated      \* history: rules that fired in their cooldown although the
                        \* evaluation had read them after the firing before

alertVars == <<alertRule, hook, evaluation, alertFaults, repeated>>

\* cooling is what is left of the cooldown, counted from firedAt.
NoRule == [present |-> FALSE, enabled |-> FALSE, known |-> FALSE, cooling |-> 0]
Steps == {"judge", "fire", "deliver", "mail"}
Done == [busy |-> FALSE, todo |-> {}, step |-> "judge", current |-> {},
         open |-> {}, age |-> 0]

\* A rule as the evaluation read it; stale if it has fired since.
AlertEntry == [id : Rules, cooling : 0..Cooldown, stale : BOOLEAN]

AlertTypeOK ==
  /\ alertRule \in [Rules -> [present : BOOLEAN, enabled : BOOLEAN, known : BOOLEAN, cooling : 0..Cooldown]]
  /\ hook \in [Hooks -> {"new", "on", "off", "gone"}]
  /\ evaluation \in [Evaluations -> [busy : BOOLEAN, todo : SUBSET AlertEntry, step : Steps,
                                     current : SUBSET AlertEntry, open : SUBSET Hooks,
                                     age : 0..Cooldown]]
  /\ alertFaults \in 0..AlertFaults
  /\ repeated \subseteq Rules

AlertInit ==
  /\ alertRule = [r \in Rules |-> NoRule]
  /\ hook = [h \in Hooks |-> "new"]
  /\ evaluation = [v \in Evaluations |-> Done]
  /\ alertFaults = AlertFaults
  /\ repeated = {}

-----------------------------------------------------------------------------
(* The administrator.                                                       *)

CreateRule(r) ==
  /\ ~alertRule[r].known
  /\ alertRule' = [alertRule EXCEPT ![r] = [present |-> TRUE, enabled |-> TRUE, known |-> TRUE, cooling |-> 0]]
  /\ UNCHANGED <<hook, evaluation, alertFaults, repeated>>

\* The other fields of a rule are not told apart here; firedAt stays.
UpdateRule(r) ==
  /\ alertRule[r].present
  /\ alertRule' = [alertRule EXCEPT ![r].enabled = ~@]
  /\ UNCHANGED <<hook, evaluation, alertFaults, repeated>>

RemoveRule(r) ==
  /\ alertRule[r].present
  /\ alertRule' = [alertRule EXCEPT ![r] = [NoRule EXCEPT !.known = TRUE]]
  /\ UNCHANGED <<hook, evaluation, alertFaults, repeated>>

EditHook(h) ==
  /\ \E s \in {"on", "off", "gone"} :
       /\ hook[h] # s /\ hook[h] # "gone"
       /\ hook[h] = "new" => s = "on"
       /\ hook' = [hook EXCEPT ![h] = s]
  /\ UNCHANGED <<alertRule, evaluation, alertFaults, repeated>>

-----------------------------------------------------------------------------
(* The service.                                                             *)

\* The rules are read once, with their firedAt.
EvaluateAlerts(v) ==
  /\ ~evaluation[v].busy
  /\ \E r \in Rules : alertRule[r].present /\ alertRule[r].enabled
  /\ evaluation' = [evaluation EXCEPT ![v] =
       [Done EXCEPT !.busy = TRUE,
          !.todo = {[id |-> r, cooling |-> alertRule[r].cooling, stale |-> FALSE] :
                    r \in {s \in Rules : alertRule[s].present /\ alertRule[s].enabled}}]]
  /\ UNCHANGED <<alertRule, hook, alertFaults, repeated>>

\* (Defect for a mutant run: the cooldown is compared a minute off.)
MutantCooling(v, e) == e.cooling > evaluation[v].age + 1

\* now - firedAt < cooldown, with the firedAt the evaluation has read.
Cooling(v, e) == e.cooling > evaluation[v].age

\* The rule is cooling, the window holds no sample, the average is not above the
\* threshold, or the row is gone and the update throws: on to the next rule.
Spare(v, e) ==
  /\ evaluation[v].step = "judge" /\ e \in evaluation[v].todo
  /\ evaluation' = [evaluation EXCEPT ![v].todo = @ \ {e}]
  /\ UNCHANGED <<alertRule, hook, alertFaults, repeated>>

\* The average is above the threshold: firedAt is written first.
Judge(v, e) ==
  /\ evaluation[v].step = "judge" /\ e \in evaluation[v].todo
  /\ ~Cooling(v, e) /\ alertRule[e.id].present
  /\ repeated' = IF ~e.stale /\ alertRule[e.id].cooling > 0 THEN repeated \cup {e.id} ELSE repeated
  /\ alertRule' = [alertRule EXCEPT ![e.id].cooling = Cooldown]
  /\ evaluation' = [w \in Evaluations |->
       LET others == {[f EXCEPT !.stale = @ \/ f.id = e.id] : f \in evaluation[w].todo} IN
       IF w = v THEN [evaluation[v] EXCEPT !.todo = @ \ {e}, !.step = "fire", !.current = {e}]
                ELSE [evaluation[w] EXCEPT !.todo = others]]
  /\ UNCHANGED <<hook, alertFaults>>

\* WebhooksService.fire reads the active webhooks that want the event.
Fire(v) ==
  /\ evaluation[v].step = "fire"
  /\ evaluation' = [evaluation EXCEPT ![v].step = "deliver",
                                      ![v].open = {h \in Hooks : hook[h] = "on"}]
  /\ UNCHANGED <<alertRule, hook, alertFaults, repeated>>

\* The POST is answered, refused or times out; then the delivery is recorded, which
\* throws if the webhook has been removed meanwhile.
Deliver(v, h) ==
  /\ evaluation[v].step = "deliver" /\ h \in evaluation[v].open
  /\ evaluation' = [evaluation EXCEPT ![v].open = @ \ {h}]
  /\ UNCHANGED <<alertRule, hook, alertFaults, repeated>>

\* Promise.allSettled: every delivery has ended, and none that failed counts.
Settled(v) == evaluation[v].step = "deliver" /\ evaluation[v].open = {}

\* The mails to the administrators; MailService.send never throws.
Mail(v) ==
  /\ Settled(v)
  /\ evaluation' = [evaluation EXCEPT ![v].step = "judge", ![v].current = {}]
  /\ UNCHANGED <<alertRule, hook, alertFaults, repeated>>

EndEvaluation(v) ==
  /\ evaluation[v].busy /\ evaluation[v].step = "judge" /\ evaluation[v].todo = {}
  /\ evaluation' = [evaluation EXCEPT ![v] = Done]
  /\ UNCHANGED <<alertRule, hook, alertFaults, repeated>>

\* Reading the samples, the webhooks or the administrators fails.
AlertReadFails(v) ==
  /\ alertFaults > 0 /\ alertFaults' = alertFaults - 1
  /\ \/ /\ evaluation[v].step = "fire"
        /\ evaluation' = [evaluation EXCEPT ![v].step = "judge", ![v].current = {}]
     \/ /\ Settled(v)
        /\ evaluation' = [evaluation EXCEPT ![v].step = "judge", ![v].current = {}]
  /\ UNCHANGED <<alertRule, hook, repeated>>

AlertsRestart ==
  /\ alertFaults > 0 /\ \E v \in Evaluations : evaluation[v].busy
  /\ alertFaults' = alertFaults - 1
  /\ evaluation' = [v \in Evaluations |-> Done]
  /\ UNCHANGED <<alertRule, hook, repeated>>

\* A minute passes; an evaluation is followed for Cooldown minutes.
Minute ==
  /\ \A v \in Evaluations : evaluation[v].busy => evaluation[v].age < Cooldown
  /\ alertRule' = [r \in Rules |-> [alertRule[r] EXCEPT !.cooling = IF @ > 0 THEN @ - 1 ELSE 0]]
  /\ evaluation' = [v \in Evaluations |->
       IF evaluation[v].busy THEN [evaluation[v] EXCEPT !.age = @ + 1] ELSE evaluation[v]]
  /\ UNCHANGED <<hook, alertFaults, repeated>>

AlertNext ==
  \/ \E r \in Rules : CreateRule(r) \/ UpdateRule(r) \/ RemoveRule(r)
  \/ \E h \in Hooks : EditHook(h)
  \/ \E v \in Evaluations :
       \/ EvaluateAlerts(v)
       \/ \E e \in evaluation[v].todo : Spare(v, e) \/ Judge(v, e)
       \/ Fire(v) \/ Mail(v) \/ EndEvaluation(v) \/ AlertReadFails(v)
       \/ \E h \in Hooks : Deliver(v, h)
  \/ AlertsRestart
  \/ Minute

AlertSpec == AlertInit /\ [][AlertNext]_alertVars

-----------------------------------------------------------------------------
(* Properties.                                                              *)

\* A rule that has fired stays silent for its cooldown, however its evaluations
\* overlap, except for one that had read the rule before it fired.
CooldownIsKept == repeated = {}
=============================================================================
