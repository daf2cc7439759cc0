----------------------------- MODULE Assistant -----------------------------
(***************************************************************************)
(* The assistant: the model proposes a plan, AiService keeps it in Redis   *)
(* for five minutes, the user confirms it on a card (AiPanel and           *)
(* AiAssistantPage work alike), and ActionExecutorService carries its      *)
(* steps out one after the other.  The server does not delete a plan it    *)
(* has executed; what keeps it from running again is the state of a card.  *)
(***************************************************************************)
EXTENDS Naturals, FiniteSets

CONSTANTS Proposals,   \* plans
          PlanSteps,   \* steps of a plan
          Backups,     \* <<p, n>>: step n of plan p asks for a backup
          Executions   \* executions under way at once

VARIABLES chat,        \* the conversation: idle, or waiting for the stream
          stored,      \* the plan in Redis
          card,        \* ActionPlanCard.status
          execution,   \* POST /ai/execute requests on the server
          called,      \* how often the executor has done its part of each step
          carriedOut,  \* how often each step has reached the service that does it
          reported     \* plans the panel calls carried out without an error

assistantVars == <<chat, stored, card, execution, called, carriedOut, reported>>

NoProposal == "none"
NoExecution == [plan |-> NoProposal, next |-> 1, step |-> "none", ok |-> TRUE, heard |-> TRUE]

AssistantTypeOK ==
  /\ chat \in {"idle", "streaming"}
  /\ stored \in [Proposals -> {"new", "stored", "expired"}]
  /\ card \in [Proposals -> {"none", "pending", "executing", "done", "rejected"}]
  /\ execution \in [Executions -> [plan : Proposals \cup {NoProposal}, next : 1..PlanSteps + 1,
                                   step : {"none", "sent", "running", "answered"}, ok : BOOLEAN,
                                   heard : BOOLEAN]]
  /\ called \in [Proposals -> [1..PlanSteps -> 0..Cardinality(Executions)]]
  /\ carriedOut \in [Proposals -> [1..PlanSteps -> 0..Cardinality(Executions)]]
  /\ reported \subseteq Proposals

AssistantInit ==
  /\ chat = "idle"
  /\ stored = [p \in Proposals |-> "new"]
  /\ card = [p \in Proposals |-> "none"]
  /\ execution = [x \in Executions |-> NoExecution]
  /\ called = [p \in Proposals |-> [n \in 1..PlanSteps |-> 0]]
  /\ carriedOut = [p \in Proposals |-> [n \in 1..PlanSteps |-> 0]]
  /\ reported = {}

-----------------------------------------------------------------------------
(* The conversation.                                                        *)

Send ==
  /\ chat = "idle"
  /\ chat' = "streaming"
  /\ UNCHANGED <<stored, card, execution, called, carriedOut, reported>>

\* The final message holds a plan: it is stored, then the card is shown, unless the
\* stream has broken or the conversation has been cleared.
Propose(p) ==
  /\ chat = "streaming" /\ stored[p] = "new"
  /\ stored' = [stored EXCEPT ![p] = "stored"]
  /\ \/ card' = [card EXCEPT ![p] = "pending"] /\ UNCHANGED chat
     \/ chat' = "idle" /\ UNCHANGED card
  /\ UNCHANGED <<execution, called, carriedOut, reported>>

\* done, error, or the stream ends.
EndStream ==
  /\ chat = "streaming"
  /\ chat' = "idle"
  /\ UNCHANGED <<stored, card, execution, called, carriedOut, reported>>

\* EX 300.
PlanExpires(p) ==
  /\ stored[p] = "stored"
  /\ stored' = [stored EXCEPT ![p] = "expired"]
  /\ UNCHANGED <<chat, card, execution, called, carriedOut, reported>>

-----------------------------------------------------------------------------
(* The card.                                                                *)

\* (Defect for a mutant run: the card is left as it is until the answer arrives.)
MutantConfirmed(p) == card[p]

Confirmed(p) == "executing"

\* The buttons are shown for a pending plan only.
ConfirmPlan(p, x) ==
  /\ card[p] = "pending" /\ execution[x].step = "none"
  /\ card' = [card EXCEPT ![p] = Confirmed(p)]
  /\ execution' = [execution EXCEPT ![x] = [NoExecution EXCEPT !.plan = p, !.step = "sent"]]
  /\ UNCHANGED <<chat, stored, called, carriedOut, reported>>

RejectPlan(p) ==
  /\ card[p] = "pending"
  /\ card' = [card EXCEPT ![p] = "rejected"]
  /\ UNCHANGED <<chat, stored, execution, called, carriedOut, reported>>

\* The messages are cleared; an execution goes on.
ClearMessages ==
  /\ \E p \in Proposals : card[p] # "none"
  /\ card' = [p \in Proposals |-> "none"]
  /\ UNCHANGED <<chat, stored, execution, called, carriedOut, reported>>

Settle(p) == card' = [card EXCEPT ![p] = IF @ = "none" THEN "none" ELSE "done"]

\* results.every(success) is what the note and the card go by.
ResultsArrive(x) ==
  LET e == execution[x] IN
    /\ e.step = "answered"
    /\ IF e.heard THEN Settle(e.plan) ELSE UNCHANGED card
    /\ reported' = IF e.heard /\ e.ok THEN reported \cup {e.plan} ELSE reported
    /\ execution' = [execution EXCEPT ![x] = NoExecution]
    /\ UNCHANGED <<chat, stored, called, carriedOut>>

\* The connection breaks: the card says done all the same, with an error, and the
\* server goes on.
AnswerIsLost(x) ==
  /\ execution[x].step # "none" /\ execution[x].heard
  /\ Settle(execution[x].plan)
  /\ execution' = [execution EXCEPT ![x].heard = FALSE]
  /\ UNCHANGED <<chat, stored, called, carriedOut, reported>>

-----------------------------------------------------------------------------
(* The server.                                                              *)

\* 404 for a plan that has expired, 403 for another user's, or the panel has stopped.
ExecuteFails(x) ==
  /\ \/ execution[x].step = "sent"
     \/ execution[x].step \in {"running", "answered"} /\ ~execution[x].heard
  /\ IF execution[x].heard THEN Settle(execution[x].plan) ELSE UNCHANGED card
  /\ execution' = [execution EXCEPT ![x] = NoExecution]
  /\ UNCHANGED <<chat, stored, called, carriedOut, reported>>

\* getPlan and the check of the user; the permissions of the steps are not checked.
GetPlan(x) ==
  /\ execution[x].step = "sent" /\ stored[execution[x].plan] = "stored"
  /\ execution' = [execution EXCEPT ![x].step = "running"]
  /\ UNCHANGED <<chat, stored, card, called, carriedOut, reported>>

\* A step calls the service a page would call, which makes the row and enqueues the
\* task; for a backup the executor inserts a row that says running, and nothing else.
IsBackup(p, n) == <<p, n>> \in Backups

ExecuteStep(x) ==
  LET e == execution[x] IN
    /\ e.step = "running" /\ e.next <= PlanSteps
    /\ called' = [called EXCEPT ![e.plan][e.next] = @ + 1]
    /\ carriedOut' = IF IsBackup(e.plan, e.next) THEN carriedOut
                     ELSE [carriedOut EXCEPT ![e.plan][e.next] = @ + 1]
    /\ execution' = [execution EXCEPT ![x].next = @ + 1]
    /\ UNCHANGED <<chat, stored, card, reported>>

AfterFailure(e) == [e EXCEPT !.step = "answered", !.ok = FALSE]

\* A step throws: it is the last one in the results.
StepThrows(x) ==
  LET e == execution[x] IN
    /\ e.step = "running" /\ e.next <= PlanSteps
    /\ execution' = [execution EXCEPT ![x] = AfterFailure(e)]
    /\ UNCHANGED <<chat, stored, card, called, carriedOut, reported>>

EndOfPlan(x) ==
  /\ execution[x].step = "running" /\ execution[x].next > PlanSteps
  /\ execution' = [execution EXCEPT ![x].step = "answered"]
  /\ UNCHANGED <<chat, stored, card, called, carriedOut, reported>>

AssistantNext ==
  \/ Send \/ EndStream \/ ClearMessages
  \/ \E p \in Proposals : \/ Propose(p) \/ PlanExpires(p) \/ RejectPlan(p)
                          \/ \E x \in Executions : ConfirmPlan(p, x)
  \/ \E x \in Executions : \/ ResultsArrive(x) \/ ExecuteFails(x) \/ GetPlan(x) \/ ExecuteStep(x)
                           \/ StepThrows(x) \/ EndOfPlan(x) \/ AnswerIsLost(x)

AssistantSpec == AssistantInit /\ [][AssistantNext]_assistantVars

-----------------------------------------------------------------------------
(* Properties.                                                              *)

\* The steps of a plan are carried out once at most and in their order, none after
\* one that has failed, although the server would run a stored plan any number of
\* times; and what the panel calls carried out has been, to the last step, but for
\* its backups, of which only the row has been made, also once.
PlanIsCarriedOutOnce ==
  \A p \in Proposals :
    /\ \A n \in 1..PlanSteps : carriedOut[p][n] <= called[p][n] /\ called[p][n] <= 1
    /\ \A n \in 1..PlanSteps, k \in 1..PlanSteps :
         n < k => called[p][k] <= called[p][n]
    /\ p \in reported =>
         \A n \in 1..PlanSteps : /\ called[p][n] = 1
                                 /\ IsBackup(p, n) \/ carriedOut[p][n] = 1
=============================================================================
