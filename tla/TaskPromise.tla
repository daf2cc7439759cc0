----------------------------- MODULE TaskPromise -----------------------------
(***************************************************************************)
(* What the task subsystem promises about one command, whatever the queue, *)
(* the retries and the table rows do underneath (POST answers with a task, *)
(* docs/API.md; TasksService implements it): a command is open until it is *)
(* reported, it is carried out at most once, it is reported as succeeded   *)
(* only after it has been carried out and as failed only if it never was,  *)
(* and a report is final.                                                  *)
(*                                                                         *)
(* A command hit by a fault that the panel cannot see through (a rejected  *)
(* write, a lost lock, a crash) is excused, and says nothing any more.     *)
(* TaskQueue implements this module: see KeepsPromise there.               *)
(***************************************************************************)
EXTENDS Naturals

CONSTANT Command

VARIABLES
  outcome,  \* what the panel shows of a command
  done      \* how often the command has been carried out

vars == <<outcome, done>>

Outcome == {"new", "open", "succeeded", "failed", "excused"}

Init ==
  /\ outcome = [c \in Command |-> "new"]
  /\ done = [c \in Command |-> 0]

Accept(c) ==
  /\ outcome[c] = "new"
  /\ outcome' = [outcome EXCEPT ![c] = "open"]
  /\ UNCHANGED done

CarryOut(c) ==
  /\ outcome[c] = "open"
  /\ done[c] = 0
  /\ done' = [done EXCEPT ![c] = 1]
  /\ UNCHANGED outcome

Report(c) ==
  /\ outcome[c] = "open"
  /\ outcome' = [outcome EXCEPT
                   ![c] = IF done[c] = 1 THEN "succeeded" ELSE "failed"]
  /\ UNCHANGED done

\* One fault may excuse several commands; their past no longer counts.
Excuse(C) ==
  /\ outcome' = [c \in Command |-> IF c \in C THEN "excused" ELSE outcome[c]]
  /\ done' = [c \in Command |-> IF c \in C THEN 0 ELSE done[c]]

Next ==
  \/ \E c \in Command : Accept(c) \/ CarryOut(c) \/ Report(c)
  \/ \E C \in SUBSET Command : Excuse(C)

Spec == Init /\ [][Next]_vars
=============================================================================
