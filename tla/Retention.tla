----------------------------- MODULE Retention -----------------------------
(***************************************************************************)
(* What happens to the older backups of one VM when a backup task has      *)
(* succeeded: TasksService.process calls pruneBackups, which lists the     *)
(* completed rows, newest first, and deletes all but the first keepLast    *)
(* one by one.  Several backup tasks of a VM may be at work, so their      *)
(* lists may overlap; a row that is already gone makes the delete throw,   *)
(* and the whole task, the copy included, is tried again.  Rows are        *)
(* numbered in the order of createdAt.                                     *)
(***************************************************************************)
EXTENDS Naturals, FiniteSets

CONSTANTS Copies,      \* rows that may be created, 1..n
          KeepLast,    \* payload.keepLast ?? 3
          Tries        \* attempts of a backup task

ASSUME CopyAssumption ==
  IsFiniteSet(Copies) /\ Copies \subseteq Nat /\ KeepLast \in Nat /\ Tries \in Nat \ {0}

VARIABLES copy,        \* state of each row of table Backup
          work,        \* what the task of each row is doing, and its attempts
          old,         \* rows the task's pruneBackups has listed and not yet deleted
          pruned       \* history: rows deleted by the retention

copyVars == <<copy, work, old, pruned>>

Never == [step |-> "none", tries |-> 0]

CopyTypeOK ==
  /\ copy \in [Copies -> {"none", "running", "completed", "lost", "gone"}]
  /\ work \in [Copies -> [step : {"none", "copy", "list", "delete", "done", "failed"},
                          tries : 0..Tries]]
  /\ old \in [Copies -> SUBSET Copies]
  /\ pruned \subseteq Copies

CopyInit ==
  /\ copy = [b \in Copies |-> "none"]
  /\ work = [b \in Copies |-> Never]
  /\ old = [b \in Copies |-> {}]
  /\ pruned = {}

\* backup.create and enqueue; createdAt orders the rows.
CreateCopy(b) ==
  /\ copy[b] = "none" /\ \A a \in Copies : a < b => copy[a] # "none"
  /\ copy' = [copy EXCEPT ![b] = "running"]
  /\ work' = [work EXCEPT ![b] = [step |-> "copy", tries |-> 0]]
  /\ UNCHANGED <<old, pruned>>

\* BackupsService.remove deletes the row in whatever state it is ("lost" if it
\* was not completed).
RemoveCopy(b) ==
  /\ copy[b] \in {"running", "completed"}
  /\ copy' = [copy EXCEPT ![b] = IF @ = "running" THEN "lost" ELSE "gone"]
  /\ UNCHANGED <<work, old, pruned>>

\* An attempt ends with an error: it is repeated from the start or given up.
Attempt(b) == work[b].tries + 1
Fail(b) ==
  /\ work' = [work EXCEPT ![b] = [step |-> IF Attempt(b) < Tries THEN "copy" ELSE "failed",
                                  tries |-> Attempt(b)]]
  /\ old' = [old EXCEPT ![b] = {}]

\* The agent has copied the disk and the row is completed; the update throws when
\* the row is gone.
CopyEnds(b) ==
  /\ work[b].step = "copy"
  /\ \/ /\ copy[b] \in {"running", "completed"}
        /\ copy' = [copy EXCEPT ![b] = "completed"]
        /\ work' = [work EXCEPT ![b].step = "list"]
        /\ UNCHANGED old
     \/ Fail(b) /\ UNCHANGED copy
  /\ UNCHANGED pruned

Completed == {c \in Copies : copy[c] = "completed"}
\* (Defect for a mutant run: the list is sorted the wrong way round.)
MutantBeyond == {c \in Completed : Cardinality({d \in Completed : d < c}) >= KeepLast}

\* findMany(state completed, newest first).slice(keepLast)
Beyond == {c \in Completed : Cardinality({d \in Completed : d > c}) >= KeepLast}

ListOld(b) ==
  /\ work[b].step = "list"
  /\ old' = [old EXCEPT ![b] = Beyond]
  /\ work' = [work EXCEPT ![b].step = "delete"]
  /\ UNCHANGED <<copy, pruned>>

\* backup.delete, newest of the list first; a row that is gone throws.
DeleteOld(b) ==
  /\ work[b].step = "delete"
  /\ \E c \in old[b] :
       /\ \A d \in old[b] : d <= c
       /\ \/ /\ copy[c] = "completed"
             /\ copy' = [copy EXCEPT ![c] = "gone"]
             /\ pruned' = pruned \cup {c}
             /\ old' = [old EXCEPT ![b] = @ \ {c}]
             /\ UNCHANGED work
          \/ copy[c] # "completed" /\ Fail(b) /\ UNCHANGED <<copy, pruned>>

PruneEnds(b) ==
  /\ work[b].step = "delete" /\ old[b] = {}
  /\ work' = [work EXCEPT ![b].step = "done"]
  /\ UNCHANGED <<copy, old, pruned>>

CopyNext ==
  \E b \in Copies : \/ CreateCopy(b) \/ RemoveCopy(b) \/ CopyEnds(b)
                    \/ ListOld(b) \/ DeleteOld(b) \/ PruneEnds(b)

CopySpec == CopyInit /\ [][CopyNext]_copyVars

\* The retention deletes a backup only while KeepLast newer ones were completed
\* that it has not deleted either, however many tasks prune at once, fail half way
\* and start again: it never eats into the newest KeepLast.
PrunedHasNewer ==
  \A b \in pruned :
    Cardinality({c \in Copies \ pruned :
                   c > b /\ copy[c] \in {"completed", "gone"}}) >= KeepLast
=============================================================================
