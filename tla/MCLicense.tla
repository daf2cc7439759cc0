------------------------------ MODULE MCLicense ------------------------------
(* Instances of License for TLC.                                           *)
EXTENDS License, FiniteSets, TLC

CONSTANTS k1, k2, p1, p2

\* Executions overlap as long as one key is in play and no call of the
\* database has been rejected; a second key and a rejected call come in when they
\* run one after the other.  That keeps the instance small.
Untouched(k) ==
  /\ server[k] = 0
  /\ cache[k].version = NoAnswer
  /\ k \notin {dbKey, envKey, state.key}
  /\ \A p \in Proc : run[p].key # k

OneByOne == Cardinality({p \in Proc : ~At(p, "idle")}) <= 1

\* The executions are alike: the second one starts beside the first only.
FirstOneFirst == At(p2, "idle") /\ ~At(p2, "idle")' => ~At(p1, "idle")

Modest ==
  /\ FirstOneFirst
  /\ OneByOne' \/ (Untouched(k2)' /\ faults' = 0)

ModestSpec == Init /\ [][Next /\ Modest]_vars /\ Fairness
=============================================================================
