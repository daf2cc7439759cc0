---------------------------- MODULE LicenseProofs ----------------------------
(* Proofs about License: the keys of environment and database agree, and   *)
(* what the memory of the process says is backed by the stored answers, for *)
(* every set of keys and executions; and about LicenseKey: what the check   *)
(* character of a key catches, for every length of charset and key.        *)
EXTENDS License, LicenseKey, SequenceTheorems, WellFoundedInduction, TLAPS

Label == {"idle"} \union Refreshing \union Activating

Runs == [pc : Label, task : {"activate", "refresh"}, key : Key \union {NoKey},
         answer : Version \union {NoAnswer}]

WithKey == {"remember", "call", "store", "fallback", "assign", "assignCached"}

\* Only an activation is at a step of activate, an idle execution is none, and
\* who works with a key has one.
PlaceInv ==
  \A p \in Proc :
    /\ run[p].pc \in Activating => ActivationRuns(p)
    /\ run[p].pc \in WithKey => run[p].key \in Key
    /\ ActivationRuns(p) => run[p].key \in Key /\ ~At(p, "idle")
    /\ At(p, "store") => run[p].answer \in Version

LicenseInv == TypeOK /\ PlaceInv

\* The initial state, with an idle execution everywhere.
LEMMA InitLicense == Init => LicenseInv
<1> SUFFICES ASSUME Init
             PROVE  LicenseInv
  OBVIOUS
<1>1. 0 \in Version /\ 0 \in 0 .. MaxCrashes /\ 0 \in 0 .. MaxFaults
  BY LicenseAssumption DEF Version
<1>2. /\ server \in [Key -> Version]
      /\ cache \in [Key -> [version : Version \union {NoAnswer}, recent : BOOLEAN]]
  BY <1>1 DEF Init
<1>3. /\ phase \in Phase
      /\ dbKey \in Key \union {NoKey}
      /\ envKey \in Key \union {NoKey}
      /\ state \in [status : {"unconfigured", "unlicensed", "active", "grace"},
                    key : Key \union {NoKey}]
  BY DEF Init, Phase, Unconfigured, State
<1>4. Idle \in Runs
  BY DEF Idle, Run, Runs, Label
<1>5. run \in [Proc -> Runs] /\ \A p \in Proc : run[p] = Idle
  BY <1>4 DEF Init
<1>6. PlaceInv
  BY <1>5 DEF PlaceInv, Idle, Run, Activating, WithKey, ActivationRuns, At
<1> QED
  BY <1>1, <1>2, <1>3, <1>5, <1>6 DEF Init, LicenseInv, TypeOK, Runs, Label

\* The record of an execution after a step.
LEMMA RunChanges ==
  ASSUME LicenseInv, NEW p \in Proc, NEW r \in Runs, run' = [run EXCEPT ![p] = r],
         r.pc \in Activating => r.task = "activate",
         r.pc \in WithKey => r.key \in Key,
         r.task = "activate" => r.key \in Key /\ r.pc # "idle",
         r.pc = "store" => r.answer \in Version
  PROVE  run' \in [Proc -> Runs] /\ PlaceInv'
<1>1. run \in [Proc -> Runs]
  BY DEF LicenseInv, TypeOK, Runs, Label
<1> HIDE DEF Runs
<1>2. run' \in [Proc -> Runs]
  BY <1>1
<1>3. run'[p] = r /\ \A q \in Proc \ {p} : run'[q] = run[q]
  BY <1>1
<1> QED
  BY <1>2, <1>3 DEF LicenseInv, PlaceInv, ActivationRuns, At

\* The three ways in which most steps leave the record.
LEMMA GotoChanges ==
  ASSUME LicenseInv, NEW p \in Proc, NEW label \in Label, Goto(p, label),
         label \in Activating => ActivationRuns(p),
         label \in WithKey => run[p].pc \in WithKey \/ ActivationRuns(p),
         label \notin {"store", "idle"}
  PROVE  run' \in [Proc -> Runs] /\ PlaceInv'
<1>1. run[p] \in Runs
  BY DEF LicenseInv, TypeOK, Runs, Label
<1>2. [run[p] EXCEPT !.pc = label] \in Runs
  BY <1>1 DEF Runs
<1>3. run' = [run EXCEPT ![p] = [run[p] EXCEPT !.pc = label]]
  BY DEF Goto
<1>4. run[p].pc \in WithKey \/ ActivationRuns(p) => run[p].key \in Key
  BY DEF LicenseInv, PlaceInv
<1> DEFINE r == [run[p] EXCEPT !.pc = label]
<1>5. r.pc = label /\ r.task = run[p].task /\ r.key = run[p].key
  BY <1>1 DEF Runs
<1>6. r.task = "activate" <=> ActivationRuns(p)
  BY <1>5 DEF ActivationRuns
<1> HIDE DEF r
<1> QED
  BY <1>2, <1>3, <1>4, <1>5, <1>6, RunChanges DEF r

\* An execution that ends is idle.
LEMMA EndChanges ==
  ASSUME LicenseInv, NEW p \in Proc, End(p)
  PROVE  run' \in [Proc -> Runs] /\ PlaceInv'
<1>1. Idle \in Runs
  BY DEF Idle, Run, Runs, Label
<1>2. Idle.pc = "idle" /\ Idle.task = "refresh"
  BY DEF Idle, Run
<1>3. "idle" \notin Activating /\ "idle" \notin WithKey
  BY DEF Activating, WithKey
<1> QED
  BY <1>1, <1>2, <1>3, RunChanges DEF End

\* The types of everything but the executions.
Typed ==
  /\ server \in [Key -> Version]
  /\ phase \in Phase
  /\ dbKey \in Key \union {NoKey}
  /\ cache \in [Key -> [version : Version \union {NoAnswer}, recent : BOOLEAN]]
  /\ envKey \in Key \union {NoKey}
  /\ state \in [status : {"unconfigured", "unlicensed", "active", "grace"},
                key : Key \union {NoKey}]
  /\ booting \in BOOLEAN
  /\ crashes \in 0 .. MaxCrashes
  /\ faults \in 0 .. MaxFaults
  /\ overlapped \subseteq Proc
  /\ mixed \in BOOLEAN
  /\ checked \in BOOLEAN
  /\ concurrent \in BOOLEAN
  /\ cut \in BOOLEAN

\* The type invariant, with the record of the executions apart.
LEMMA TypedIs == TypeOK <=> Typed /\ run \in [Proc -> Runs]
  BY DEF TypeOK, Typed, Runs, Label

\* The same of the next state.
LEMMA TypedIsNext == TypeOK' <=> Typed' /\ run' \in [Proc -> Runs]
  BY DEF TypeOK, Typed, Runs, Label

\* A rejected call is counted.
LEMMA FaultsAreCounted == Typed /\ Rejected => faults' \in 0 .. MaxFaults
  BY LicenseAssumption DEF Typed, Rejected

\* The ways into refresh and out of it.
LEMMA EnterChanges ==
  ASSUME LicenseInv, NEW p \in Proc, EnterRefresh(p)
  PROVE  /\ run' \in [Proc -> Runs] /\ PlaceInv'
         /\ overlapped' \subseteq Proc
         /\ UNCHANGED <<mixed, checked>>
<1>1. Goto(p, "phase")
  BY DEF EnterRefresh
<1>2. run' \in [Proc -> Runs] /\ PlaceInv'
  BY <1>1, GotoChanges DEF Label, Refreshing, Activating, WithKey
<1>3. overlapped \subseteq Proc
  BY DEF LicenseInv, TypeOK
<1> QED
  BY <1>2, <1>3 DEF EnterRefresh

\* A refresh that throws goes to the catch block of its activation, or ends.
LEMMA ThrowChanges ==
  ASSUME LicenseInv, NEW p \in Proc, ThrowRefresh(p)
  PROVE  /\ run' \in [Proc -> Runs] /\ PlaceInv'
         /\ overlapped' \subseteq Proc
         /\ UNCHANGED <<state, mixed, checked>>
<1>1. CASE ActivationRuns(p)
  BY <1>1, GotoChanges
     DEF ThrowRefresh, LicenseInv, TypeOK, Label, Refreshing, Activating, WithKey
<1>2. CASE ~ActivationRuns(p)
  BY <1>2, EndChanges DEF ThrowRefresh, LicenseInv, TypeOK
<1> QED
  BY <1>1, <1>2

\* A refresh that returns has assigned the state.
LEMMA LeaveChanges ==
  ASSUME LicenseInv, NEW p \in Proc, NEW s, LeaveRefresh(p, s)
  PROVE  /\ run' \in [Proc -> Runs] /\ PlaceInv'
         /\ overlapped' \subseteq Proc
         /\ state' = s
         /\ mixed' \in BOOLEAN /\ checked' \in BOOLEAN
<1>1. CASE ActivationRuns(p)
  BY <1>1, GotoChanges
     DEF LeaveRefresh, LicenseInv, TypeOK, Label, Refreshing, Activating, WithKey
<1>2. CASE ~ActivationRuns(p)
  BY <1>2, EndChanges DEF LeaveRefresh, LicenseInv, TypeOK
<1> QED
  BY <1>1, <1>2

\* Every step keeps the types and what is said of the places.
LEMMA LicenseStep == LicenseInv /\ [Next]_vars => LicenseInv'
<1> SUFFICES ASSUME LicenseInv, [Next]_vars
             PROVE  Typed' /\ run' \in [Proc -> Runs] /\ PlaceInv'
  BY TypedIsNext DEF LicenseInv
<1> DEFINE Goal == Typed' /\ run' \in [Proc -> Runs] /\ PlaceInv'
<1>t. Typed /\ run \in [Proc -> Runs] /\ PlaceInv
  BY TypedIs DEF LicenseInv
<1>s. ASSUME UNCHANGED run
      PROVE  run' \in [Proc -> Runs] /\ PlaceInv'
  BY <1>t, <1>s DEF PlaceInv, ActivationRuns, At
<1>1. ASSUME NEW p \in Proc, StartRefresh(p)
      PROVE  Goal
  BY <1>1, <1>t, EnterChanges DEF StartRefresh, Typed, db, memory, bounds
<1>2. ASSUME NEW p \in Proc, ReadPhase(p)
      PROVE  Goal
  <2>1. PICK label \in {"envOnly", "envOrDb"} : Goto(p, label)
    BY <1>2 DEF ReadPhase
  <2>2. run' \in [Proc -> Runs] /\ PlaceInv'
    BY <2>1, GotoChanges DEF Label, Refreshing, Activating, WithKey
  <2> QED
    BY <1>2, <1>t, <2>2, FaultsAreCounted
       DEF ReadPhase, Typed, db, memory, history, refreshHistory
<1>3. ASSUME NEW p \in Proc, ReadKey(p)
      PROVE  Goal
  <2>1. UNCHANGED <<server, phase, dbKey, cache, envKey, booting, crashes, concurrent, cut>>
    BY <1>3 DEF ReadKey, db
  <2>2. ASSUME NEW label \in {"call", "remember"}, NEW k \in Key,
               run' = [run EXCEPT ![p].pc = label, ![p].key = k],
               UNCHANGED <<state, faults, refreshHistory>>
        PROVE  Goal
    <3> DEFINE r == [run[p] EXCEPT !.pc = label, !.key = k]
    <3>1. run' = [run EXCEPT ![p] = r]
      BY <2>2
    <3>2. r \in Runs /\ r.pc = label /\ r.key = k /\ r.task = run[p].task
      BY <1>t DEF Runs, Label, Refreshing
    <3>3. label \notin Activating /\ label # "store"
      BY DEF Activating
    <3> HIDE DEF r
    <3>4. run' \in [Proc -> Runs] /\ PlaceInv'
      BY <3>1, <3>2, <3>3, RunChanges
    <3> QED
      BY <1>t, <2>1, <2>2, <3>4 DEF Typed, refreshHistory
  <2>3. ASSUME LeaveRefresh(p, Unconfigured), UNCHANGED faults
        PROVE  Goal
    BY <1>t, <2>1, <2>3, LeaveChanges DEF Typed, Unconfigured, State
  <2>4. ASSUME Rejected, ThrowRefresh(p)
        PROVE  Goal
    BY <1>t, <2>1, <2>4, ThrowChanges, FaultsAreCounted DEF Typed
  <2> QED
    BY <1>3, <1>t, <2>2, <2>3, <2>4 DEF ReadKey, Typed
<1>4. ASSUME NEW p \in Proc, RememberKey(p)
      PROVE  Goal
  <2>1. run[p].pc \in WithKey /\ run[p].key \in Key
    BY <1>4, <1>t DEF RememberKey, At, PlaceInv, WithKey
  <2>2. run' \in [Proc -> Runs] /\ PlaceInv'
    BY <1>4, <2>1, GotoChanges DEF RememberKey, Label, Refreshing, Activating
  <2> QED
    BY <1>4, <1>t, <2>1, <2>2
       DEF RememberKey, Typed, db, bounds, history, refreshHistory
<1>5. ASSUME NEW p \in Proc, Validate(p)
      PROVE  Goal
  <2>1. run[p].pc \in WithKey /\ run[p].key \in Key
    BY <1>5, <1>t DEF Validate, At, PlaceInv, WithKey
  <2>2. ASSUME run' = [run EXCEPT ![p].pc = "store", ![p].answer = server[run[p].key]]
        PROVE  run' \in [Proc -> Runs] /\ PlaceInv'
    <3> DEFINE r == [run[p] EXCEPT !.pc = "store", !.answer = server[run[p].key]]
    <3>1. run' = [run EXCEPT ![p] = r]
      BY <2>2
    <3>2. server[run[p].key] \in Version
      BY <1>t, <2>1 DEF Typed
    <3>3. /\ r \in Runs /\ r.pc = "store" /\ r.key = run[p].key
          /\ r.task = run[p].task /\ r.answer \in Version
      BY <1>t, <3>2 DEF Runs, Label, Refreshing
    <3>4. "store" \notin Activating
      BY DEF Activating
    <3> HIDE DEF r
    <3> QED
      BY <2>1, <3>1, <3>3, <3>4, RunChanges
  <2>3. ASSUME Goto(p, "fallback")
        PROVE  run' \in [Proc -> Runs] /\ PlaceInv'
    BY <2>1, <2>3, GotoChanges DEF Label, Refreshing, Activating
  <2>4. run' \in [Proc -> Runs] /\ PlaceInv'
    BY <1>5, <2>2, <2>3 DEF Validate
  <2> QED
    BY <1>5, <1>t, <2>4 DEF Validate, Typed, db, memory, bounds, history, refreshHistory
<1>6. ASSUME NEW p \in Proc, Store(p)
      PROVE  Goal
  <2>1. run[p].pc \in WithKey /\ run[p].key \in Key /\ run[p].answer \in Version
    BY <1>6, <1>t DEF Store, At, PlaceInv, WithKey
  <2>2. PICK label \in {"assign", "fallback"} : Goto(p, label)
    BY <1>6 DEF Store
  <2>3. run' \in [Proc -> Runs] /\ PlaceInv'
    BY <2>1, <2>2, GotoChanges DEF Label, Refreshing, Activating
  <2>4. cache' \in [Key -> [version : Version \union {NoAnswer}, recent : BOOLEAN]]
    <3> DEFINE Answers == [version : Version \union {NoAnswer}, recent : BOOLEAN]
               c == [version |-> run[p].answer, recent |-> TRUE]
    <3>1. c \in Answers /\ cache \in [Key -> Answers]
      BY <1>t, <2>1 DEF Typed
    <3>2. cache' = cache \/ cache' = [cache EXCEPT ![run[p].key] = c]
      BY <1>6 DEF Store
    <3> HIDE DEF Answers, c
    <3>3. cache' \in [Key -> Answers]
      BY <3>1, <3>2
    <3> QED
      BY <3>3 DEF Answers
  <2>5. faults' \in 0 .. MaxFaults
    BY <1>6, <1>t, FaultsAreCounted DEF Store, Typed
  <2> QED
    BY <1>6, <1>t, <2>3, <2>4, <2>5 DEF Store, Typed, memory, history, refreshHistory
<1>7. ASSUME NEW p \in Proc, Fallback(p)
      PROVE  Goal
  <2>1. run[p].pc \in WithKey /\ run[p].key \in Key
    BY <1>7, <1>t DEF Fallback, At, PlaceInv, WithKey
  <2>2. UNCHANGED <<server, phase, dbKey, cache, envKey, booting, crashes, concurrent, cut>>
    BY <1>7 DEF Fallback, db
  <2>3. ASSUME NEW a \in Version \union {NoAnswer},
               run' = [run EXCEPT ![p].pc = "assignCached", ![p].answer = a],
               UNCHANGED <<state, faults, refreshHistory>>
        PROVE  Goal
    <3> DEFINE r == [run[p] EXCEPT !.pc = "assignCached", !.answer = a]
    <3>1. run' = [run EXCEPT ![p] = r]
      BY <2>3
    <3>2. r \in Runs /\ r.pc = "assignCached" /\ r.key = run[p].key /\ r.task = run[p].task
      BY <1>t DEF Runs, Label, Refreshing
    <3>3. "assignCached" \notin Activating
      BY DEF Activating
    <3> HIDE DEF r
    <3>4. run' \in [Proc -> Runs] /\ PlaceInv'
      BY <2>1, <3>1, <3>2, <3>3, RunChanges
    <3> QED
      BY <1>t, <2>2, <2>3, <3>4 DEF Typed, refreshHistory
  <2>4. ASSUME Rejected, ThrowRefresh(p)
        PROVE  Goal
    BY <1>t, <2>2, <2>4, ThrowChanges, FaultsAreCounted DEF Typed
  <2>5. cache[run[p].key].version \in Version \union {NoAnswer}
    BY <1>t, <2>1 DEF Typed
  <2> QED
    BY <1>7, <2>3, <2>4, <2>5 DEF Fallback
<1>8. ASSUME NEW p \in Proc, Assign(p)
      PROVE  Goal
  <2>1. run[p].key \in Key
    BY <1>8, <1>t DEF Assign, PlaceInv, WithKey
  <2>2. LeaveRefresh(p, Licensed(p))
    BY <1>8 DEF Assign
  <2>3. Licensed(p) \in [status : {"unconfigured", "unlicensed", "active", "grace"},
                         key : Key \union {NoKey}]
    BY <2>1 DEF Licensed, State
  <2> QED
    BY <1>8, <1>t, <2>2, <2>3, LeaveChanges DEF Assign, Typed, db, bounds
<1>9. ASSUME NEW p \in Proc, NEW k \in Key, Activate(p, k)
      PROVE  Goal
  <2> DEFINE r == Run("nodes", "activate", k)
  <2>1. r \in Runs /\ r.pc = "nodes" /\ r.task = "activate" /\ r.key = k
    BY DEF Run, Runs, Label, Activating
  <2>2. run' = [run EXCEPT ![p] = r]
    BY <1>9 DEF Activate
  <2> HIDE DEF r
  <2>3. run' \in [Proc -> Runs] /\ PlaceInv'
    BY <2>1, <2>2, RunChanges DEF WithKey
  <2>4. concurrent' \in BOOLEAN
    BY <1>9 DEF Activate
  <2> QED
    BY <1>9, <1>t, <2>3, <2>4 DEF Activate, Typed, Phase, memory, bounds, refreshHistory
<1>10. ASSUME NEW p \in Proc, ActivateNodes(p)
       PROVE  Goal
  <2>1. ActivationRuns(p) /\ run[p].key \in Key
    BY <1>10, <1>t DEF ActivateNodes, At, PlaceInv, Activating
  <2>2. PICK label \in {"setActive", "rollback"} : Goto(p, label)
    BY <1>10 DEF ActivateNodes
  <2>3. run' \in [Proc -> Runs] /\ PlaceInv'
    BY <2>1, <2>2, GotoChanges DEF Label, Activating, WithKey
  <2> QED
    BY <1>10, <1>t, <2>1, <2>3
       DEF ActivateNodes, Typed, db, bounds, history, refreshHistory
<1>11. ASSUME NEW p \in Proc, SetActive(p)
       PROVE  Goal
  <2>1. ActivationRuns(p) /\ run[p].key \in Key
    BY <1>11, <1>t DEF SetActive, At, PlaceInv, Activating
  <2>2. CASE /\ phase' = "active" /\ dbKey' = StoredKey(p)
             /\ EnterRefresh(p) /\ UNCHANGED faults
    BY <1>11, <1>t, <2>1, <2>2, EnterChanges
       DEF SetActive, Typed, Phase, StoredKey, memory
  <2>3. CASE /\ Rejected /\ Goto(p, "rollback")
             /\ UNCHANGED <<phase, dbKey, refreshHistory>>
    <3>1. run' \in [Proc -> Runs] /\ PlaceInv'
      BY <2>1, <2>3, GotoChanges DEF Label, Activating, WithKey
    <3> QED
      BY <1>11, <1>t, <2>3, <3>1, FaultsAreCounted
         DEF SetActive, Typed, memory, refreshHistory
  <2> QED
    BY <1>11, <2>2, <2>3 DEF SetActive
<1>12. ASSUME NEW p \in Proc, FinishActivation(p)
       PROVE  Goal
  <2>1. ActivationRuns(p)
    BY <1>12, <1>t DEF FinishActivation, At, PlaceInv, Activating
  <2>2. run' \in [Proc -> Runs] /\ PlaceInv'
    BY <1>12, <2>1, GotoChanges, EndChanges
       DEF FinishActivation, Label, Activating, WithKey
  <2>3. faults' \in 0 .. MaxFaults
    BY <1>12, <1>t, FaultsAreCounted DEF FinishActivation, Typed
  <2> QED
    BY <1>12, <1>t, <2>2, <2>3
       DEF FinishActivation, Typed, db, memory, history, refreshHistory
<1>13. ASSUME NEW p \in Proc, Rollback(p)
       PROVE  Goal
  <2>1. run' \in [Proc -> Runs] /\ PlaceInv'
    BY <1>13, EndChanges DEF Rollback
  <2>2. faults' \in 0 .. MaxFaults
    BY <1>13, <1>t, FaultsAreCounted DEF Rollback, Typed
  <2>3. phase' \in Phase /\ cut' \in BOOLEAN
    BY <1>13, <1>t DEF Rollback, PhaseAfterFailure, Typed, Phase
  <2> QED
    BY <1>13, <1>t, <2>1, <2>2, <2>3 DEF Rollback, Typed, memory, refreshHistory
<1>14. CASE Crash
  <2>1. Idle \in Runs
    BY DEF Idle, Run, Runs, Label
  <2>2. run' \in [Proc -> Runs] /\ \A p \in Proc : run'[p] = Idle
    BY <1>14, <2>1 DEF Crash
  <2>3. PlaceInv'
    BY <2>2 DEF PlaceInv, Idle, Run, Activating, WithKey, ActivationRuns, At
  <2>4. crashes' \in 0 .. MaxCrashes
    BY <1>14, <1>t, LicenseAssumption DEF Crash, Typed
  <2>5. cut' \in BOOLEAN
    BY <1>14 DEF Crash
  <2> QED
    BY <1>14, <1>t, <2>2, <2>3, <2>4, <2>5 DEF Crash, Typed, db, Unconfigured, State
<1>15. ASSUME NEW p \in Proc, Boot(p)
       PROVE  Goal
  <2>1. CASE EnterRefresh(p) /\ UNCHANGED faults
    BY <1>15, <1>t, <2>1, EnterChanges DEF Boot, Typed, db
  <2>2. CASE UNCHANGED <<run, refreshHistory>>
    <3>1. faults' \in 0 .. MaxFaults
      BY <1>15, <1>t, FaultsAreCounted DEF Boot, Typed
    <3> QED
      BY <1>15, <1>t, <1>s, <2>2, <3>1 DEF Boot, Typed, db, refreshHistory
  <2> QED
    BY <1>15, <2>1, <2>2 DEF Boot
<1>16. ASSUME NEW k \in Key, ServerDecides(k)
       PROVE  Goal
  <2>1. server' \in [Key -> Version]
    BY <1>16, <1>t, LicenseAssumption DEF ServerDecides, Typed, Version
  <2> QED
    BY <1>16, <1>t, <1>s, <2>1
       DEF ServerDecides, Typed, db, memory, bounds, history, refreshHistory
<1>17. ASSUME NEW k \in Key, GraceEnds(k)
       PROVE  Goal
  <2>1. cache' \in [Key -> [version : Version \union {NoAnswer}, recent : BOOLEAN]]
    BY <1>17, <1>t DEF GraceEnds, Typed
  <2> QED
    BY <1>17, <1>t, <1>s, <2>1
       DEF GraceEnds, Typed, memory, bounds, history, refreshHistory
<1>18. CASE UNCHANGED vars
  BY <1>18, <1>t, <1>s DEF vars, Typed, db, memory, bounds, history, refreshHistory
<1> QED
  BY <1>1, <1>2, <1>3, <1>4, <1>5, <1>6, <1>7, <1>8, <1>9, <1>10, <1>11, <1>12,
     <1>13, <1>14, <1>15, <1>16, <1>17, <1>18 DEF Next, Step

-----------------------------------------------------------------------------
(* The keys.                                                               *)

\* Unless an activation has begun during another execution, there is one at a
\* time; until it has set the phase it finds "activating", and nobody is about
\* to copy the stored key into the environment.
SoleActivation ==
  \A p, q \in Proc : ActivationRuns(p) /\ ActivationRuns(q) => p = q

BeforeActive ==
  \A p \in Proc : run[p].pc \in {"nodes", "setActive"} => phase = "activating"

NobodyCopies ==
  phase = "activating" => \A p \in Proc : run[p].pc \notin {"envOrDb", "remember"}

KeyIsKnown ==
  \A p \in Proc :
    /\ At(p, "setActive") => envKey = run[p].key
    /\ At(p, "remember") => run[p].key = dbKey

ActiveAgrees == phase = "active" => envKey \in {NoKey, dbKey}

KeyInv ==
  ~concurrent =>
    SoleActivation /\ BeforeActive /\ NobodyCopies /\ KeyIsKnown /\ ActiveAgrees

\* Initially nothing is under way.
LEMMA InitKeys == Init => KeyInv
  BY DEF Init, KeyInv, SoleActivation, BeforeActive, NobodyCopies, KeyIsKnown,
         ActiveAgrees, Idle, Run, ActivationRuns, At

\* What a step of one execution leaves to be shown about the keys.
LEMMA KeysByStep ==
  ASSUME LicenseInv, KeyInv, NEW p \in Proc, NEW r \in Runs,
         run' = [run EXCEPT ![p] = r], concurrent' = concurrent,
         r.task = "activate" => ActivationRuns(p),
         r.pc \in {"nodes", "setActive"} => run[p].pc = "nodes",
         r.pc = "setActive" => envKey' = r.key,
         r.pc \in {"envOrDb", "remember"} => phase = "active" \/ At(p, "envOrDb"),
         r.pc = "remember" => r.key = dbKey,
         UNCHANGED <<phase, dbKey>>,
         envKey' = envKey \/ (ActivationRuns(p) /\ At(p, "nodes"))
  PROVE  KeyInv'
<1> SUFFICES ASSUME ~concurrent
             PROVE  (SoleActivation /\ BeforeActive /\ NobodyCopies /\ KeyIsKnown /\ ActiveAgrees)'
  BY DEF KeyInv
<1>1. SoleActivation /\ BeforeActive /\ NobodyCopies /\ KeyIsKnown /\ ActiveAgrees
  BY DEF KeyInv
<1>2. run'[p] = r /\ \A q \in Proc \ {p} : run'[q] = run[q]
  BY TypedIs DEF LicenseInv
<1>3. SoleActivation'
  BY <1>1, <1>2 DEF SoleActivation, ActivationRuns
<1>4. BeforeActive'
  BY <1>1, <1>2 DEF BeforeActive
<1>5. NobodyCopies'
  BY <1>1, <1>2 DEF NobodyCopies, At
<1>6. \A q \in Proc : At(q, "setActive") => ActivationRuns(q)
  BY DEF LicenseInv, PlaceInv, At, Activating
<1>7. KeyIsKnown'
  BY <1>1, <1>2, <1>6 DEF KeyIsKnown, SoleActivation, At
<1>8. ActiveAgrees'
  BY <1>1 DEF ActiveAgrees, BeforeActive, At
<1> QED
  BY <1>3, <1>4, <1>5, <1>7, <1>8

\* Steps that leave the keys and the phase alone.
LEMMA KeysByGoto ==
  ASSUME LicenseInv, KeyInv, NEW p \in Proc, NEW label \in Label, Goto(p, label),
         label \notin {"nodes", "setActive", "envOrDb", "remember"},
         UNCHANGED <<phase, dbKey, envKey, concurrent>>
  PROVE  KeyInv'
<1> DEFINE r == [run[p] EXCEPT !.pc = label]
<1>1. run \in [Proc -> Runs]
  BY TypedIs DEF LicenseInv
<1>2. r \in Runs /\ r.pc = label /\ r.task = run[p].task
  BY <1>1 DEF Runs
<1>3. run' = [run EXCEPT ![p] = r]
  BY DEF Goto
<1> HIDE DEF r
<1> QED
  BY <1>2, <1>3, KeysByStep DEF ActivationRuns

\* An execution that ends.
LEMMA KeysByEnd ==
  ASSUME LicenseInv, KeyInv, NEW p \in Proc, End(p),
         UNCHANGED <<phase, dbKey, envKey, concurrent>>
  PROVE  KeyInv'
<1>1. Idle \in Runs /\ Idle.pc = "idle" /\ Idle.task = "refresh"
  BY DEF Idle, Run, Runs, Label
<1> QED
  BY <1>1, KeysByStep DEF End

\* A refresh that throws.
LEMMA KeysByThrow ==
  ASSUME LicenseInv, KeyInv, NEW p \in Proc, NEW s,
         ThrowRefresh(p) \/ LeaveRefresh(p, s),
         UNCHANGED <<phase, dbKey, envKey, concurrent>>
  PROVE  KeyInv'
<1>1. Goto(p, "rollback") \/ Goto(p, "validated") \/ End(p)
  BY DEF ThrowRefresh, LeaveRefresh
<1> QED
  BY <1>1, KeysByGoto, KeysByEnd DEF Label, Activating

\* Every step keeps the invariant of the keys.
LEMMA KeyStep == LicenseInv /\ KeyInv /\ [Next]_vars => KeyInv'
<1> SUFFICES ASSUME LicenseInv, KeyInv, [Next]_vars
             PROVE  KeyInv'
  OBVIOUS
<1>t. Typed /\ run \in [Proc -> Runs] /\ PlaceInv
  BY TypedIs DEF LicenseInv
<1>s. ASSUME UNCHANGED <<run, phase, dbKey, envKey, concurrent>>
      PROVE  KeyInv'
  BY <1>s DEF KeyInv, SoleActivation, BeforeActive, NobodyCopies, KeyIsKnown,
              ActiveAgrees, ActivationRuns, At
<1>1. ASSUME NEW p \in Proc, StartRefresh(p)
      PROVE  KeyInv'
  BY <1>1, KeysByGoto
     DEF StartRefresh, EnterRefresh, db, memory, Label, Refreshing
<1>2. ASSUME NEW p \in Proc, ReadPhase(p)
      PROVE  KeyInv'
  <2>1. UNCHANGED <<phase, dbKey, envKey, concurrent>>
    BY <1>2 DEF ReadPhase, db, memory, history
  <2>2. CASE Goto(p, "envOnly")
    BY <2>1, <2>2, KeysByGoto DEF Label, Refreshing
  <2>3. CASE Goto(p, "envOrDb") /\ phase = "active"
    <3> DEFINE r == [run[p] EXCEPT !.pc = "envOrDb"]
    <3>1. r \in Runs /\ r.pc = "envOrDb" /\ r.task = run[p].task
      BY <1>t DEF Runs, Label, Refreshing
    <3>2. run' = [run EXCEPT ![p] = r]
      BY <2>3 DEF Goto
    <3> HIDE DEF r
    <3> QED
      BY <2>1, <2>3, <3>1, <3>2, KeysByStep DEF ActivationRuns
  <2> QED
    BY <1>2, <2>2, <2>3 DEF ReadPhase
<1>3. ASSUME NEW p \in Proc, ReadKey(p)
      PROVE  KeyInv'
  <2>1. UNCHANGED <<phase, dbKey, envKey, concurrent>>
    BY <1>3 DEF ReadKey, db
  <2>2. ASSUME NEW label \in {"call", "remember"}, NEW k \in Key,
               run' = [run EXCEPT ![p].pc = label, ![p].key = k],
               label = "remember" => k = dbKey /\ At(p, "envOrDb")
        PROVE  KeyInv'
    <3> DEFINE r == [run[p] EXCEPT !.pc = label, !.key = k]
    <3>1. run' = [run EXCEPT ![p] = r]
      BY <2>2
    <3>2. r \in Runs /\ r.pc = label /\ r.key = k /\ r.task = run[p].task
      BY <1>t DEF Runs, Label, Refreshing
    <3> HIDE DEF r
    <3> QED
      BY <2>1, <2>2, <3>1, <3>2, KeysByStep DEF ActivationRuns
  <2>3. CASE LeaveRefresh(p, Unconfigured) \/ ThrowRefresh(p)
    BY <2>1, <2>3, KeysByThrow
  <2> QED
    BY <1>3, <1>t, <2>2, <2>3 DEF ReadKey, LooksUpKey, Typed
<1>4. ASSUME NEW p \in Proc, RememberKey(p)
      PROVE  KeyInv'
  <2> SUFFICES ASSUME ~concurrent
               PROVE  KeyInv'
    BY <1>4 DEF RememberKey, history, KeyInv
  <2> DEFINE r == [run[p] EXCEPT !.pc = "call"]
  <2>1. SoleActivation /\ BeforeActive /\ NobodyCopies /\ KeyIsKnown /\ ActiveAgrees
    BY DEF KeyInv
  <2>2. r \in Runs /\ r.pc = "call" /\ r.task = run[p].task
    BY <1>t DEF Runs, Label, Refreshing
  <2>3. /\ run' = [run EXCEPT ![p] = r]
        /\ At(p, "remember") /\ envKey' = run[p].key
        /\ UNCHANGED <<phase, dbKey, concurrent>>
    BY <1>4 DEF RememberKey, Goto, db, history
  <2> HIDE DEF r
  <2>4. run'[p] = r /\ \A q \in Proc \ {p} : run'[q] = run[q]
    BY <1>t, <2>3
  <2>5. envKey' = dbKey /\ phase # "activating"
    BY <2>1, <2>3 DEF KeyIsKnown, NobodyCopies, At
  <2>6. SoleActivation' /\ BeforeActive' /\ NobodyCopies' /\ ActiveAgrees'
    BY <2>1, <2>2, <2>3, <2>4, <2>5
       DEF SoleActivation, BeforeActive, NobodyCopies, ActiveAgrees, ActivationRuns
  <2>7. KeyIsKnown'
    BY <2>1, <2>2, <2>3, <2>4, <2>5 DEF KeyIsKnown, BeforeActive, At
  <2> QED
    BY <2>6, <2>7 DEF KeyInv
<1>5. ASSUME NEW p \in Proc, Validate(p)
      PROVE  KeyInv'
  <2>1. UNCHANGED <<phase, dbKey, envKey, concurrent>>
    BY <1>5 DEF Validate, db, memory, history
  <2>2. CASE run' = [run EXCEPT ![p].pc = "store", ![p].answer = server[run[p].key]]
    <3> DEFINE r == [run[p] EXCEPT !.pc = "store", !.answer = server[run[p].key]]
    <3>1. server[run[p].key] \in Version
      BY <1>5, <1>t DEF Validate, At, PlaceInv, WithKey, Typed
    <3>2. r \in Runs /\ r.pc = "store" /\ r.task = run[p].task
      BY <1>t, <3>1 DEF Runs, Label, Refreshing
    <3>3. run' = [run EXCEPT ![p] = r]
      BY <2>2
    <3> HIDE DEF r
    <3> QED
      BY <2>1, <3>2, <3>3, KeysByStep DEF ActivationRuns
  <2> QED
    BY <1>5, <2>1, <2>2, KeysByGoto DEF Validate, Label, Refreshing
<1>6. ASSUME NEW p \in Proc, Store(p)
      PROVE  KeyInv'
  BY <1>6, KeysByGoto DEF Store, memory, history, Label, Refreshing
<1>7. ASSUME NEW p \in Proc, Fallback(p)
      PROVE  KeyInv'
  <2>1. UNCHANGED <<phase, dbKey, envKey, concurrent>>
    BY <1>7 DEF Fallback, db
  <2>2. ASSUME NEW a \in Version \union {NoAnswer},
               run' = [run EXCEPT ![p].pc = "assignCached", ![p].answer = a]
        PROVE  KeyInv'
    <3> DEFINE r == [run[p] EXCEPT !.pc = "assignCached", !.answer = a]
    <3>1. run' = [run EXCEPT ![p] = r]
      BY <2>2
    <3>2. r \in Runs /\ r.pc = "assignCached" /\ r.task = run[p].task
      BY <1>t DEF Runs, Label, Refreshing
    <3> HIDE DEF r
    <3> QED
      BY <2>1, <3>1, <3>2, KeysByStep DEF ActivationRuns
  <2>3. cache[run[p].key].version \in Version \union {NoAnswer}
    BY <1>7, <1>t DEF Fallback, At, PlaceInv, WithKey, Typed
  <2> QED
    BY <1>7, <2>1, <2>2, <2>3, KeysByThrow DEF Fallback
<1>8. ASSUME NEW p \in Proc, Assign(p)
      PROVE  KeyInv'
  BY <1>8, KeysByThrow DEF Assign, db
<1>9. ASSUME NEW p \in Proc, NEW k \in Key, Activate(p, k)
      PROVE  KeyInv'
  <2> SUFFICES ASSUME ~concurrent'
               PROVE  KeyInv'
    BY DEF KeyInv
  <2>1. \A q \in Proc : At(q, "idle")
    BY <1>9, <1>t DEF Activate, Typed
  <2>2. /\ run' = [run EXCEPT ![p] = Run("nodes", "activate", k)]
        /\ phase' = "activating"
    BY <1>9 DEF Activate
  <2>3. /\ run'[p].pc = "nodes"
        /\ \A q \in Proc \ {p} : run'[q] = run[q] /\ run'[q].pc = "idle"
    BY <1>t, <2>1, <2>2 DEF Run, At
  <2>4. \A q \in Proc : At(q, "idle") => ~ActivationRuns(q)
    BY <1>t, <2>1 DEF PlaceInv
  <2> QED
    BY <2>1, <2>2, <2>3, <2>4
       DEF KeyInv, SoleActivation, BeforeActive, NobodyCopies, KeyIsKnown,
           ActiveAgrees, ActivationRuns, At
<1>10. ASSUME NEW p \in Proc, ActivateNodes(p)
       PROVE  KeyInv'
  <2>1. /\ At(p, "nodes") /\ ActivationRuns(p)
        /\ UNCHANGED <<phase, dbKey, concurrent>>
    BY <1>10, <1>t DEF ActivateNodes, At, PlaceInv, Activating, db, history
  <2>2. CASE envKey' = run[p].key /\ Goto(p, "setActive")
    <3> DEFINE r == [run[p] EXCEPT !.pc = "setActive"]
    <3>1. r \in Runs /\ r.pc = "setActive" /\ r.key = run[p].key
      BY <1>t DEF Runs, Label, Activating
    <3>2. run' = [run EXCEPT ![p] = r]
      BY <2>2 DEF Goto
    <3> HIDE DEF r
    <3> QED
      BY <2>1, <2>2, <3>1, <3>2, KeysByStep DEF At
  <2>3. CASE Goto(p, "rollback") /\ UNCHANGED envKey
    BY <2>1, <2>3, KeysByGoto DEF Label, Activating
  <2> QED
    BY <1>10, <2>2, <2>3 DEF ActivateNodes
<1>11. ASSUME NEW p \in Proc, SetActive(p)
       PROVE  KeyInv'
  <2>1. CASE Goto(p, "rollback") /\ UNCHANGED <<phase, dbKey>>
    BY <1>11, <2>1, KeysByGoto DEF SetActive, memory, Label, Activating
  <2>2. CASE phase' = "active" /\ dbKey' = StoredKey(p) /\ EnterRefresh(p)
    <3> SUFFICES ASSUME ~concurrent
                 PROVE  KeyInv'
      BY <1>11 DEF SetActive, KeyInv
    <3> DEFINE r == [run[p] EXCEPT !.pc = "phase"]
    <3>1. SoleActivation /\ BeforeActive /\ NobodyCopies /\ KeyIsKnown
      BY DEF KeyInv
    <3>2. /\ At(p, "setActive") /\ run' = [run EXCEPT ![p] = r]
          /\ UNCHANGED <<envKey, concurrent>>
      BY <1>11, <2>2 DEF SetActive, EnterRefresh, Goto, memory
    <3>3. r.pc = "phase" /\ r.task = run[p].task
      BY <1>t DEF Runs
    <3> HIDE DEF r
    <3>4. run'[p] = r /\ \A q \in Proc \ {p} : run'[q] = run[q]
      BY <1>t, <3>2
    <3>5. dbKey' = envKey /\ phase = "activating" /\ ActivationRuns(p)
      BY <1>t, <2>2, <3>1, <3>2
         DEF StoredKey, KeyIsKnown, BeforeActive, At, PlaceInv, Activating
    <3>6. \A q \in Proc \ {p} : run[q].pc \notin {"nodes", "setActive", "remember"}
      BY <1>t, <3>1, <3>5 DEF SoleActivation, NobodyCopies, PlaceInv, Activating
    <3> QED
      BY <2>2, <3>1, <3>2, <3>3, <3>4, <3>5, <3>6
         DEF KeyInv, SoleActivation, BeforeActive, NobodyCopies, KeyIsKnown,
             ActiveAgrees, ActivationRuns, At
  <2> QED
    BY <1>11, <2>1, <2>2 DEF SetActive
<1>12. ASSUME NEW p \in Proc, FinishActivation(p)
       PROVE  KeyInv'
  BY <1>12, KeysByEnd, KeysByGoto
     DEF FinishActivation, db, memory, history, Label, Activating
<1>13. ASSUME NEW p \in Proc, Rollback(p)
       PROVE  KeyInv'
  <2>1. CASE UNCHANGED phase
    BY <1>13, <2>1, KeysByEnd DEF Rollback, memory
  <2>2. CASE phase' = "locked"
    <3> SUFFICES ASSUME ~concurrent
                 PROVE  KeyInv'
      BY <1>13 DEF Rollback, KeyInv
    <3>1. SoleActivation /\ BeforeActive /\ NobodyCopies /\ KeyIsKnown
      BY DEF KeyInv
    <3>2. /\ run' = [run EXCEPT ![p] = Idle] /\ ActivationRuns(p)
          /\ UNCHANGED <<envKey, dbKey, concurrent>>
      BY <1>13, <1>t DEF Rollback, End, memory, At, PlaceInv, Activating
    <3>3. run'[p] = Idle /\ \A q \in Proc \ {p} : run'[q] = run[q]
      BY <1>t, <3>2
    <3>4. Idle.pc = "idle" /\ Idle.task = "refresh"
      BY DEF Idle, Run
    <3>5. \A q \in Proc \ {p} : run[q].pc \notin {"nodes", "setActive"}
      BY <1>t, <3>1, <3>2 DEF SoleActivation, PlaceInv, Activating
    <3> QED
      BY <2>2, <3>1, <3>2, <3>3, <3>4, <3>5
         DEF KeyInv, SoleActivation, BeforeActive, NobodyCopies, KeyIsKnown,
             ActiveAgrees, ActivationRuns, At
  <2> QED
    BY <1>13, <2>1, <2>2 DEF Rollback, PhaseAfterFailure
<1>14. CASE Crash
  <2>1. \A p \in Proc : run'[p].pc = "idle" /\ run'[p].task = "refresh"
    BY <1>14 DEF Crash, Idle, Run
  <2> QED
    BY <1>14, <2>1
       DEF Crash, KeyInv, SoleActivation, BeforeActive, NobodyCopies, KeyIsKnown,
           ActiveAgrees, ActivationRuns, At
<1>15. ASSUME NEW p \in Proc, Boot(p)
       PROVE  KeyInv'
  BY <1>15, <1>s, KeysByGoto DEF Boot, EnterRefresh, db, Label, Refreshing
<1>16. ASSUME NEW k \in Key, ServerDecides(k) \/ GraceEnds(k)
       PROVE  KeyInv'
  BY <1>16, <1>s DEF ServerDecides, GraceEnds, db, memory, history
<1>17. CASE UNCHANGED vars
  BY <1>17, <1>s DEF vars, db, memory, history
<1> QED
  BY <1>1, <1>2, <1>3, <1>4, <1>5, <1>6, <1>7, <1>8, <1>9, <1>10, <1>11, <1>12,
     <1>13, <1>14, <1>15, <1>16, <1>17 DEF Next, Step

\* Every variable keeps its type.
THEOREM LicenseTypeCorrect == Spec => []TypeOK
<1>1. LicenseInv => TypeOK
  BY DEF LicenseInv
<1> QED
  BY InitLicense, LicenseStep, <1>1, PTL DEF Spec

\* The key that this process validates is the key that the next process finds:
\* however refreshes and a restart get between the steps of an activation,
\* environment and database agree while the panel is active.
THEOREM KeysStayTogether == Spec => []KeysAgree
<1>1. LicenseInv /\ KeyInv => KeysAgree
  BY DEF KeyInv, ActiveAgrees, KeysAgree
<1>2. Init => LicenseInv /\ KeyInv
  BY InitLicense, InitKeys
<1>3. LicenseInv /\ KeyInv /\ [Next]_vars => LicenseInv' /\ KeyInv'
  BY LicenseStep, KeyStep
<1> QED
  BY <1>1, <1>2, <1>3, PTL DEF Spec

-----------------------------------------------------------------------------
(* The state in memory.                                                    *)

Assigning == {"assign", "assignCached"}

\* Refreshes that are under way at the same time know it, both of them.
OverlapInv ==
  \A p, q \in Proc : p # q /\ RefreshRuns(p) /\ RefreshRuns(q) => p \in overlapped

\* A refresh that has been alone is about to assign what is stored.
AnswerInv ==
  \A p \in Proc :
    p \notin overlapped /\ run[p].pc \in Assigning /\ Active(run[p].answer)
    => Active(cache[run[p].key].version)

StateHasKey == state.status \in {"active", "grace"} => state.key \in Key

BackInv == OverlapInv /\ AnswerInv /\ StateHasKey /\ LicensedStateIsBacked

\* Initially no answer has been used.
LEMMA InitBack == Init => BackInv
<1> SUFFICES ASSUME Init
             PROVE  BackInv
  OBVIOUS
<1>1. \A p \in Proc : run[p].pc = "idle"
  BY DEF Init, Idle, Run
<1> QED
  BY <1>1 DEF Init, BackInv, OverlapInv, AnswerInv, StateHasKey,
              LicensedStateIsBacked, RefreshRuns, Refreshing, Assigning, Unconfigured, State

\* Steps before an answer has been found, and steps of an activation.
LEMMA BackByStep ==
  ASSUME LicenseInv, BackInv, NEW p \in Proc, NEW r \in Runs,
         run' = [run EXCEPT ![p] = r], UNCHANGED <<cache, state, mixed, overlapped>>,
         run[p].pc \notin Assigning, r.pc \notin Assigning,
         r.pc \in Refreshing => RefreshRuns(p)
  PROVE  BackInv'
<1>1. run'[p] = r /\ \A q \in Proc \ {p} : run'[q] = run[q]
  BY TypedIs DEF LicenseInv
<1>2. OverlapInv'
  BY <1>1 DEF BackInv, OverlapInv, RefreshRuns
<1>3. AnswerInv'
  BY <1>1 DEF BackInv, AnswerInv
<1>4. LicensedStateIsBacked'
  BY <1>1 DEF BackInv, LicensedStateIsBacked, Assigning
<1> QED
  BY <1>2, <1>3, <1>4 DEF BackInv, StateHasKey

\* A step that only moves an execution on.
LEMMA BackByGoto ==
  ASSUME LicenseInv, BackInv, NEW p \in Proc, NEW label \in Label, Goto(p, label),
         UNCHANGED <<cache, state, mixed, overlapped>>,
         run[p].pc \notin Assigning, label \notin Assigning,
         label \in Refreshing => RefreshRuns(p)
  PROVE  BackInv'
<1> DEFINE r == [run[p] EXCEPT !.pc = label]
<1>1. run \in [Proc -> Runs]
  BY TypedIs DEF LicenseInv
<1>2. r \in Runs /\ r.pc = label
  BY <1>1 DEF Runs
<1>3. run' = [run EXCEPT ![p] = r]
  BY DEF Goto
<1> HIDE DEF r
<1> QED
  BY <1>2, <1>3, BackByStep

\* An execution that ends without assigning anything.
LEMMA BackByEnd ==
  ASSUME LicenseInv, BackInv, NEW p \in Proc, End(p),
         UNCHANGED <<cache, state, mixed, overlapped>>, run[p].pc \notin Assigning
  PROVE  BackInv'
<1>1. Idle \in Runs /\ Idle.pc = "idle"
  BY DEF Idle, Run, Runs, Label
<1> QED
  BY <1>1, BackByStep DEF End, Assigning, Refreshing

\* The way into refresh tells those that are under way.
LEMMA BackByEnter ==
  ASSUME LicenseInv, BackInv, NEW p \in Proc, EnterRefresh(p),
         UNCHANGED <<cache, state>>, run[p].pc \notin Assigning
  PROVE  BackInv'
<1> DEFINE r == [run[p] EXCEPT !.pc = "phase"]
           others == {q \in Proc \ {p} : RefreshRuns(q)}
<1>1. run \in [Proc -> Runs]
  BY TypedIs DEF LicenseInv
<1>2. r.pc = "phase"
  BY <1>1 DEF Runs
<1>3. run' = [run EXCEPT ![p] = r] /\ UNCHANGED mixed
  BY DEF EnterRefresh, Goto
<1> HIDE DEF r
<1>4. run'[p] = r /\ \A q \in Proc \ {p} : run'[q] = run[q]
  BY <1>1, <1>3
<1>5. overlapped' = IF others = {} THEN overlapped ELSE overlapped \union others \union {p}
  BY DEF EnterRefresh
<1>6. OverlapInv'
  <2> SUFFICES ASSUME NEW q \in Proc, NEW s \in Proc, q # s,
                      RefreshRuns(q)', RefreshRuns(s)'
               PROVE  q \in overlapped'
    BY DEF OverlapInv
  <2>1. CASE p \in {q, s}
    BY <1>4, <1>5, <2>1 DEF RefreshRuns
  <2>2. CASE p \notin {q, s}
    <3>1. q \in overlapped
      BY <1>4, <2>2 DEF BackInv, OverlapInv, RefreshRuns
    <3> QED
      BY <1>5, <3>1
  <2> QED
    BY <2>1, <2>2
<1>7. AnswerInv'
  BY <1>2, <1>4, <1>5 DEF BackInv, AnswerInv, Assigning
<1>8. LicensedStateIsBacked'
  BY <1>2, <1>3, <1>4 DEF BackInv, LicensedStateIsBacked, Assigning
<1> QED
  BY <1>6, <1>7, <1>8 DEF BackInv, StateHasKey

\* The ways out of it.
LEMMA BackByThrow ==
  ASSUME LicenseInv, BackInv, NEW p \in Proc, ThrowRefresh(p), UNCHANGED cache,
         run[p].pc \notin Assigning
  PROVE  BackInv'
<1>1. run \in [Proc -> Runs]
  BY TypedIs DEF LicenseInv
<1>2. /\ run'[p].pc \in {"rollback", "idle"}
      /\ \A q \in Proc \ {p} : run'[q] = run[q]
  BY <1>1 DEF ThrowRefresh, Goto, End, Idle, Run, Runs
<1>3. overlapped' = overlapped \ {p} /\ UNCHANGED <<state, mixed>>
  BY DEF ThrowRefresh
<1>4. OverlapInv'
  BY <1>2, <1>3 DEF BackInv, OverlapInv, RefreshRuns, Refreshing
<1>5. AnswerInv'
  BY <1>2, <1>3 DEF BackInv, AnswerInv, Assigning
<1>6. LicensedStateIsBacked'
  BY <1>2, <1>3 DEF BackInv, LicensedStateIsBacked, Assigning
<1> QED
  BY <1>3, <1>4, <1>5, <1>6 DEF BackInv, StateHasKey

\* A refresh that assigns the state.
LEMMA BackByLeave ==
  ASSUME LicenseInv, BackInv, NEW p \in Proc, NEW s, LeaveRefresh(p, s),
         UNCHANGED cache,
         s.status \in {"active", "grace"} => s.key \in Key,
         s.status \in {"active", "grace"} /\ p \notin overlapped
         => Active(cache[s.key].version)
  PROVE  BackInv'
<1>1. run \in [Proc -> Runs]
  BY TypedIs DEF LicenseInv
<1>2. /\ run'[p].pc \in {"validated", "idle"}
      /\ \A q \in Proc \ {p} : run'[q] = run[q]
  BY <1>1 DEF LeaveRefresh, Goto, End, Idle, Run, Runs
<1>3. overlapped' = overlapped \ {p} /\ state' = s /\ mixed' = (p \in overlapped)
  BY DEF LeaveRefresh
<1>4. OverlapInv'
  BY <1>2, <1>3 DEF BackInv, OverlapInv, RefreshRuns, Refreshing
<1>5. AnswerInv'
  BY <1>2, <1>3 DEF BackInv, AnswerInv, Assigning
<1>6. LicensedStateIsBacked'
  BY <1>3 DEF LicensedStateIsBacked, Active
<1> QED
  BY <1>3, <1>4, <1>5, <1>6 DEF BackInv, StateHasKey

\* After a restart nothing runs until the phase has been read.
BootInv == booting => \A p \in Proc : At(p, "idle")

\* No step of an execution is taken before that.
LEMMA BootStep == BootInv /\ [Next]_vars => BootInv'
<1> SUFFICES ASSUME BootInv, [Next]_vars, booting'
             PROVE  \A p \in Proc : run'[p].pc = "idle"
  BY DEF BootInv, At
<1>1. CASE Crash
  BY <1>1 DEF Crash, Idle, Run
<1>2. ASSUME UNCHANGED <<booting, run>>
      PROVE  \A p \in Proc : run'[p].pc = "idle"
  BY <1>2 DEF BootInv, At
<1>3. ASSUME NEW k \in Key, ServerDecides(k) \/ GraceEnds(k)
      PROVE  UNCHANGED <<booting, run>>
  BY <1>3 DEF ServerDecides, GraceEnds, memory
<1>4. ASSUME NEW p \in Proc,
             StartRefresh(p) \/ Boot(p) \/ \E k \in Key : Activate(p, k)
      PROVE  FALSE
  BY <1>4 DEF StartRefresh, Boot, Activate, memory
<1>5. ASSUME NEW p \in Proc, Step(p)
      PROVE  FALSE
  <2>1. UNCHANGED booting
    BY <1>5 DEF Step, ReadPhase, ReadKey, RememberKey, Validate, Store, Fallback, Assign,
               ActivateNodes, SetActive, FinishActivation, Rollback, memory
  <2>2. ~At(p, "idle")
    BY <1>5 DEF Step, ReadPhase, ReadKey, RememberKey, Validate, Store, Fallback, Assign,
               ActivateNodes, SetActive, FinishActivation, Rollback, At
  <2> QED
    BY <2>1, <2>2 DEF BootInv
<1>6. CASE UNCHANGED vars
  BY <1>6, <1>2 DEF vars, memory
<1> QED
  BY <1>1, <1>2, <1>3, <1>4, <1>5, <1>6 DEF Next

\* Every step keeps the state in memory backed by the stored answers.
LEMMA BackStep == LicenseInv /\ BootInv /\ BackInv /\ [Next]_vars => BackInv'
<1> SUFFICES ASSUME LicenseInv, BootInv, BackInv, [Next]_vars
             PROVE  BackInv'
  OBVIOUS
<1>t. Typed /\ run \in [Proc -> Runs] /\ PlaceInv
  BY TypedIs DEF LicenseInv
<1>s. ASSUME UNCHANGED <<run, cache, state, mixed, overlapped>>
      PROVE  BackInv'
  BY <1>s DEF BackInv, OverlapInv, AnswerInv, StateHasKey, LicensedStateIsBacked,
              RefreshRuns
<1>1. ASSUME NEW p \in Proc, StartRefresh(p)
      PROVE  BackInv'
  BY <1>1, BackByEnter DEF StartRefresh, At, Assigning, db, memory
<1>2. ASSUME NEW p \in Proc, ReadPhase(p)
      PROVE  BackInv'
  <2>1. PICK label \in {"envOnly", "envOrDb"} : Goto(p, label)
    BY <1>2 DEF ReadPhase
  <2> QED
    BY <1>2, <2>1, BackByGoto
       DEF ReadPhase, At, RefreshRuns, Refreshing, Assigning, Label, db, memory,
           history, refreshHistory
<1>3. ASSUME NEW p \in Proc, ReadKey(p)
      PROVE  BackInv'
  <2>1. RefreshRuns(p) /\ run[p].pc \notin Assigning /\ UNCHANGED cache
    BY <1>3 DEF ReadKey, RefreshRuns, Refreshing, Assigning, db
  <2>2. ASSUME NEW label \in {"call", "remember"}, NEW k \in Key,
               run' = [run EXCEPT ![p].pc = label, ![p].key = k],
               UNCHANGED <<state, faults, refreshHistory>>
        PROVE  BackInv'
    <3> DEFINE r == [run[p] EXCEPT !.pc = label, !.key = k]
    <3>1. run' = [run EXCEPT ![p] = r]
      BY <2>2
    <3>2. r \in Runs /\ r.pc = label
      BY <1>t DEF Runs, Label, Refreshing
    <3> HIDE DEF r
    <3> QED
      BY <2>1, <2>2, <3>1, <3>2, BackByStep DEF Assigning, refreshHistory
  <2>3. CASE LeaveRefresh(p, Unconfigured)
    BY <2>1, <2>3, BackByLeave DEF Unconfigured, State
  <2>4. CASE ThrowRefresh(p)
    BY <2>1, <2>4, BackByThrow
  <2> QED
    BY <1>3, <1>t, <2>2, <2>3, <2>4 DEF ReadKey, Typed
<1>4. ASSUME NEW p \in Proc, RememberKey(p)
      PROVE  BackInv'
  BY <1>4, BackByGoto
     DEF RememberKey, At, RefreshRuns, Refreshing, Assigning, Label, db, history,
         refreshHistory
<1>5. ASSUME NEW p \in Proc, Validate(p)
      PROVE  BackInv'
  <2>1. /\ RefreshRuns(p) /\ run[p].pc \notin Assigning
        /\ UNCHANGED <<cache, state, mixed, overlapped>>
    BY <1>5 DEF Validate, At, RefreshRuns, Refreshing, Assigning, db, memory,
                history, refreshHistory
  <2>2. CASE run' = [run EXCEPT ![p].pc = "store", ![p].answer = server[run[p].key]]
    <3> DEFINE r == [run[p] EXCEPT !.pc = "store", !.answer = server[run[p].key]]
    <3>1. server[run[p].key] \in Version
      BY <1>5, <1>t DEF Validate, At, PlaceInv, WithKey, Typed
    <3>2. r \in Runs /\ r.pc = "store"
      BY <1>t, <3>1 DEF Runs, Label, Refreshing
    <3>3. run' = [run EXCEPT ![p] = r]
      BY <2>2
    <3> HIDE DEF r
    <3> QED
      BY <2>1, <3>2, <3>3, BackByStep DEF Assigning
  <2> QED
    BY <1>5, <2>1, <2>2, BackByGoto DEF Validate, Assigning, Label, Refreshing
<1>6. ASSUME NEW p \in Proc, Store(p)
      PROVE  BackInv'
  <2>1. /\ At(p, "store") /\ RefreshRuns(p) /\ run[p].pc \notin Assigning
        /\ run[p].key \in Key
        /\ UNCHANGED <<state, mixed, overlapped>>
    BY <1>6, <1>t DEF Store, At, RefreshRuns, Refreshing, Assigning, PlaceInv,
                      WithKey, memory, history, refreshHistory
  <2>2. CASE Goto(p, "fallback") /\ UNCHANGED cache
    BY <2>1, <2>2, BackByGoto DEF Assigning, Label, Refreshing
  <2>3. CASE /\ cache' = [cache EXCEPT ![run[p].key] =
                            [version |-> run[p].answer, recent |-> TRUE]]
             /\ Goto(p, "assign")
    <3>1. /\ run'[p].pc = "assign" /\ run'[p].key = run[p].key
          /\ run'[p].answer = run[p].answer
          /\ \A q \in Proc \ {p} : run'[q] = run[q]
      BY <1>t, <2>3 DEF Goto, Runs
    <3>2. cache'[run[p].key].version = run[p].answer
      BY <1>t, <2>1, <2>3 DEF Typed
    <3>3. OverlapInv'
      BY <2>1, <3>1 DEF BackInv, OverlapInv, RefreshRuns
    <3>4. \A q \in Proc \ {p} : run[q].pc \in Assigning => q \in overlapped
      BY <2>1 DEF BackInv, OverlapInv, RefreshRuns, Refreshing, Assigning
    <3>5. AnswerInv'
      BY <2>1, <3>1, <3>2, <3>4 DEF AnswerInv
    <3>6. LicensedStateIsBacked' /\ StateHasKey'
      BY <2>1, <3>1 DEF LicensedStateIsBacked, BackInv, StateHasKey
    <3> QED
      BY <3>3, <3>5, <3>6 DEF BackInv
  <2> QED
    BY <1>6, <2>2, <2>3 DEF Store
<1>7. ASSUME NEW p \in Proc, Fallback(p)
      PROVE  BackInv'
  <2>1. /\ RefreshRuns(p) /\ run[p].pc \notin Assigning /\ UNCHANGED cache
        /\ run[p].key \in Key
    BY <1>7, <1>t DEF Fallback, At, RefreshRuns, Refreshing, Assigning, PlaceInv,
                      WithKey, db
  <2>2. CASE ThrowRefresh(p)
    BY <2>1, <2>2, BackByThrow
  <2> DEFINE c == cache[run[p].key]
             a == IF InGrace(c) THEN c.version ELSE NoAnswer
  <2>3. CASE /\ run' = [run EXCEPT ![p].pc = "assignCached", ![p].answer = a]
             /\ UNCHANGED <<state, faults, refreshHistory>>
    <3>1. /\ run'[p].pc = "assignCached" /\ run'[p].key = run[p].key
          /\ run'[p].answer = a
          /\ \A q \in Proc \ {p} : run'[q] = run[q]
      BY <1>t, <2>3 DEF Runs
    <3>2. Active(a) => Active(c.version)
      BY DEF InGrace, Active
    <3>3. UNCHANGED <<cache, state, mixed, overlapped>>
      BY <2>1, <2>3 DEF refreshHistory
    <3> HIDE DEF a
    <3>4. OverlapInv'
      BY <2>1, <3>1, <3>3 DEF BackInv, OverlapInv, RefreshRuns
    <3>5. AnswerInv'
      BY <3>1, <3>2, <3>3 DEF BackInv, AnswerInv
    <3>6. LicensedStateIsBacked' /\ StateHasKey'
      BY <3>1, <3>3 DEF LicensedStateIsBacked, BackInv, StateHasKey
    <3> QED
      BY <3>4, <3>5, <3>6 DEF BackInv
  <2> QED
    BY <1>7, <2>2, <2>3 DEF Fallback
<1>8. ASSUME NEW p \in Proc, Assign(p)
      PROVE  BackInv'
  <2>1. run[p].pc \in Assigning /\ run[p].key \in Key
    BY <1>8, <1>t DEF Assign, Assigning, PlaceInv, WithKey
  <2>2. /\ Licensed(p).key = run[p].key
        /\ Licensed(p).status \in {"active", "grace"} => Active(run[p].answer)
    BY DEF Licensed, State
  <2>3. LeaveRefresh(p, Licensed(p)) /\ UNCHANGED cache
    BY <1>8 DEF Assign, db
  <2>4. p \notin overlapped /\ Active(run[p].answer) => Active(cache[run[p].key].version)
    BY <2>1 DEF BackInv, AnswerInv
  <2> QED
    BY <2>1, <2>2, <2>3, <2>4, BackByLeave
<1>9. ASSUME NEW p \in Proc, NEW k \in Key, Activate(p, k)
      PROVE  BackInv'
  <2> DEFINE r == Run("nodes", "activate", k)
  <2>1. r \in Runs /\ r.pc = "nodes"
    BY DEF Run, Runs, Label, Activating
  <2>2. run' = [run EXCEPT ![p] = r] /\ run[p].pc = "idle"
    BY <1>9 DEF Activate, At
  <2> HIDE DEF r
  <2> QED
    BY <1>9, <2>1, <2>2, BackByStep
       DEF Activate, Assigning, Refreshing, memory, refreshHistory
<1>10. ASSUME NEW p \in Proc, ActivateNodes(p)
       PROVE  BackInv'
  <2>1. PICK label \in {"setActive", "rollback"} : Goto(p, label)
    BY <1>10 DEF ActivateNodes
  <2> QED
    BY <1>10, <2>1, BackByGoto
       DEF ActivateNodes, At, Assigning, Refreshing, Activating, Label, db, history,
           refreshHistory
<1>11. ASSUME NEW p \in Proc, SetActive(p)
       PROVE  BackInv'
  <2>1. run[p].pc \notin Assigning /\ UNCHANGED <<cache, state>>
    BY <1>11 DEF SetActive, At, Assigning, memory
  <2>2. CASE EnterRefresh(p)
    BY <2>1, <2>2, BackByEnter
  <2>3. CASE Goto(p, "rollback") /\ UNCHANGED refreshHistory
    BY <2>1, <2>3, BackByGoto DEF Assigning, Refreshing, Activating, Label, refreshHistory
  <2> QED
    BY <1>11, <2>2, <2>3 DEF SetActive
<1>12. ASSUME NEW p \in Proc, FinishActivation(p)
       PROVE  BackInv'
  BY <1>12, BackByGoto, BackByEnd
     DEF FinishActivation, At, Assigning, Refreshing, Activating, Label, db, memory,
         history, refreshHistory
<1>13. ASSUME NEW p \in Proc, Rollback(p)
       PROVE  BackInv'
  BY <1>13, BackByEnd DEF Rollback, At, Assigning, memory, refreshHistory
<1>14. CASE Crash
  <2>1. \A p \in Proc : run'[p].pc = "idle"
    BY <1>14 DEF Crash, Idle, Run
  <2> QED
    BY <1>14, <2>1
       DEF Crash, BackInv, OverlapInv, AnswerInv, StateHasKey, LicensedStateIsBacked,
           RefreshRuns, Refreshing, Assigning, Unconfigured, State
<1>15. ASSUME NEW p \in Proc, Boot(p)
       PROVE  BackInv'
  <2>1. run[p].pc \notin Assigning /\ UNCHANGED <<cache, state>>
    BY <1>15 DEF Boot, BootInv, At, Assigning, db
  <2>2. CASE EnterRefresh(p)
    BY <2>1, <2>2, BackByEnter
  <2>3. CASE UNCHANGED <<run, refreshHistory>>
    BY <2>1, <2>3, <1>s DEF refreshHistory
  <2> QED
    BY <1>15, <2>2, <2>3 DEF Boot
<1>16. ASSUME NEW k \in Key, ServerDecides(k)
       PROVE  BackInv'
  BY <1>16, <1>s DEF ServerDecides, db, memory, history, refreshHistory
<1>17. ASSUME NEW k \in Key, GraceEnds(k)
       PROVE  BackInv'
  <2>1. \A j \in Key : cache'[j].version = cache[j].version
    BY <1>17, <1>t DEF GraceEnds, Typed
  <2>2. UNCHANGED <<run, state, mixed, overlapped>>
    BY <1>17 DEF GraceEnds, memory, history, refreshHistory
  <2>3. \A p \in Proc : run[p].pc \in Assigning => run[p].key \in Key
    BY <1>t DEF PlaceInv, WithKey, Assigning
  <2>4. AnswerInv'
    BY <2>1, <2>2, <2>3 DEF BackInv, AnswerInv
  <2>5. OverlapInv' /\ StateHasKey' /\ LicensedStateIsBacked'
    BY <2>1, <2>2 DEF BackInv, OverlapInv, StateHasKey, LicensedStateIsBacked, RefreshRuns
  <2> QED
    BY <2>4, <2>5 DEF BackInv
<1>18. CASE UNCHANGED vars
  BY <1>18, <1>s DEF vars, db, memory, history, refreshHistory
<1> QED
  BY <1>1, <1>2, <1>3, <1>4, <1>5, <1>6, <1>7, <1>8, <1>9, <1>10, <1>11, <1>12,
     <1>13, <1>14, <1>15, <1>16, <1>17, <1>18 DEF Next, Step

\* What the process believes about its license is backed by a stored answer,
\* whatever refreshes, rejected calls, grace periods and restarts came before:
\* only refreshes that overlapped may leave something else behind.
THEOREM StateStaysBacked == Spec => []LicensedStateIsBacked
<1>1. LicenseInv /\ BootInv /\ BackInv => LicensedStateIsBacked
  BY DEF BackInv
<1>2. Init => LicenseInv /\ BootInv /\ BackInv
  BY InitLicense, InitBack DEF Init, BootInv
<1>3. LicenseInv /\ BootInv /\ BackInv /\ [Next]_vars => LicenseInv' /\ BootInv' /\ BackInv'
  BY LicenseStep, BootStep, BackStep
<1> QED
  BY <1>1, <1>2, <1>3, PTL DEF Spec

-----------------------------------------------------------------------------
\* The check character of a key (LicenseKey).

\* The least of a set of numbers.
LEMMA LeastOf ==
  ASSUME NEW T \in SUBSET Nat, T # {}
  PROVE  \E m \in T : \A n \in T : m <= n
<1> DEFINE R == OpToRel(<, Nat)
<1>1. IsWellFoundedOn(R, Nat)
  BY NatLessThanWellFounded
<1> HIDE DEF R
<1>2. PICK m \in T : \A n \in T : <<n, m>> \notin R
  BY <1>1, WFMin
<1>3. \A i, j \in Nat : i < j => <<i, j>> \in R
  BY DEF R, OpToRel
<1>4. \A n \in T : ~(n < m)
  BY <1>2, <1>3
<1> QED
  BY <1>4

LEMMA EveryNatural ==
  ASSUME NEW T, 0 \in T, \A n \in Nat : n \in T => n + 1 \in T
  PROVE  Nat \subseteq T
<1> SUFFICES ASSUME Nat \ T # {}
             PROVE  FALSE
  OBVIOUS
<1>1. PICK m \in Nat \ T : \A n \in Nat \ T : m <= n
  <2>1. Nat \ T \in SUBSET Nat
    OBVIOUS
  <2> QED
    BY <2>1, LeastOf
<1>2. m - 1 \in Nat /\ m - 1 \in T
  BY <1>1
<1> QED
  BY <1>1, <1>2

\* Division with remainder.
LEMMA RemainderIs ==
  ASSUME NEW C \in Nat \ {0}, NEW a \in Int
  PROVE  /\ a % C \in 0..C - 1 /\ a \div C \in Int
         /\ a = C * (a \div C) + (a % C)
  OBVIOUS

\* Small multiples.
LEMMA Multiples ==
  ASSUME NEW C \in Nat \ {0}, NEW k \in Int
  PROVE  /\ k >= 2 => C * k >= 2 * C
         /\ k <= -2 => C * k <= - (2 * C)
         /\ k >= 1 => C * k >= C
         /\ k <= -1 => C * k <= -C
  OBVIOUS

LEMMA SameRemainder ==
  ASSUME NEW C \in Nat \ {0}, NEW a \in Int, NEW b \in Int, a - b <= C, b - a <= C
  PROVE  a % C = b % C <=> a = b \/ a = b + C \/ b = a + C
<1> DEFINE q == a \div C
           p == b \div C
           r == a % C
           t == b % C
<1>1. /\ q \in Int /\ p \in Int /\ r \in 0..C - 1 /\ t \in 0..C - 1
      /\ a = C * q + r /\ b = C * p + t
  BY RemainderIs
<1> HIDE DEF q, p, r, t
<1> DEFINE k == q - p
<1>2. k \in Int /\ C * k = C * q - C * p
  BY <1>1
<1>3. a - b = C * k + (r - t) /\ C * k \in Int
  BY <1>1, <1>2
<1>4. /\ k >= 2 => C * k >= 2 * C
      /\ k <= -2 => C * k <= - (2 * C)
      /\ k >= 1 => C * k >= C
      /\ k <= -1 => C * k <= -C
  BY <1>2, Multiples
<1>5. k = 0 => C * k = 0
  OBVIOUS
<1>6. k = 1 => C * k = C
  OBVIOUS
<1>7. k = -1 => C * k = -C
  OBVIOUS
<1>8. ASSUME r = t
      PROVE  a = b \/ a = b + C \/ b = a + C
  <2> HIDE DEF k
  <2>1. a - b = C * k
    BY <1>1, <1>3, <1>8
  <2>2. k = 0 \/ k = 1 \/ k = -1
    BY <1>2, <1>4, <2>1
  <2> QED
    BY <1>5, <1>6, <1>7, <2>1, <2>2
<1>9. ASSUME a = b \/ a = b + C \/ b = a + C
      PROVE  r = t
  <2> HIDE DEF k
  <2>1. r - t = (a - b) - C * k
    BY <1>1, <1>3
  <2>2. CASE a = b
    BY <1>1, <1>2, <1>4, <1>5, <2>1, <2>2
  <2>3. CASE a = b + C
    <3>1. r - t = C - C * k
      BY <2>1, <2>3
    <3> QED
      BY <1>1, <1>2, <1>3, <1>4, <1>5, <1>6, <3>1
  <2>4. CASE b = a + C
    <3>1. r - t = (-C) - C * k
      BY <2>1, <2>4
    <3> QED
      BY <1>1, <1>2, <1>3, <1>4, <1>5, <1>7, <3>1
  <2> QED
    BY <1>9, <2>2, <2>3, <2>4
<1> QED
  BY <1>8, <1>9 DEF r, t

\* The sum of a sequence of numbers, step by step.
LEMMA SumIs ==
  ASSUME NEW s, Len(s) \in Nat, \A n \in 1..Len(s) : s[n] \in Int
  PROVE  \E g \in [0..Len(s) -> Int] :
           /\ g[0] = 0 /\ \A n \in 1..Len(s) : g[n] = g[n - 1] + s[n]
           /\ Sum(s) = g[Len(s)]
<1> DEFINE L == Len(s)
           Sums(g, k) == g[0] = 0 /\ \A n \in 1..k : g[n] = g[n - 1] + s[n]
           T == {k \in Nat : k <= L => \E g \in [0..k -> Int] : Sums(g, k)}
<1>1. 0 \in T
  <2>1. [n \in 0..0 |-> 0] \in [0..0 -> Int] /\ Sums([n \in 0..0 |-> 0], 0)
    OBVIOUS
  <2> QED
    BY <2>1
<1>2. ASSUME NEW k \in Nat, k \in T
      PROVE  k + 1 \in T
  <2> HIDE DEF Sums
  <2> SUFFICES ASSUME k + 1 <= L
               PROVE  \E g \in [0..k + 1 -> Int] : Sums(g, k + 1)
    OBVIOUS
  <2> USE DEF Sums
  <2>1. PICK g \in [0..k -> Int] : Sums(g, k)
    BY <1>2
  <2> DEFINE h == [n \in 0..k + 1 |-> IF n = k + 1 THEN g[k] + s[k + 1] ELSE g[n]]
  <2>2. s[k + 1] \in Int /\ g[k] \in Int
    OBVIOUS
  <2>3. h \in [0..k + 1 -> Int]
    BY <2>2
  <2>4. h[0] = 0
    BY <2>1
  <2>5. ASSUME NEW n \in 1..k + 1
        PROVE  h[n] = h[n - 1] + s[n]
    <3>1. CASE n = k + 1
      BY <3>1
    <3>2. CASE n # k + 1
      BY <2>1, <3>2
    <3> QED
      BY <3>1, <3>2
  <2> HIDE DEF h
  <2> QED
    BY <2>3, <2>4, <2>5
<1>3. L \in T
  <2> HIDE DEF T
  <2> QED
    BY <1>1, <1>2, EveryNatural
<1>4. PICK g \in [0..L -> Int] : Sums(g, L)
  BY <1>3
<1> DEFINE Next1(f) == [n \in 0..L |-> IF n = 0 THEN 0 ELSE f[n - 1] + s[n]]
           sum == CHOOSE f : f = Next1(f)
<1>5. g = Next1(g)
  <2>1. \A n \in 0..L : g[n] = IF n = 0 THEN 0 ELSE g[n - 1] + s[n]
    BY <1>4
  <2> QED
    BY <2>1
<1>6. sum = Next1(sum)
  <2> HIDE DEF Next1
  <2> QED
    BY <1>5
<1>7. Sum(s) = sum[L]
  BY DEF Sum
<1>8. sum \in [0..L -> Int] /\ Sums(sum, L)
  <2> HIDE DEF sum
  <2>1. sum[0] = 0 /\ \A n \in 1..L : sum[n] = sum[n - 1] + s[n]
    <3>1. \A n \in 0..L : sum[n] = IF n = 0 THEN 0 ELSE sum[n - 1] + s[n]
      BY <1>6
    <3> QED
      BY <3>1
  <2> DEFINE U == {k \in Nat : k <= L => sum[k] = g[k]}
  <2>2. 0 \in U
    BY <1>4, <2>1
  <2>3. ASSUME NEW k \in Nat, k \in U
        PROVE  k + 1 \in U
    BY <1>4, <2>1, <2>3
  <2>4. Nat \subseteq U
    <3> HIDE DEF U
    <3> QED
      BY <2>2, <2>3, EveryNatural
  <2>5. \A k \in 0..L : sum[k] \in Int
    BY <1>4, <2>4
  <2> QED
    BY <1>6, <2>1, <2>5
<1> QED
  BY <1>7, <1>8

\* A sequence that differs in one place from another has a sum that differs by as much.
LEMMA SumOfChanged ==
  ASSUME NEW s, NEW t, Len(s) \in Nat, Len(t) = Len(s), NEW m \in 1..Len(s),
         \A n \in 1..Len(s) : s[n] \in Int /\ t[n] \in Int /\ (n # m => t[n] = s[n])
  PROVE  Sum(s) \in Int /\ Sum(t) = Sum(s) + t[m] - s[m]
<1> DEFINE L == Len(s)
<1>1. PICK g \in [0..L -> Int] :
        g[0] = 0 /\ (\A n \in 1..L : g[n] = g[n - 1] + s[n]) /\ Sum(s) = g[L]
  BY SumIs
<1>2. PICK h \in [0..L -> Int] :
        h[0] = 0 /\ (\A n \in 1..L : h[n] = h[n - 1] + t[n]) /\ Sum(t) = h[L]
  <2>1. Len(t) \in Nat /\ \A n \in 1..Len(t) : t[n] \in Int
    OBVIOUS
  <2> QED
    BY <2>1, SumIs
<1> DEFINE T == {k \in Nat : k <= L => h[k] = IF k < m THEN g[k] ELSE g[k] + t[m] - s[m]}
<1>3. 0 \in T
  BY <1>1, <1>2
<1>4. ASSUME NEW k \in Nat, k \in T
      PROVE  k + 1 \in T
  <2> SUFFICES ASSUME k + 1 <= L
               PROVE  h[k + 1] = IF k + 1 < m THEN g[k + 1] ELSE g[k + 1] + t[m] - s[m]
    OBVIOUS
  <2>1. h[k] = IF k < m THEN g[k] ELSE g[k] + t[m] - s[m]
    BY <1>4
  <2>2. h[k + 1] = h[k] + t[k + 1] /\ g[k + 1] = g[k] + s[k + 1]
    BY <1>1, <1>2
  <2>3. g[k] \in Int /\ h[k] \in Int /\ t[k + 1] \in Int /\ s[k + 1] \in Int
        /\ t[m] \in Int /\ s[m] \in Int
    <3> HIDE DEF T
    <3>1. k \in 0..L /\ k + 1 \in 1..L /\ m \in 1..L
      OBVIOUS
    <3> QED
      BY <3>1
  <2>4. CASE k + 1 = m
    BY <2>1, <2>2, <2>3, <2>4
  <2>5. CASE k + 1 # m
    <3>1. t[k + 1] = s[k + 1]
      BY <2>5
    <3> QED
      BY <2>1, <2>2, <2>3, <2>5, <3>1, SMTT(30)
  <2> QED
    BY <2>4, <2>5
<1>5. L \in T
  <2> HIDE DEF T
  <2> QED
    BY <1>3, <1>4, EveryNatural
<1> QED
  BY <1>1, <1>2, <1>5

\* The sum of a key's characters is a number, and it names a character.
LEMMA KeyIs ==
  ASSUME NEW s \in [1..KeyLength -> Char]
  PROVE  /\ Len(s) = KeyLength /\ Sum(s) \in Nat
         /\ ChecksumChar(s) = Sum(s) % CharCount /\ ChecksumChar(s) \in Char
         /\ Len(GenerateLicenseKey(s)) = KeyLength + 1
         /\ GenerateLicenseKey(s) \in [1..KeyLength + 1 -> Char]
         /\ GenerateLicenseKey(s)[KeyLength + 1] = ChecksumChar(s)
         /\ \A n \in 1..KeyLength : GenerateLicenseKey(s)[n] = s[n]
<1>1. CharCount \in Nat \ {0} /\ KeyLength \in Nat
  BY LicenseKeyAssumption
<1>2. Len(s) = KeyLength /\ s \in Seq(Char)
  BY <1>1
<1>3. \A n \in 1..KeyLength : s[n] \in Int /\ s[n] >= 0
  BY <1>1 DEF Char
<1>4. PICK g \in [0..KeyLength -> Int] :
        g[0] = 0 /\ (\A n \in 1..KeyLength : g[n] = g[n - 1] + s[n]) /\ Sum(s) = g[KeyLength]
  <2>1. Len(s) \in Nat /\ \A n \in 1..Len(s) : s[n] \in Int
    BY <1>1, <1>2, <1>3
  <2> QED
    BY <1>2, <2>1, SumIs
<1> DEFINE T == {k \in Nat : k <= KeyLength => g[k] >= 0}
<1>5. 0 \in T
  BY <1>4
<1>6. ASSUME NEW k \in Nat, k \in T
      PROVE  k + 1 \in T
  BY <1>1, <1>3, <1>4, <1>6
<1>7. KeyLength \in T
  <2> HIDE DEF T
  <2> QED
    BY <1>1, <1>5, <1>6, EveryNatural
<1>8. Sum(s) \in Nat
  BY <1>1, <1>4, <1>7
<1>9. ChecksumChar(s) = Sum(s) % CharCount
  BY <1>8 DEF ChecksumChar
<1>10. ChecksumChar(s) \in Char
  <2> DEFINE c == ChecksumChar(s)
  <2>1. c \in 0..CharCount - 1
    <3>1. Sum(s) \in Int
      BY <1>8
    <3> QED
      BY <1>1, <1>9, <3>1, RemainderIs
  <2> QED
    BY <2>1 DEF Char
<1>11. /\ Len(GenerateLicenseKey(s)) = KeyLength + 1
       /\ GenerateLicenseKey(s) \in [1..KeyLength + 1 -> Char]
       /\ GenerateLicenseKey(s)[KeyLength + 1] = ChecksumChar(s)
       /\ \A n \in 1..KeyLength : GenerateLicenseKey(s)[n] = s[n]
  BY <1>1, <1>2, <1>10, SMTT(30) DEF GenerateLicenseKey
<1> QED
  BY <1>2, <1>8, <1>9, <1>10, <1>11

\* What an administrator types: a generated key with one character replaced.
TypedInv ==
  \E s \in [1..KeyLength -> Char], n \in 1..KeyLength + 1, c \in Char \cup {NotInCharset} :
    /\ issuedKey = GenerateLicenseKey(s)
    /\ typedKey = [issuedKey EXCEPT ![n] = c]

LEMMA InitTyping == KeyInit => TypedInv
<1> SUFFICES ASSUME KeyInit
             PROVE  TypedInv
  OBVIOUS
<1>1. PICK s \in [1..KeyLength -> Char] : issuedKey = GenerateLicenseKey(s)
  BY DEF KeyInit
<1>2. issuedKey \in [1..KeyLength + 1 -> Char] /\ KeyLength + 1 \in 1..KeyLength + 1
  BY <1>1, KeyIs, LicenseKeyAssumption
<1> DEFINE c == issuedKey[KeyLength + 1]
<1>3. c \in Char /\ typedKey = [issuedKey EXCEPT ![KeyLength + 1] = c]
  BY <1>2 DEF KeyInit
<1> HIDE DEF c
<1> QED
  BY <1>1, <1>2, <1>3 DEF TypedInv

LEMMA TypingStep == TypedInv /\ [KeyNext]_keyVars => TypedInv'
<1> SUFFICES ASSUME TypedInv, [KeyNext]_keyVars
             PROVE  TypedInv'
  OBVIOUS
<1>1. CASE Mistype
  BY <1>1 DEF TypedInv, Mistype
<1>2. CASE UNCHANGED keyVars
  BY <1>2 DEF TypedInv, keyVars
<1> QED
  BY <1>1, <1>2 DEF KeyNext

\* What stands in a typed key, and what is left of it without its last character.
TypedForm(s, n, c) ==
  /\ Len(Front(typedKey)) = KeyLength
  /\ Front(typedKey) \in Seq(Char \cup {NotInCharset})
  /\ \A m \in 1..KeyLength :
       Front(typedKey)[m] = IF m = n THEN c ELSE s[m]
  /\ Last(typedKey) = IF n = KeyLength + 1 THEN c ELSE ChecksumChar(s)
  /\ Wrong = IF c = issuedKey[n] THEN {} ELSE {n}
  /\ issuedKey[n] = IF n = KeyLength + 1 THEN ChecksumChar(s) ELSE s[n]
  /\ typedKey[n] = c

LEMMA TypedKeyIs ==
  ASSUME NEW s \in [1..KeyLength -> Char], NEW n \in 1..KeyLength + 1,
         NEW c \in Char \cup {NotInCharset},
         issuedKey = GenerateLicenseKey(s), typedKey = [issuedKey EXCEPT ![n] = c]
  PROVE  TypedForm(s, n, c)
<1> DEFINE AnyCharacter == Char \cup {NotInCharset}
           i == issuedKey
           t == typedKey
<1>1. CharCount \in Nat \ {0} /\ KeyLength \in Nat
  BY LicenseKeyAssumption
<1>2. /\ i \in [1..KeyLength + 1 -> Char]
      /\ i[KeyLength + 1] = ChecksumChar(s)
      /\ \A m \in 1..KeyLength : i[m] = s[m]
  BY KeyIs
<1>3. t \in [1..KeyLength + 1 -> AnyCharacter] /\ t = [i EXCEPT ![n] = c]
  BY <1>2
<1>4. \A m \in 1..KeyLength + 1 : t[m] = IF m = n THEN c ELSE i[m]
  BY <1>2, <1>3
<1> HIDE DEF i, t, AnyCharacter
<1>5. t \in Seq(AnyCharacter) /\ Len(t) = KeyLength + 1
  <2> DEFINE M == KeyLength + 1
  <2>1. t \in [1..M -> AnyCharacter] /\ M \in Nat
    BY <1>1, <1>3
  <2> HIDE DEF M
  <2>2. t \in Seq(AnyCharacter) /\ Len(t) = M
    BY <2>1
  <2> QED
    BY <2>2 DEF M
<1>6. /\ Front(t) \in Seq(AnyCharacter) /\ Len(Front(t)) = KeyLength
      /\ \A m \in 1..KeyLength : Front(t)[m] = t[m]
  <2>1. Front(t) = SubSeq(t, 1, KeyLength)
    BY <1>1, <1>5 DEF Front
  <2>2. \A m \in 1..KeyLength : t[m] \in AnyCharacter
    BY <1>1, <1>3
  <2> QED
    BY <1>1, <2>1, <2>2, SubSeqProperties
<1>7. Last(t) = t[KeyLength + 1]
  BY <1>5 DEF Last
<1>8. Wrong = IF c = i[n] THEN {} ELSE {n}
  <2>1. Wrong = {m \in 1..KeyLength + 1 : t[m] # i[m]}
    BY <1>2 DEF Wrong, t, i
  <2> QED
    BY <1>4, <2>1
<1>9. \A m \in 1..KeyLength : Front(t)[m] = IF m = n THEN c ELSE s[m]
  <2> SUFFICES ASSUME NEW m \in 1..KeyLength
               PROVE  Front(t)[m] = IF m = n THEN c ELSE s[m]
    OBVIOUS
  <2>1. m \in 1..KeyLength + 1
    BY <1>1
  <2>2. Front(t)[m] = t[m] /\ i[m] = s[m]
    BY <1>2, <1>6
  <2>3. t[m] = IF m = n THEN c ELSE i[m]
    BY <1>4, <2>1
  <2> QED
    BY <2>2, <2>3
<1>10. Last(t) = IF n = KeyLength + 1 THEN c ELSE ChecksumChar(s)
  BY <1>1, <1>2, <1>4, <1>7
<1>11. i[n] = IF n = KeyLength + 1 THEN ChecksumChar(s) ELSE s[n]
  BY <1>1, <1>2
<1>12. t[n] = c
  BY <1>4
<1> QED
  BY <1>6, <1>8, <1>9, <1>10, <1>11, <1>12 DEF TypedForm, i, t, AnyCharacter

\* The check character itself is wrong or right.
LEMMA CheckCharacterTyped ==
  ASSUME NEW s \in [1..KeyLength -> Char], NEW c \in Char \cup {NotInCharset},
         issuedKey = GenerateLicenseKey(s),
         typedKey = [issuedKey EXCEPT ![KeyLength + 1] = c]
  PROVE  OneTypoIsCaught
<1> DEFINE N == KeyLength + 1
           f == Front(typedKey)
<1>1. CharCount \in Nat \ {0} /\ KeyLength \in Nat /\ N \in 1..KeyLength + 1
  BY LicenseKeyAssumption
<1>2. /\ Len(f) = KeyLength /\ f \in Seq(Char \cup {NotInCharset})
      /\ \A m \in 1..KeyLength : f[m] = IF m = N THEN c ELSE s[m]
      /\ Last(typedKey) = c
      /\ Wrong = IF c = issuedKey[N] THEN {} ELSE {N}
      /\ issuedKey[N] = ChecksumChar(s)
  <2>1. TypedForm(s, N, c)
    BY <1>1, TypedKeyIs
  <2> QED
    BY <1>1, <2>1 DEF TypedForm
<1> HIDE DEF f
<1>3. f = s
  <2>1. s \in Seq(Char \cup {NotInCharset}) /\ Len(s) = KeyLength
    BY <1>1, KeyIs
  <2>2. \A m \in 1..KeyLength : f[m] = s[m]
    BY <1>1, <1>2
  <2> QED
    BY <1>2, <2>1, <2>2, SeqEqual
<1>4. ValidateKeyFormat(typedKey) <=> c = ChecksumChar(s)
  BY <1>2, <1>3 DEF ValidateKeyFormat, f
<1>5. CASE c = ChecksumChar(s)
  BY <1>2, <1>4, <1>5 DEF OneTypoIsCaught
<1>6. CASE c # ChecksumChar(s)
  <2>1. Wrong = {N} /\ ~(N <= KeyLength)
    BY <1>1, <1>2, <1>6
  <2> QED
    BY <1>4, <1>6, <2>1 DEF OneTypoIsCaught
<1> QED
  BY <1>5, <1>6

\* Another character is wrong or right: the sum moves by at most MOD, and only a -1
\* in the place of MOD - 1 moves it by MOD itself.
LEMMA OtherCharacterTyped ==
  ASSUME NEW s \in [1..KeyLength -> Char], NEW n \in 1..KeyLength,
         NEW c \in Char \cup {NotInCharset},
         issuedKey = GenerateLicenseKey(s), typedKey = [issuedKey EXCEPT ![n] = c]
  PROVE  OneTypoIsCaught
<1> DEFINE f == Front(typedKey)
<1>1. /\ CharCount \in Nat \ {0} /\ KeyLength \in Nat /\ n \in 1..KeyLength + 1
      /\ n # KeyLength + 1
  BY LicenseKeyAssumption
<1>2. /\ Len(f) = KeyLength
      /\ \A m \in 1..KeyLength : f[m] = IF m = n THEN c ELSE s[m]
      /\ Last(typedKey) = ChecksumChar(s)
      /\ Wrong = IF c = issuedKey[n] THEN {} ELSE {n}
      /\ issuedKey[n] = s[n] /\ typedKey[n] = c
  <2>1. n \in 1..KeyLength + 1
    BY <1>1
  <2>2. TypedForm(s, n, c)
    BY <2>1, TypedKeyIs
  <2> QED
    BY <1>1, <2>2 DEF TypedForm
<1>3. /\ Len(s) = KeyLength /\ Sum(s) \in Nat
      /\ ChecksumChar(s) = Sum(s) % CharCount /\ ChecksumChar(s) \in Char
  BY KeyIs
<1> HIDE DEF f
<1>4. c \in -1..CharCount - 1 /\ s[n] \in 0..CharCount - 1
  BY <1>1 DEF Char, NotInCharset
<1>5. Sum(f) = Sum(s) + c - s[n]
  <2>1. \A m \in 1..Len(s) : s[m] \in Int /\ f[m] \in Int /\ (m # n => f[m] = s[m])
    BY <1>1, <1>2, <1>3, <1>4 DEF Char
  <2>2. Len(s) \in Nat /\ n \in 1..Len(s) /\ Len(f) = Len(s) /\ f[n] = c
    BY <1>1, <1>2, <1>3
  <2>3. Sum(f) = Sum(s) + f[n] - s[n]
    BY <2>1, <2>2, SumOfChanged
  <2> QED
    BY <2>2, <2>3
<1> DEFINE a == Sum(f)
           b == Sum(s)
<1>6. a \in Int /\ b \in Nat /\ a = b + c - s[n] /\ a - b <= CharCount /\ b - a <= CharCount
  BY <1>1, <1>3, <1>4, <1>5
<1>7. ValidateKeyFormat(typedKey) <=> a >= 0 /\ a % CharCount = b % CharCount
  <2>1. ValidateKeyFormat(typedKey) <=> ChecksumChar(s) = ChecksumChar(f)
    BY <1>2 DEF ValidateKeyFormat, f
  <2>2. CASE a < 0
    BY <1>3, <1>6, <2>1, <2>2 DEF ChecksumChar, Undefined, Char
  <2>3. CASE ~(a < 0)
    <3>1. ChecksumChar(f) = a % CharCount
      BY <2>3 DEF ChecksumChar
    <3>2. a >= 0
      BY <1>6, <2>3
    <3> QED
      BY <1>3, <2>1, <3>1, <3>2
  <2> QED
    BY <2>2, <2>3
<1> HIDE DEF a, b
<1>8. a % CharCount = b % CharCount <=> a = b \/ a = b + CharCount \/ b = a + CharCount
  <2>1. CharCount \in Nat \ {0} /\ a \in Int /\ b \in Int
    BY <1>1, <1>6
  <2>2. a - b <= CharCount /\ b - a <= CharCount
    BY <1>6
  <2> QED
    BY <2>1, <2>2, SameRemainder
<1>9. a % CharCount = b % CharCount <=> c = s[n] \/ (c = -1 /\ s[n] = CharCount - 1)
  <2> DEFINE e == s[n]
  <2>1. /\ CharCount \in Nat \ {0} /\ b \in Nat /\ a = b + c - e
        /\ c \in -1..CharCount - 1 /\ e \in 0..CharCount - 1
    BY <1>1, <1>4, <1>6
  <2> HIDE DEF e
  <2>2. (a = b \/ a = b + CharCount \/ b = a + CharCount)
          <=> c = e \/ (c = -1 /\ e = CharCount - 1)
    BY <2>1
  <2> QED
    BY <1>8, <2>2 DEF e
<1>10. CASE c = s[n]
  <2>1. a >= 0
    BY <1>4, <1>6, <1>10
  <2> QED
    BY <1>2, <1>7, <1>9, <1>10, <2>1 DEF OneTypoIsCaught
<1>11. CASE c # s[n]
  <2>1. Wrong = {n} /\ n <= KeyLength
    BY <1>1, <1>2, <1>11
  <2> QED
    BY <1>2, <1>7, <1>9, <1>11, <2>1 DEF OneTypoIsCaught, NotInCharset, a, f
<1> QED
  BY <1>10, <1>11

\* validateKeyFormat: whatever the length of CHARSET and of a key, a generated key
\* is accepted, and with one wrong character it is refused unless an I, L or O
\* stands in the place of the last character of CHARSET.
THEOREM TypoIsCaught == KeySpec => []OneTypoIsCaught
<1>1. TypedInv => OneTypoIsCaught
  <2> SUFFICES ASSUME TypedInv
               PROVE  OneTypoIsCaught
    OBVIOUS
  <2>1. PICK s \in [1..KeyLength -> Char], n \in 1..KeyLength + 1,
             c \in Char \cup {NotInCharset} :
          issuedKey = GenerateLicenseKey(s) /\ typedKey = [issuedKey EXCEPT ![n] = c]
    BY DEF TypedInv
  <2>2. n = KeyLength + 1 \/ n \in 1..KeyLength
    BY LicenseKeyAssumption
  <2> QED
    BY <2>1, <2>2, CheckCharacterTyped, OtherCharacterTyped
<1> QED
  BY InitTyping, TypingStep, <1>1, PTL DEF KeySpec
============================================================================
