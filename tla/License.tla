------------------------------- MODULE License -------------------------------
(***************************************************************************)
(* The license client of the panel: LicenseService and SystemStateService   *)
(* (backend/src/license), with a license API configured.                   *)
(*                                                                         *)
(* What the panel knows is spread over four places: the install phase and  *)
(* the key in the singleton row, the last signed answer per key in         *)
(* licenses_cache, the key in the environment of the process, and the      *)
(* license state in its memory.  Activations, scheduled and manual         *)
(* refreshes read and write them step by step and may overlap.             *)
(*                                                                         *)
(* The license server is external: server[k] counts its decisions about a  *)
(* key, and an even number means that the key is active.                   *)
(***************************************************************************)
EXTENDS Naturals

CONSTANTS
  Key,         \* license keys
  Proc,        \* executions of activate and refresh that run at one time
  HasNodes,    \* whether the panel has nodes when a key is activated
  MaxChanges,  \* bound of the model: decisions of the server about a key
  MaxCrashes,  \* bound of the model: restarts of the backend
  MaxFaults,   \* bound of the model: rejected database calls
  NoKey, NoAnswer

ASSUME LicenseAssumption ==
  /\ HasNodes \in BOOLEAN
  /\ MaxChanges \in Nat
  /\ MaxCrashes \in Nat
  /\ MaxFaults \in Nat
  /\ NoKey \notin Key
  /\ NoAnswer \notin Nat

VARIABLES
  server,     \* the server's decisions about each key
  phase,      \* system_state.phase
  dbKey,      \* system_state.licenseKey
  cache,      \* licenses_cache: the last answer stored for each key
  envKey,     \* process.env.LICENSE_KEY
  state,      \* LicenseService.state, and the key it was found for
  booting,    \* whether onModuleInit has still to read the phase
  run,        \* the executions: where each stands, what it is, the key it
              \* works with, the answer it has got
  crashes, faults,
  overlapped, \* history: executions whose refresh overlapped another refresh
  mixed,      \* history: the state was last assigned by such an execution
  concurrent, \* history: an activation began during another execution
  cut,        \* history: an activation could not finish or roll back
  checked     \* history: a refresh has been completed since the boot

db == <<phase, dbKey, cache>>
memory == <<envKey, state, booting>>
bounds == <<crashes, faults>>
refreshHistory == <<overlapped, mixed, checked>>
history == <<refreshHistory, concurrent, cut>>
vars == <<server, db, memory, run, bounds, history>>

Phase == {"locked", "activating", "active"}
Refreshing == {"phase", "envOnly", "envOrDb", "remember", "call", "store",
               "fallback", "assign", "assignCached"}
Activating == {"nodes", "setActive", "validated", "rollback"}
Version == 0 .. MaxChanges

State(status, k) == [status |-> status, key |-> k]
Unconfigured == State("unconfigured", NoKey)

Run(label, task, k) == [pc |-> label, task |-> task, key |-> k,
                        answer |-> NoAnswer]
Idle == Run("idle", "refresh", NoKey)

TypeOK ==
  /\ server \in [Key -> Version]
  /\ phase \in Phase
  /\ dbKey \in Key \union {NoKey}
  /\ cache \in [Key -> [version : Version \union {NoAnswer}, recent : BOOLEAN]]
  /\ envKey \in Key \union {NoKey}
  /\ state \in [status : {"unconfigured", "unlicensed", "active", "grace"},
                key : Key \union {NoKey}]
  /\ booting \in BOOLEAN
  /\ run \in [Proc -> [pc : {"idle"} \union Refreshing \union Activating,
                       task : {"activate", "refresh"},
                       key : Key \union {NoKey},
                       answer : Version \union {NoAnswer}]]
  /\ crashes \in 0 .. MaxCrashes
  /\ faults \in 0 .. MaxFaults
  /\ overlapped \subseteq Proc
  /\ {mixed, checked, concurrent, cut} \subseteq BOOLEAN

Init ==
  /\ server = [k \in Key |-> 0]
  /\ phase = "locked"
  /\ dbKey = NoKey
  /\ cache = [k \in Key |-> [version |-> NoAnswer, recent |-> FALSE]]
  /\ envKey = NoKey
  /\ state = Unconfigured
  /\ booting = FALSE
  /\ run = [p \in Proc |-> Idle]
  /\ crashes = 0
  /\ faults = 0
  /\ overlapped = {}
  /\ mixed = FALSE
  /\ checked = FALSE
  /\ concurrent = FALSE
  /\ cut = FALSE

Active(version) == version # NoAnswer /\ version % 2 = 0

At(p, label) == run[p].pc = label
RefreshRuns(p) == run[p].pc \in Refreshing
ActivationRuns(p) == run[p].task = "activate"

-----------------------------------------------------------------------------
(* How an execution goes on.                                               *)

Goto(p, label) == run' = [run EXCEPT ![p].pc = label]
End(p) == run' = [run EXCEPT ![p] = Idle]

\* A call of the database is rejected.
Rejected == faults < MaxFaults /\ faults' = faults + 1

\* The first step of refresh; others may be under way.
EnterRefresh(p) ==
  LET others == {q \in Proc \ {p} : RefreshRuns(q)}
  IN /\ Goto(p, "phase")
     /\ overlapped' = IF others = {} THEN overlapped
                                     ELSE overlapped \union others \union {p}
     /\ UNCHANGED <<mixed, checked>>

\* refresh throws; in an activation the exception reaches the catch block.
ThrowRefresh(p) ==
  /\ IF ActivationRuns(p) THEN Goto(p, "rollback") ELSE End(p)
  /\ overlapped' = overlapped \ {p}
  /\ UNCHANGED <<state, mixed, checked>>

\* refresh assigns the state and returns.
LeaveRefresh(p, s) ==
  /\ state' = s
  /\ IF ActivationRuns(p) THEN Goto(p, "validated") ELSE End(p)
  /\ overlapped' = overlapped \ {p}
  /\ mixed' = (p \in overlapped)
  /\ checked' = TRUE

-----------------------------------------------------------------------------
(* refresh.                                                                *)

\* The scheduled job, or POST /license/refresh.
StartRefresh(p) ==
  /\ ~booting
  /\ At(p, "idle")
  /\ EnterRefresh(p)
  /\ UNCHANGED <<server, db, memory, bounds, concurrent, cut>>

\* An error counts as locked.
ReadPhase(p) ==
  /\ At(p, "phase")
  /\ \/ /\ Goto(p, IF phase = "active" THEN "envOrDb" ELSE "envOnly")
        /\ UNCHANGED faults
     \/ Rejected /\ Goto(p, "envOnly")
  /\ UNCHANGED <<server, db, memory, crashes, history>>

\* Without a key in the environment, an active panel looks it up.
LooksUpKey(p) == At(p, "envOrDb")

\* The key, and the fingerprints of the nodes: both may be rejected, outside
\* of the try.
ReadKey(p) ==
  /\ run[p].pc \in {"envOnly", "envOrDb"}
  /\ \/ /\ envKey # NoKey
        /\ run' = [run EXCEPT ![p].pc = "call", ![p].key = envKey]
        /\ UNCHANGED <<state, faults, refreshHistory>>
     \/ /\ envKey = NoKey /\ LooksUpKey(p) /\ dbKey # NoKey
        /\ run' = [run EXCEPT ![p].pc = "remember", ![p].key = dbKey]
        /\ UNCHANGED <<state, faults, refreshHistory>>
     \/ /\ envKey = NoKey /\ (LooksUpKey(p) => dbKey = NoKey)
        /\ LeaveRefresh(p, Unconfigured)
        /\ UNCHANGED faults
     \/ /\ envKey # NoKey \/ LooksUpKey(p)
        /\ Rejected
        /\ ThrowRefresh(p)
  /\ UNCHANGED <<server, db, envKey, booting, crashes, concurrent, cut>>

RememberKey(p) ==
  /\ At(p, "remember")
  /\ envKey' = run[p].key
  /\ Goto(p, "call")
  /\ UNCHANGED <<server, db, state, booting, bounds, history>>

\* POST /license/validate: a signed answer with the right nonce, or an error.
Validate(p) ==
  /\ At(p, "call")
  /\ \/ run' = [run EXCEPT ![p].pc = "store", ![p].answer = server[run[p].key]]
     \/ Goto(p, "fallback")
  /\ UNCHANGED <<server, db, memory, bounds, history>>

\* The upsert; when it is rejected the answer is forgotten.
Store(p) ==
  /\ At(p, "store")
  /\ \/ /\ cache' = [cache EXCEPT ![run[p].key] =
                       [version |-> run[p].answer, recent |-> TRUE]]
        /\ Goto(p, "assign")
        /\ UNCHANGED faults
     \/ Rejected /\ Goto(p, "fallback") /\ UNCHANGED cache
  /\ UNCHANGED <<server, phase, dbKey, memory, crashes, history>>

MutantNoGraceEnd(c) == Active(c.version)

\* The stored answer counts until issuedAt + gracePeriodDays.
InGrace(c) == Active(c.version) /\ c.recent

Fallback(p) ==
  LET c == cache[run[p].key] IN
  /\ At(p, "fallback")
  /\ \/ /\ run' = [run EXCEPT ![p].pc = "assignCached",
                     ![p].answer = IF InGrace(c) THEN c.version ELSE NoAnswer]
        /\ UNCHANGED <<state, faults, refreshHistory>>
     \/ Rejected /\ ThrowRefresh(p)
  /\ UNCHANGED <<server, db, envKey, booting, crashes, concurrent, cut>>

\* The status of the answer is not looked at.
MutantLicensed(p) ==
  State(IF run[p].answer = NoAnswer THEN "unlicensed"
        ELSE IF At(p, "assignCached") THEN "grace" ELSE "active",
        run[p].key)

\* What an answer makes of the license; one from the cache counts as grace.
Licensed(p) ==
  State(IF ~Active(run[p].answer) THEN "unlicensed"
        ELSE IF At(p, "assignCached") THEN "grace" ELSE "active",
        run[p].key)

Assign(p) ==
  /\ run[p].pc \in {"assign", "assignCached"}
  /\ LeaveRefresh(p, Licensed(p))
  /\ UNCHANGED <<server, db, envKey, booting, bounds, concurrent, cut>>

-----------------------------------------------------------------------------
(* activate.                                                               *)

\* setActivating; when it is rejected nothing has happened.
Activate(p, k) ==
  /\ ~booting
  /\ At(p, "idle")
  /\ phase' = "activating"
  /\ run' = [run EXCEPT ![p] = Run("nodes", "activate", k)]
  /\ concurrent' = (concurrent \/ \E q \in Proc : ~At(q, "idle"))
  /\ UNCHANGED <<server, dbKey, cache, memory, bounds, refreshHistory, cut>>

\* Every node is activated, one call each, and the key is put into the
\* environment; or one of the calls, or the lookup of the nodes, fails.
ActivateNodes(p) ==
  /\ At(p, "nodes")
  /\ \/ /\ HasNodes => Active(server[run[p].key])
        /\ envKey' = run[p].key
        /\ Goto(p, "setActive")
     \/ Goto(p, "rollback") /\ UNCHANGED envKey
  /\ UNCHANGED <<server, db, state, booting, bounds, history>>

MutantForgetsKey(p) == dbKey  \* the key is left out of the update

StoredKey(p) == run[p].key

\* setActive, and on to the first validation.
SetActive(p) ==
  /\ At(p, "setActive")
  /\ \/ /\ phase' = "active"
        /\ dbKey' = StoredKey(p)
        /\ EnterRefresh(p)
        /\ UNCHANGED faults
     \/ Rejected /\ Goto(p, "rollback")
        /\ UNCHANGED <<phase, dbKey, refreshHistory>>
  /\ UNCHANGED <<server, cache, memory, crashes, concurrent, cut>>

\* updateValidatedAt is awaited inside the try.
FinishActivation(p) ==
  /\ At(p, "validated")
  /\ \/ End(p) /\ UNCHANGED faults
     \/ Rejected /\ Goto(p, "rollback")
  /\ UNCHANGED <<server, db, memory, crashes, history>>

MutantStays(ph) == ph  \* the catch block only rethrows

PhaseAfterFailure(ph) == "locked"

\* setLocked, whose own rejection is swallowed.
Rollback(p) ==
  /\ At(p, "rollback")
  /\ \/ phase' = PhaseAfterFailure(phase) /\ UNCHANGED <<faults, cut>>
     \/ Rejected /\ cut' = TRUE /\ UNCHANGED phase
  /\ End(p)
  /\ UNCHANGED <<server, dbKey, cache, memory, crashes, refreshHistory,
                 concurrent>>

-----------------------------------------------------------------------------
(* The backend restarts; onModuleInit refreshes an active panel.           *)

Crash ==
  /\ crashes < MaxCrashes
  /\ crashes' = crashes + 1
  /\ cut' = (cut \/ \E p \in Proc : ActivationRuns(p))
  /\ envKey' = NoKey
  /\ state' = Unconfigured
  /\ booting' = TRUE
  /\ run' = [p \in Proc |-> Idle]
  /\ overlapped' = {}
  /\ mixed' = FALSE
  /\ checked' = FALSE
  /\ UNCHANGED <<server, db, faults, concurrent>>

Boot(p) ==
  /\ booting
  /\ booting' = FALSE
  /\ \/ /\ phase = "active"
        /\ EnterRefresh(p)
        /\ UNCHANGED faults
     \/ /\ (phase # "active" /\ UNCHANGED faults) \/ Rejected
        /\ UNCHANGED <<run, refreshHistory>>
  /\ UNCHANGED <<server, db, envKey, state, crashes, concurrent, cut>>

-----------------------------------------------------------------------------
(* The world outside.                                                      *)

ServerDecides(k) ==
  /\ server[k] < MaxChanges
  /\ server' = [server EXCEPT ![k] = @ + 1]
  /\ UNCHANGED <<db, memory, run, bounds, history>>

\* More than gracePeriodDays have passed since the stored answer was issued.
GraceEnds(k) ==
  /\ InGrace(cache[k])
  /\ cache' = [cache EXCEPT ![k].recent = FALSE]
  /\ UNCHANGED <<server, phase, dbKey, memory, run, bounds, history>>

Step(p) ==
  \/ ReadPhase(p)
  \/ ReadKey(p)
  \/ RememberKey(p)
  \/ Validate(p)
  \/ Store(p)
  \/ Fallback(p)
  \/ Assign(p)
  \/ ActivateNodes(p)
  \/ SetActive(p)
  \/ FinishActivation(p)
  \/ Rollback(p)

Next ==
  \/ \E p \in Proc :
       \/ StartRefresh(p)
       \/ Step(p)
       \/ Boot(p)
       \/ \E k \in Key : Activate(p, k)
  \/ \E k \in Key : ServerDecides(k) \/ GraceEnds(k)
  \/ Crash

Spec == Init /\ [][Next]_vars

\* Executions end, the scheduled refresh comes every six hours, and time passes.
Fairness ==
  /\ \A p \in Proc : WF_vars(Step(p))
  /\ WF_vars(\E p \in Proc : StartRefresh(p))
  /\ WF_vars(\E p \in Proc : Boot(p))
  /\ \A k \in Key : WF_vars(GraceEnds(k))

FairSpec == Spec /\ Fairness
-----------------------------------------------------------------------------
(* Properties.                                                             *)

\* assertWriteAllowed: creating VMs is refused without an active phase, and to
\* an unlicensed panel.
WriteAllowed == phase = "active" /\ state.status # "unlicensed"

\* The key that the next refresh will use.
KeyInUse == IF envKey # NoKey THEN envKey ELSE dbKey

\* What the memory of the process says is backed by what is stored: a state
\* active or grace has a stored answer of its key that says active, whatever
\* refreshes, rejected upserts and grace periods came before.  Two refreshes
\* that overlap may store in one order and assign in the other.
LicensedStateIsBacked ==
  (/\ state.status \in {"active", "grace"}
   /\ ~mixed
   /\ \A p \in Proc : run[p].pc \notin {"assign", "assignCached"})
  => Active(cache[state.key].version)

\* The key that this process validates is the key that the next process will
\* find: they are written one after the other in activate, and refresh copies
\* one into the other.  An activation that begins while another execution is
\* under way is excepted.
KeysAgree ==
  (/\ phase = "active"
   /\ ~concurrent
   /\ \A p \in Proc : ~ActivationRuns(p))
  => envKey \in {NoKey, dbKey}

\* A license that has been revoked for good takes effect for good, whether the
\* server can be reached or not: the answer, or the end of the grace period,
\* reaches the gate, also across restarts, rejected calls and refreshes that
\* overlap.
RevocationTakesEffect ==
  <>[](KeyInUse \in Key => ~Active(server[KeyInUse])) => <>[](~WriteAllowed)

\* An activation does not leave the panel in the phase "activating", unless a
\* crash or a rejected rollback cut it short.
ActivationSettles == phase = "activating" ~> (phase # "activating" \/ cut)
=============================================================================
