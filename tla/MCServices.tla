----------------------------- MODULE MCServices -----------------------------
(***************************************************************************)
(* One run for services of the panel and of the vendor that share no state *)
(* with each other, the assignment of addresses among them.  Each behaviour *)
(* follows the one chosen by focus, by the actions of its own module, and   *)
(* leaves the variables of the others alone.                                *)
(***************************************************************************)
EXTENDS MCIpam, Accounts, BackupPlans, Retention, Quotas, Alerting, LicenseLock, LicenseServer,
        LicenseKey

VARIABLE focus

serviceVars == <<focus, vars, planVars, copyVars, quotaVars, alertVars, accountVars, lockVars,
                 licenseServerVars, keyVars>>

\* Those that are not followed have one initial state.
ServiceInit ==
  /\ focus \in {"addresses", "plans", "copies", "quotas", "alerts", "accounts", "lock", "licenses",
                "keys"}
  /\ IF focus = "plans" THEN TRUE ELSE service = "interval"
  /\ IF focus = "lock" THEN TRUE ELSE phase = "locked"
  /\ IF focus = "keys" THEN TRUE
     ELSE issuedKey = GenerateLicenseKey([n \in 1..KeyLength |-> 0])
  /\ Init
  /\ PlanInit
  /\ CopyInit
  /\ QuotaInit
  /\ AlertInit
  /\ AccountInit
  /\ LockInit
  /\ LicenseServerInit
  /\ KeyInit

ServiceNext ==
  \/ focus = "addresses" /\ Next
       /\ UNCHANGED <<focus, planVars, copyVars, quotaVars, alertVars, accountVars, lockVars,
                      licenseServerVars, keyVars>>
  \/ focus = "plans" /\ PlanNext
       /\ UNCHANGED <<focus, vars, copyVars, quotaVars, alertVars, accountVars, lockVars, licenseServerVars,
                      keyVars>>
  \/ focus = "copies" /\ CopyNext
       /\ UNCHANGED <<focus, vars, planVars, quotaVars, alertVars, accountVars, lockVars, licenseServerVars,
                      keyVars>>
  \/ focus = "quotas" /\ QuotaNext
       /\ UNCHANGED <<focus, vars, planVars, copyVars, alertVars, accountVars, lockVars, licenseServerVars,
                      keyVars>>
  \/ focus = "alerts" /\ AlertNext
       /\ UNCHANGED <<focus, vars, planVars, copyVars, quotaVars, accountVars, lockVars, licenseServerVars,
                      keyVars>>
  \/ focus = "accounts" /\ AccountNext
       /\ UNCHANGED <<focus, vars, planVars, copyVars, quotaVars, alertVars, lockVars, licenseServerVars,
                      keyVars>>
  \/ focus = "lock" /\ LockNext
       /\ UNCHANGED <<focus, vars, planVars, copyVars, quotaVars, alertVars, accountVars, licenseServerVars,
                      keyVars>>
  \/ focus = "licenses" /\ LicenseServerNext
       /\ UNCHANGED <<focus, vars, planVars, copyVars, quotaVars, alertVars, accountVars, lockVars, keyVars>>
  \/ focus = "keys" /\ KeyNext
       /\ UNCHANGED <<focus, vars, planVars, copyVars, quotaVars, alertVars, accountVars, lockVars,
                      licenseServerVars>>

\* BackupPlans!PlanFairness.
ServiceFairness ==
  /\ WF_planVars(focus = "plans" /\ FiveMinutes)
  /\ \A p \in Passes : WF_planVars(focus = "plans" /\ PassStep(p))
  /\ WF_planVars(focus = "plans" /\ \E p \in Passes : RunDue(p))

ServiceSpec == ServiceInit /\ [][ServiceNext]_serviceVars /\ ServiceFairness

\* Two of ROLES, with two of PERMISSIONS.
TwoRoles == [admin |-> {"manage", "view"}, operator |-> {"view"}]

=============================================================================
