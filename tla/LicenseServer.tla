--------------------------- MODULE LicenseServer ---------------------------
(***************************************************************************)
(* The license server for one license: activations of installations, the   *)
(* periodic validation, the administrator's deactivation, and the rate     *)
(* limit in memory they pass first.  Every request runs to its next await; *)
(* requests of several installations interleave there.                     *)
(***************************************************************************)
EXTENDS Integers, FiniteSets

CONSTANTS Installs,        \* installations
          Ips,             \* addresses requests come from
          Activates,       \* activate requests under way at once
          MaxActivations,  \* the limit of the tier
          RateWindow,      \* ticks of a window of the rate limit
          RateMax          \* requests a window admits

ASSUME LicenseServerAssumption ==
  /\ IsFiniteSet(Installs) /\ IsFiniteSet(Activates) /\ Activates # {}
  /\ MaxActivations \in Nat /\ RateMax \in Nat /\ RateWindow \in Nat \ {0}

VARIABLES license,         \* License.status; suspended is treated as revoked
          expired,         \* expiresAt has passed
          activation,      \* table Activation
          bucket,          \* the Map of rate-limit.ts, the entries of activate
          activate,        \* activate requests between two awaits
          validating,      \* a validate request has read an active license past its date
          admitted         \* history: for each bucket, requests admitted in the last
                           \* n ticks, the current one included, for n up to RateWindow

licenseServerVars == <<license, expired, activation, bucket, activate, validating, admitted>>

KeyBucket == "key"
BucketKeys == Ips \cup {KeyBucket}
NoBucket == [count |-> 0, left |-> -1]
NoActivate == [step |-> "none", install |-> "none"]
ActivateSteps == {"none", "license", "existing", "count", "create"}

LicenseServerTypeOK ==
  /\ license \in {"active", "expired", "revoked"}
  /\ expired \in BOOLEAN
  /\ activation \in [Installs -> {"none", "active", "revoked"}]
  /\ bucket \in [BucketKeys -> [count : 0..RateMax + 1, left : -1..RateWindow]]
  /\ validating \in BOOLEAN
  /\ activate \in [Activates -> [step : ActivateSteps, install : Installs \cup {"none"}]]
  /\ admitted \in [BucketKeys -> [1..RateWindow -> Nat]]

LicenseServerInit ==
  /\ license = "active" /\ expired = FALSE
  /\ activation = [i \in Installs |-> "none"]
  /\ bucket = [k \in BucketKeys |-> NoBucket]
  /\ activate = [q \in Activates |-> NoActivate] /\ validating = FALSE
  /\ admitted = [k \in BucketKeys |-> [n \in 1..RateWindow |-> 0]]

-----------------------------------------------------------------------------
(* checkRateLimit.                                                          *)

\* A missing bucket and one whose resetAt is in the past begin again.
Counted(k) ==
  LET b == IF bucket[k].left < 0 THEN [count |-> 0, left |-> RateWindow] ELSE bucket[k]
  IN  [b EXCEPT !.count = IF @ > RateMax THEN @ ELSE @ + 1]

\* (Defect for a mutant run: the count is compared after one more request.)
MutantOver(k) == Counted(k).count > RateMax /\ bucket[k].count > RateMax

Over(k) == Counted(k).count > RateMax

\* The address is counted first; a request it stops is not counted for the key.
\* (The count is not followed beyond RateMax + 1.)
CheckRateLimit(ip) ==
  /\ bucket' = [k \in BucketKeys |->
       IF k = ip \/ (k = KeyBucket /\ ~Over(ip)) THEN Counted(k) ELSE bucket[k]]
  /\ admitted' = IF Over(ip) \/ Over(KeyBucket) THEN admitted
                 ELSE [k \in BucketKeys |->
                        IF k \in {ip, KeyBucket} THEN [n \in 1..RateWindow |-> admitted[k][n] + 1]
                        ELSE admitted[k]]

\* The bucket counts down to its resetAt and lives until a tick after it; the
\* cleanup deletes what a request would begin again anyway.
ServerTick ==
  /\ \E k \in BucketKeys : bucket[k].left >= 0 \/ \E n \in 1..RateWindow : admitted[k][n] > 0
  /\ bucket' = [k \in BucketKeys |->
       IF bucket[k].left <= 0 THEN NoBucket ELSE [bucket[k] EXCEPT !.left = @ - 1]]
  /\ admitted' = [k \in BucketKeys |->
       [n \in 1..RateWindow |-> IF n = 1 THEN 0 ELSE admitted[k][n - 1]]]
  /\ UNCHANGED <<license, expired, activation, activate, validating>>

ServerRestart ==
  /\ bucket' = [k \in BucketKeys |-> NoBucket]
  /\ admitted' = [k \in BucketKeys |-> [n \in 1..RateWindow |-> 0]]
  /\ activate' = [q \in Activates |-> NoActivate] /\ validating' = FALSE
  /\ UNCHANGED <<license, expired, activation>>

-----------------------------------------------------------------------------
(* The handlers.                                                            *)

At(q, s) == activate[q].step = s
MoveOn(q, s) == activate' = [activate EXCEPT ![q].step = s]
Answer(q) == activate' = [activate EXCEPT ![q] = NoActivate]

ActivateArrives(q) ==
  /\ At(q, "none")
  /\ \E i \in Installs, ip \in Ips :
       /\ CheckRateLimit(ip)
       /\ activate' = IF Over(ip) \/ Over(KeyBucket) THEN activate
                      ELSE [activate EXCEPT ![q] = [step |-> "license", install |-> i]]
  /\ UNCHANGED <<license, expired, activation, validating>>

ReadLicense(q) ==
  /\ At(q, "license")
  /\ IF license = "active" /\ ~expired THEN MoveOn(q, "existing") ELSE Answer(q)
  /\ UNCHANGED <<license, expired, activation, bucket, validating, admitted>>

\* A row of this installation, revoked or not, is refreshed and keeps its revokedAt.
ReadActivation(q) ==
  /\ At(q, "existing")
  /\ IF activation[activate[q].install] = "none" THEN MoveOn(q, "count") ELSE Answer(q)
  /\ UNCHANGED <<license, expired, activation, bucket, validating, admitted>>

Active == {i \in Installs : activation[i] = "active"}

\* (Defect for a mutant run: one activation too many is let through.)
MutantFull == Cardinality(Active) > MaxActivations

Full == Cardinality(Active) >= MaxActivations

CountActivations(q) ==
  /\ At(q, "count")
  /\ IF Full THEN Answer(q) ELSE MoveOn(q, "create")
  /\ UNCHANGED <<license, expired, activation, bucket, validating, admitted>>

\* A second create for the same installation fails on the unique index.
CreateActivation(q) ==
  /\ At(q, "create")
  /\ activation' = [activation EXCEPT ![activate[q].install] = IF @ = "none" THEN "active" ELSE @]
  /\ Answer(q)
  /\ UNCHANGED <<license, expired, bucket, validating, admitted>>

\* Its own buckets let the request through and it reads an active license past its
\* date; after the log it writes expired, whatever has become of the license.
Validate ==
  /\ \/ ~validating /\ license = "active" /\ expired /\ validating' = TRUE /\ UNCHANGED license
     \/ validating /\ validating' = FALSE /\ license' = "expired"
  /\ UNCHANGED <<expired, activation, bucket, activate, admitted>>

Deactivate(i) ==
  /\ activation[i] = "active"
  /\ activation' = [activation EXCEPT ![i] = "revoked"]
  /\ UNCHANGED <<license, expired, bucket, activate, validating, admitted>>

\* The provider's administrator, and the calendar.
LicenseChanges ==
  /\ \/ license' \in {"active", "revoked"} \ {license} /\ UNCHANGED expired
     \/ ~expired /\ expired' = TRUE /\ UNCHANGED license
  /\ UNCHANGED <<activation, bucket, activate, validating, admitted>>

LicenseServerNext ==
  \/ \E q \in Activates : \/ ActivateArrives(q) \/ ReadLicense(q) \/ ReadActivation(q)
                          \/ CountActivations(q) \/ CreateActivation(q)
  \/ \E i \in Installs : Deactivate(i)
  \/ Validate \/ LicenseChanges \/ ServerTick \/ ServerRestart

LicenseServerSpec == LicenseServerInit /\ [][LicenseServerNext]_licenseServerVars

-----------------------------------------------------------------------------
(* Properties.                                                              *)

\* The window is fixed, not sliding as the comment at its head says, so in any span
\* as long as a window a bucket may admit the requests of two windows, and no more.
AdmissionIsBounded ==
  \A k \in BucketKeys : admitted[k][RateWindow] <= 2 * RateMax

\* The count and the create are two statements: more installations than the tier
\* allows may become active, but only by the requests that were between the two.
ActivationsAreBounded ==
  Cardinality(Active) + Cardinality({q \in Activates : At(q, "create")})
    < MaxActivations + Cardinality(Activates)
=============================================================================
