---------------------------- MODULE ServiceProofs ----------------------------
(***************************************************************************)
(* Proofs about the services that MCServices checks together, for every    *)
(* value of their constants: addresses, accounts, alert rules, the lock of *)
(* the panel, backup plans, retention, quotas and the license server.      *)
(***************************************************************************)
EXTENDS Ipam, Accounts, Alerting, LicenseLock, BackupPlans, Retention, Quotas,
        LicenseServer, FiniteSetTheorems, TLAPS

-----------------------------------------------------------------------------
(* Addresses (Ipam).                                                       *)

\* Initially no call has begun.
LEMMA InitHolds == Init => IInv
  BY IpamAssumption DEF Init, IInv, TypeOK, ChosenInv, LockInv, Inserts

\* Every step keeps every variable in its type.
LEMMA TypeStep == IInv /\ [Next]_vars => TypeOK'
<1> SUFFICES ASSUME IInv, [Next]_vars
             PROVE  TypeOK'
  OBVIOUS
<1> USE IpamAssumption DEF IInv, TypeOK, Goto
<1>1. ASSUME NEW c \in Call, Choose(c)
      PROVE  TypeOK'
  BY <1>1 DEF Choose, FreeAddrs
<1>2. ASSUME NEW c \in Call, NothingFree(c) \/ WriteMisses(c)
      PROVE  TypeOK'
  BY <1>2 DEF NothingFree, WriteMisses, Rejected
<1>3. ASSUME NEW c \in Call, Write(c)
      PROVE  TypeOK'
  BY <1>3 DEF Write
<1>4. ASSUME NEW c \in Call, Commit(c)
      PROVE  TypeOK'
  BY <1>4 DEF Commit
<1>5. ASSUME NEW c \in Call, Rollback(c)
      PROVE  TypeOK'
  BY <1>5 DEF Rollback
<1>6. ASSUME NEW c \in Call, CountNics(c)
      PROVE  TypeOK'
  BY <1>6 DEF CountNics, NicsOf
<1>7. ASSUME NEW c \in Call, ReleaseAddrs(c) \/ DeleteNic(c)
      PROVE  TypeOK'
  BY <1>7 DEF ReleaseAddrs, Released, DeleteNic
<1>8. ASSUME NEW c \in Call, CountInUse(c) \/ DeletePool(c)
      PROVE  TypeOK'
  BY <1>8 DEF CountInUse, DeletePool
<1>9. ASSUME NEW v \in Vm, DeleteVm(v)
      PROVE  TypeOK'
  BY <1>9 DEF DeleteVm
<1>10. CASE UNCHANGED vars
  BY <1>10 DEF vars
<1> QED
  BY <1>1, <1>2, <1>3, <1>4, <1>5, <1>6, <1>7, <1>8, <1>9, <1>10 DEF Next

\* Every step keeps what the open transactions rely on: the address in hand,
\* the lock, and that the locked row of a create has no owner.
LEMMA LockStep == IInv /\ [Next]_vars => ChosenInv' /\ LockInv'
<1> SUFFICES ASSUME IInv, [Next]_vars
             PROVE  ChosenInv' /\ LockInv'
  OBVIOUS
<1> USE IpamAssumption DEF IInv, TypeOK, Goto, ChosenInv, LockInv, Inserts
<1>1. ASSUME NEW c \in Call, Choose(c)
      PROVE  ChosenInv' /\ LockInv'
  BY <1>1 DEF Choose, FreeAddrs
<1>2. ASSUME NEW c \in Call, NothingFree(c) \/ WriteMisses(c)
      PROVE  ChosenInv' /\ LockInv'
  BY <1>2 DEF NothingFree, WriteMisses, Rejected
<1>3. ASSUME NEW c \in Call, Write(c)
      PROVE  ChosenInv' /\ LockInv'
  BY <1>3 DEF Write, Writable
<1>4. ASSUME NEW c \in Call, Commit(c)
      PROVE  ChosenInv' /\ LockInv'
  BY <1>4 DEF Commit
<1>5. ASSUME NEW c \in Call, Rollback(c)
      PROVE  ChosenInv' /\ LockInv'
  BY <1>5 DEF Rollback
<1>6. ASSUME NEW c \in Call, CountNics(c)
      PROVE  ChosenInv' /\ LockInv'
  BY <1>6 DEF CountNics
<1>7. ASSUME NEW c \in Call, ReleaseAddrs(c)
      PROVE  ChosenInv' /\ LockInv'
  <2>1. \A a \in Addr : owner[a] = NoCall => owner'[a] = NoCall
    BY <1>7 DEF ReleaseAddrs, Released
  <2>2. /\ \A d \in Call : Inserts(d) => pc'[d] = pc[d]
        /\ chosen' = chosen /\ lock' = lock
    BY <1>7 DEF ReleaseAddrs
  <2> QED
    BY <2>1, <2>2
<1>8. ASSUME NEW c \in Call, DeleteNic(c)
      PROVE  ChosenInv' /\ LockInv'
  <2>1. /\ \A d \in Call : pc'[d] \in {"chosen", "written"} => pc'[d] = pc[d]
        /\ chosen' = chosen /\ lock' = lock /\ owner' = owner
    BY <1>8 DEF DeleteNic
  <2> QED
    BY <2>1
<1>11. ASSUME NEW c \in Call, CountInUse(c) \/ DeletePool(c)
      PROVE  ChosenInv' /\ LockInv'
  <2>1. \A a \in Addr : owner[a] = NoCall => owner'[a] = NoCall
    BY <1>11 DEF CountInUse, DeletePool
  <2>2. /\ \A d \in Call : Inserts(d) => pc'[d] = pc[d]
        /\ chosen' = chosen /\ lock' = lock
    BY <1>11 DEF CountInUse, DeletePool
  <2> QED
    BY <2>1, <2>2
<1>9. ASSUME NEW v \in Vm, DeleteVm(v)
      PROVE  ChosenInv' /\ LockInv'
  BY <1>9 DEF DeleteVm
<1>10. CASE UNCHANGED vars
  BY <1>10 DEF vars
<1> QED
  BY <1>1, <1>2, <1>3, <1>4, <1>5, <1>6, <1>7, <1>8, <1>9, <1>10,
     <1>11 DEF Next

\* The invariant is inductive.
THEOREM IpamInductive == Spec => []IInv
<1>1. IInv /\ [Next]_vars => IInv'
  BY TypeStep, LockStep DEF IInv
<1> QED
  BY InitHolds, <1>1, PTL DEF Spec

\* Every variable keeps its type.
THEOREM IpamTypeCorrect == Spec => []TypeOK
<1>1. IInv => TypeOK
  BY DEF IInv
<1> QED
  BY IpamInductive, <1>1, PTL

-----------------------------------------------------------------------------

\* What a single step may do to the owner of an address.
MayLose(a, n) ==
  \/ GivesBack(n)'
  \/ HomePool[a] \notin pools'
  \/ KindOf[owner'[a]] = "addNic"

\* No step takes an address from a NIC that is not being removed, but the
\* commit of an addNic and the deletion of the pool.
LEMMA OwnerStep ==
  ASSUME IInv, [Next]_vars, NEW a \in Addr, NEW n \in Call,
         owner[a] = n, owner'[a] # n
  PROVE  MayLose(a, n)
<1> USE IpamAssumption DEF IInv, TypeOK
<1>1. ASSUME NEW c \in Call, Commit(c)
      PROVE  MayLose(a, n)
  <2>1. chosen[c] = a /\ owner'[a] = c
    BY <1>1 DEF Commit, ChosenInv
  <2>2. KindOf[c] # "create"
    BY <1>1, <2>1 DEF Commit, LockInv
  <2>3. KindOf[c] = "addNic"
    BY <1>1, <2>2 DEF Commit, Inserts
  <2> QED
    BY <2>1, <2>3 DEF MayLose
<1>2. ASSUME NEW c \in Call, ReleaseAddrs(c)
      PROVE  MayLose(a, n)
  <2>1. victim'[c] = n /\ pc'[c] = "released"
    BY <1>2 DEF ReleaseAddrs, Goto
  <2> QED
    BY <2>1 DEF MayLose, GivesBack
<1>3. ASSUME NEW v \in Vm, DeleteVm(v)
      PROVE  MayLose(a, n)
  BY <1>3 DEF DeleteVm, MayLose, GivesBack
<1>4. ASSUME NEW c \in Call, DeletePool(c)
      PROVE  MayLose(a, n)
  BY <1>4 DEF DeletePool, MayLose
<1>5. ASSUME NEW c \in Call,
             \/ Choose(c) \/ NothingFree(c) \/ Write(c) \/ WriteMisses(c)
             \/ Rollback(c) \/ CountNics(c) \/ DeleteNic(c) \/ CountInUse(c)
      PROVE  FALSE
  BY <1>5 DEF Choose, NothingFree, Write, WriteMisses, Rollback, CountNics,
              DeleteNic, CountInUse, Rejected
<1>6. CASE UNCHANGED vars
  BY <1>6 DEF vars
<1> QED
  BY <1>1, <1>2, <1>3, <1>4, <1>5, <1>6 DEF Next

\* An address stays with its NIC, whatever calls run at the same time.
THEOREM AddressIsKept == Spec => AddressStays
<1>1. IInv /\ [Next]_vars =>
        [\A a \in Addr, n \in Call :
           owner[a] = n /\ owner'[a] # n =>
             \/ GivesBack(n)'
             \/ HomePool[a] \notin pools'
             \/ KindOf[owner'[a]] = "addNic"]_vars
  BY OwnerStep DEF MayLose
<1> QED
  BY IpamInductive, <1>1, PTL DEF Spec, AddressStays

-----------------------------------------------------------------------------
(* One-time tokens.  A token with which something has been done is gone, and *)
(* so is the one of a request that is about to issue a session; a token that *)
(* is gone never comes back.                                               *)

Pairs == {"code", "spend", "issue", "hash"}

TokenTypes ==
  /\ token \in [OneTimeTokens -> {"none", "totp", "reset", "gone"}]
  /\ login \in [Logins -> [kind : Pairs \cup {"none", "confirm"}, token : OneTimeTokens \cup {0},
                           value : Secrets \cup {0}, late : BOOLEAN]]
  /\ setup \in Secrets \cup {0}
  /\ \A q \in Logins : login[q].kind \in Pairs => login[q].token \in OneTimeTokens

SpentIsGone ==
  /\ \A t \in spent : token[t] = "gone"
  /\ \A q \in Logins : /\ login[q].late = FALSE
                       /\ login[q].kind = "issue" => token[login[q].token] = "gone"
  /\ reused = FALSE

TokenInv == TokenTypes /\ spent \subseteq OneTimeTokens /\ SpentIsGone

LEMMA TokenInvInit == AccountInit => TokenInv
BY DEF AccountInit, TokenInv, TokenTypes, SpentIsGone, NoLogin, Pairs

\* What does not touch requests and spends nothing may only take tokens away or
\* make new ones.
LEMMA OthersKeepTokens ==
  ASSUME TokenInv, UNCHANGED <<login, spent, reused>>,
         setup' \in Secrets \cup {0},
         token' \in [OneTimeTokens -> {"none", "totp", "reset", "gone"}],
         \A t \in OneTimeTokens : token[t] = "gone" => token'[t] = "gone"
  PROVE  TokenInv'
<1>1. TokenTypes'
  BY DEF TokenInv, TokenTypes
<1>2. \A q \in Logins : login[q].kind = "issue" => login[q].token \in OneTimeTokens
  BY DEF TokenInv, TokenTypes, Pairs
<1>3. SpentIsGone'
  BY <1>2 DEF TokenInv, SpentIsGone
<1>4. QED
  BY <1>1, <1>3 DEF TokenInv

\* A request ends, or goes to another place without an effect.
LEMMA RequestsKeepTokens ==
  ASSUME TokenInv, UNCHANGED <<setup, token, spent, reused>>,
         NEW q \in Logins,
         NEW l \in [kind : Pairs \cup {"none", "confirm"}, token : OneTimeTokens \cup {0},
                    value : Secrets \cup {0}, late : BOOLEAN],
         login' = [login EXCEPT ![q] = l],
         l.late = FALSE,
         l.kind \in Pairs => l.token \in OneTimeTokens,
         l.kind # "issue"
  PROVE  TokenInv'
BY DEF TokenInv, TokenTypes, SpentIsGone

LEMMA TokenInvStep ==
  ASSUME TokenInv, [AccountNext]_accountVars
  PROVE  TokenInv'
<1>1. CASE UNCHANGED accountVars
  BY <1>1 DEF accountVars, TokenInv, TokenTypes, SpentIsGone
<1>2. ASSUME \/ \E n \in RoleNames, p \in Permissions : SeedGrant(n, p)
             \/ SeedAdmin
             \/ \E n \in RoleNames, ps \in SUBSET Permissions : CreateRole(n, ps) \/ UpdateRole(n, ps)
             \/ \E n \in RoleNames : DeleteRole(n)
             \/ UpdateUser \/ TotpDisable
             \/ \E p \in Passwords : ChangePassword(p)
      PROVE  TokenInv'
  <2>1. UNCHANGED <<setup, token, login, spent, reused>>
    BY <1>2 DEF SeedGrant, SeedAdmin, CreateRole, UpdateRole, DeleteRole, UpdateUser,
                TotpDisable, ChangePassword
  <2>2. QED
    BY <2>1 DEF TokenInv, TokenTypes, SpentIsGone
<1>3. CASE PanelRestarts
  BY <1>3 DEF PanelRestarts, TokenInv, TokenTypes, SpentIsGone, NoLogin, Pairs
<1>4. CASE RemoveUser
  <2>1. /\ UNCHANGED <<setup, login, spent, reused>>
        /\ token' \in [OneTimeTokens -> {"none", "totp", "reset", "gone"}]
        /\ \A t \in OneTimeTokens : token[t] = "gone" => token'[t] = "gone"
    BY <1>4 DEF RemoveUser, TokenInv, TokenTypes
  <2>2. QED
    BY <2>1, OthersKeepTokens DEF TokenInv, TokenTypes
<1>5. ASSUME NEW s \in Secrets, TotpSetup(s)
      PROVE  TokenInv'
  BY <1>5, OthersKeepTokens DEF TotpSetup, TokenInv, TokenTypes
<1>6. ASSUME NEW t \in OneTimeTokens, Login(t) \/ ForgotPassword(t) \/ TokenExpires(t)
      PROVE  TokenInv'
  <2>1. /\ UNCHANGED <<setup, login, spent, reused>>
        /\ token' \in [OneTimeTokens -> {"none", "totp", "reset", "gone"}]
        /\ \A u \in OneTimeTokens : token[u] = "gone" => token'[u] = "gone"
    BY <1>6 DEF Login, ForgotPassword, TokenExpires, TokenInv, TokenTypes
  <2>2. QED
    BY <2>1, OthersKeepTokens DEF TokenInv, TokenTypes
<1>7. ASSUME NEW q \in Logins, TotpConfirm(q) \/ LoginFails(q)
      PROVE  TokenInv'
  <2> DEFINE confirm == [NoLogin EXCEPT !.kind = "confirm", !.value = setup]
             R == [kind : Pairs \cup {"none", "confirm"}, token : OneTimeTokens \cup {0},
                   value : Secrets \cup {0}, late : BOOLEAN]
  <2>1. UNCHANGED <<setup, token, spent, reused>>
    BY <1>7 DEF TotpConfirm, LoginFails
  <2>2. NoLogin \in R /\ NoLogin.late = FALSE /\ NoLogin.kind = "none"
    BY DEF NoLogin
  <2>3. confirm \in R /\ confirm.late = FALSE /\ confirm.kind = "confirm"
    <3>1. setup \in Secrets \cup {0}
      BY DEF TokenInv, TokenTypes
    <3>2. QED
      BY <2>2, <3>1
  <2>4. CASE TotpConfirm(q)
    <3>1. login' = [login EXCEPT ![q] = confirm]
      BY <2>4 DEF TotpConfirm
    <3> HIDE DEF confirm
    <3>2. QED
      BY <2>1, <2>3, <3>1, RequestsKeepTokens DEF Pairs
  <2>5. CASE LoginFails(q)
    <3>1. login' = [login EXCEPT ![q] = NoLogin]
      BY <2>5 DEF LoginFails
    <3>2. QED
      BY <2>1, <2>2, <3>1, RequestsKeepTokens DEF Pairs
  <2>6. QED
    BY <1>7, <2>4, <2>5
<1>8. ASSUME NEW q \in Logins, StoreSecret(q)
      PROVE  TokenInv'
  BY <1>8 DEF StoreSecret, TokenInv, TokenTypes, SpentIsGone, NoLogin, Pairs
<1>9. ASSUME NEW q \in Logins, NEW t \in OneTimeTokens, Present(q, t)
      PROVE  TokenInv'
  <2>1. t \notin spent
    BY <1>9 DEF Present, TokenInv, SpentIsGone
  <2> DEFINE k == IF token[t] = "totp" THEN "code" ELSE "hash"
             l == [kind |-> k, token |-> t, value |-> 0, late |-> t \in spent]
  <2>2. /\ login' = [login EXCEPT ![q] = l]
        /\ UNCHANGED <<setup, token, spent, reused>>
    BY <1>9, Zenon DEF Present
  <2>3. k \in {"code", "hash"} /\ (t \in spent) = FALSE
    BY <2>1
  <2>4. /\ l \in [kind : Pairs \cup {"none", "confirm"}, token : OneTimeTokens \cup {0},
                  value : Secrets \cup {0}, late : BOOLEAN]
        /\ l.late = FALSE /\ l.kind \in {"code", "hash"} /\ l.token \in OneTimeTokens
    <3> HIDE DEF k
    <3>1. QED
      BY <2>3 DEF Pairs
  <2> HIDE DEF l
  <2>5. QED
    BY <2>2, <2>4, RequestsKeepTokens
<1>10. ASSUME NEW q \in Logins, CheckCode(q)
       PROVE  TokenInv'
  <2>1. /\ login' = [login EXCEPT ![q].kind = "spend"] /\ login[q].kind = "code"
        /\ UNCHANGED <<setup, token, spent, reused>>
    BY <1>10 DEF CheckCode
  <2>2. QED
    BY <2>1 DEF TokenInv, TokenTypes, SpentIsGone, Pairs
<1>11. ASSUME NEW q \in Logins, SpendPending(q)
       PROVE  TokenInv'
  <2>1. /\ login' = [login EXCEPT ![q].kind = "issue"] /\ login[q].token \in OneTimeTokens
        /\ token' = [token EXCEPT ![login[q].token] = "gone"]
        /\ UNCHANGED <<setup, spent, reused>>
    BY <1>11 DEF SpendPending, Spent, TokenInv, TokenTypes, Pairs
  <2>2. QED
    BY <2>1 DEF TokenInv, TokenTypes, SpentIsGone, Pairs
<1>12. ASSUME NEW q \in Logins, IssueTokens(q)
       PROVE  TokenInv'
  <2>1. /\ login' = [login EXCEPT ![q] = NoLogin] /\ login[q].kind = "issue"
        /\ spent' = spent \cup {login[q].token} /\ reused' = (reused \/ login[q].late)
        /\ UNCHANGED <<setup, token>>
    BY <1>12 DEF IssueTokens, CarriedOut
  <2>2. /\ login[q].token \in OneTimeTokens /\ token[login[q].token] = "gone"
        /\ reused' = FALSE
    BY <2>1 DEF TokenInv, TokenTypes, SpentIsGone, Pairs
  <2>3. QED
    BY <2>1, <2>2 DEF TokenInv, TokenTypes, SpentIsGone, NoLogin, Pairs
<1>13. ASSUME NEW q \in Logins, NEW p \in Passwords, CommitReset(q, p)
       PROVE  TokenInv'
  <2>1. /\ login' = [login EXCEPT ![q] = NoLogin] /\ login[q].token \in OneTimeTokens
        /\ token' = [token EXCEPT ![login[q].token] = "gone"]
        /\ spent' = spent \cup {login[q].token} /\ reused' = (reused \/ login[q].late)
        /\ UNCHANGED setup
    BY <1>13 DEF CommitReset, CarriedOut, Spent, TokenInv, TokenTypes, Pairs
  <2>2. reused' = FALSE
    BY <2>1 DEF TokenInv, SpentIsGone
  <2>3. QED
    BY <2>1, <2>2 DEF TokenInv, TokenTypes, SpentIsGone, NoLogin, Pairs
<1>14. QED
  BY <1>1, <1>2, <1>3, <1>4, <1>5, <1>6, <1>7, <1>8, <1>9, <1>10, <1>11, <1>12, <1>13
     DEF AccountNext

\* A pending login or a reset link that has done its work is refused by loginTotp and
\* resetPassword from then on.
THEOREM SpentIsRefused == AccountSpec => []SpentTokensAreRefused
<1>1. TokenInv => SpentTokensAreRefused
  BY DEF TokenInv, SpentIsGone, SpentTokensAreRefused
<1>2. TokenInv /\ [AccountNext]_accountVars => TokenInv'
  BY TokenInvStep
<1>3. QED
  BY <1>1, <1>2, TokenInvInit, PTL DEF AccountSpec

-----------------------------------------------------------------------------
(* System roles.  A permission of a system role is there or still to be     *)
(* granted, and a role with the name of a system role is one.              *)

RoleTypes ==
  /\ role \in [RoleNames -> [present : BOOLEAN, system : BOOLEAN, permissions : SUBSET Permissions]]
  /\ \A n \in RoleNames : ~role[n].present => role[n].permissions = {}

SeedsRemain ==
  \A n \in DOMAIN SystemRoles : \A p \in SystemRoles[n] :
    \/ <<n, p>> \in seeding.grants
    \/ /\ n \in RoleNames
       /\ p \in role[n].permissions

SystemOnly ==
  \A n \in RoleNames :
    (n \in DOMAIN SystemRoles /\ SystemRoles[n] # {} /\ role[n].present) => role[n].system

RoleInv ==
  /\ RoleTypes /\ SeedsRemain /\ SystemOnly
  /\ seeding \in [grants : SUBSET Seeds.grants, admin : BOOLEAN]

LEMMA AllSeeds ==
  ASSUME NEW n \in DOMAIN SystemRoles, NEW p \in SystemRoles[n]
  PROVE  <<n, p>> \in Seeds.grants
BY DEF Seeds

LEMMA RoleInvInit == AccountInit => RoleInv
<1> SUFFICES ASSUME AccountInit PROVE RoleInv
  OBVIOUS
<1>1. RoleTypes /\ SystemOnly
  BY DEF AccountInit, RoleTypes, SystemOnly, NoRole
<1>2. SeedsRemain /\ seeding \in [grants : SUBSET Seeds.grants, admin : BOOLEAN]
  <2>1. seeding = Seeds
    BY DEF AccountInit
  <2>2. Seeds \in [grants : SUBSET Seeds.grants, admin : BOOLEAN]
    BY DEF Seeds
  <2>3. seeding \in [grants : SUBSET Seeds.grants, admin : BOOLEAN]
    BY <2>1, <2>2, Zenon
  <2>4. SeedsRemain
    <3> SUFFICES ASSUME NEW n \in DOMAIN SystemRoles, NEW p \in SystemRoles[n]
                 PROVE  <<n, p>> \in seeding.grants
      BY DEF SeedsRemain
    <3>1. <<n, p>> \in Seeds.grants
      BY AllSeeds
    <3>2. QED
      BY <2>1, <3>1, Zenon
  <2>5. QED
    BY <2>3, <2>4
<1>3. QED
  BY <1>1, <1>2 DEF RoleInv

\* A role that gets permissions, or is made anew where there was none, keeps the
\* invariant if the seeds stay what they are.
LEMMA RoleChangeKeeps ==
  ASSUME RoleInv, UNCHANGED seeding, NEW n \in RoleNames,
         NEW r \in [present : BOOLEAN, system : BOOLEAN, permissions : SUBSET Permissions],
         role' = [role EXCEPT ![n] = r],
         ~r.present => r.permissions = {},
         n \notin DOMAIN SystemRoles \/ SystemRoles[n] = {}
  PROVE  RoleInv'
<1>1. RoleTypes'
  BY DEF RoleInv, RoleTypes
<1>2. SeedsRemain'
  BY DEF RoleInv, RoleTypes, SeedsRemain
<1>3. SystemOnly'
  BY DEF RoleInv, RoleTypes, SystemOnly
<1>4. QED
  BY <1>1, <1>2, <1>3 DEF RoleInv

\* While the panel answers requests, the roles that are to be seeded are there.
LEMMA SeededRolesExist ==
  ASSUME RoleInv, PanelIsUp, NEW n \in RoleNames,
         n \in DOMAIN SystemRoles, SystemRoles[n] # {}
  PROVE  role[n].present /\ role[n].system
<1>1. PICK p \in SystemRoles[n] : TRUE
  OBVIOUS
<1>2. p \in role[n].permissions
  BY DEF PanelIsUp, SeedingDone, RoleInv, SeedsRemain
<1>3. QED
  BY <1>2 DEF RoleInv, RoleTypes, SystemOnly

LEMMA RoleInvStep ==
  ASSUME RoleInv, [AccountNext]_accountVars
  PROVE  RoleInv'
<1>1. ASSUME UNCHANGED <<role, seeding>> PROVE RoleInv'
  BY <1>1 DEF RoleInv, RoleTypes, SeedsRemain, SystemOnly
<1>2. ASSUME NEW n \in RoleNames, NEW p \in Permissions, SeedGrant(n, p)
      PROVE  RoleInv'
  <2> DEFINE r == [present |-> TRUE, system |-> IF role[n].present THEN role[n].system ELSE TRUE,
                   permissions |-> role[n].permissions \cup {p}]
             T == [present : BOOLEAN, system : BOOLEAN, permissions : SUBSET Permissions]
  <2>1. /\ role' = [role EXCEPT ![n] = r]
        /\ seeding' = [seeding EXCEPT !.grants = @ \ {<<n, p>>}]
    BY <1>2 DEF SeedGrant
  <2>2. role \in [RoleNames -> T]
    BY DEF RoleInv, RoleTypes
  <2>3. /\ r \in T /\ r.present /\ r.permissions = role[n].permissions \cup {p}
        /\ ~role[n].present => r.system
        /\ role[n].present => r.system = role[n].system
    BY <2>2
  <2> HIDE DEF r
  <2>4. /\ \A m \in RoleNames : role'[m] = IF m = n THEN r ELSE role[m]
        /\ role' \in [RoleNames -> T]
    <3> HIDE DEF T
    <3>1. QED
      BY <2>1, <2>2, <2>3
  <2>5. RoleTypes'
    BY <2>3, <2>4 DEF RoleInv, RoleTypes
  <2>6. SystemOnly'
    BY <2>3, <2>4 DEF RoleInv, SystemOnly
  <2>7. seeding \in [grants : SUBSET Seeds.grants, admin : BOOLEAN]
    BY DEF RoleInv
  <2>8. seeding'.grants = seeding.grants \ {<<n, p>>}
    BY <2>1, <2>7
  <2>9. seeding' \in [grants : SUBSET Seeds.grants, admin : BOOLEAN]
    BY <2>1, <2>7
  <2>10. SeedsRemain'
    <3> SUFFICES ASSUME NEW m \in DOMAIN SystemRoles, NEW o \in SystemRoles[m],
                        <<m, o>> \notin seeding'.grants
                 PROVE  m \in RoleNames /\ o \in role'[m].permissions
      BY DEF SeedsRemain
    <3>1. CASE m = n /\ o = p
      BY <2>3, <2>4, <3>1
    <3>2. CASE ~(m = n /\ o = p)
      <4>1. <<m, o>> \notin seeding.grants
        BY <2>8, <3>2
      <4>2. m \in RoleNames /\ o \in role[m].permissions
        BY <4>1 DEF RoleInv, SeedsRemain
      <4>3. QED
        BY <2>3, <2>4, <4>2
    <3>3. QED
      BY <3>1, <3>2
  <2>11. QED
    BY <2>5, <2>6, <2>9, <2>10 DEF RoleInv
<1>3. CASE SeedAdmin
  <2>1. seeding.grants = {} /\ seeding'.grants = {} /\ UNCHANGED role
    BY <1>3 DEF SeedAdmin, SeedingDone
  <2>2. seeding' \in [grants : SUBSET Seeds.grants, admin : BOOLEAN]
    BY <1>3 DEF SeedAdmin, SeedingDone
  <2>3. SeedsRemain'
    BY <2>1 DEF RoleInv, SeedsRemain
  <2>4. QED
    BY <2>1, <2>2, <2>3 DEF RoleInv, RoleTypes, SystemOnly
<1>4. CASE PanelRestarts
  <2>1. seeding' = Seeds /\ UNCHANGED role
    BY <1>4 DEF PanelRestarts
  <2>2. Seeds \in [grants : SUBSET Seeds.grants, admin : BOOLEAN]
    BY DEF Seeds
  <2>3. seeding' \in [grants : SUBSET Seeds.grants, admin : BOOLEAN]
    BY <2>1, <2>2, Zenon
  <2>4. SeedsRemain'
    <3> SUFFICES ASSUME NEW n \in DOMAIN SystemRoles, NEW p \in SystemRoles[n]
                 PROVE  <<n, p>> \in seeding'.grants
      BY DEF SeedsRemain
    <3>1. <<n, p>> \in Seeds.grants
      BY AllSeeds
    <3>2. QED
      BY <2>1, <3>1, Zenon
  <2>5. QED
    BY <2>1, <2>3, <2>4 DEF RoleInv, RoleTypes, SystemOnly
<1>5. ASSUME NEW n \in RoleNames, NEW ps \in SUBSET Permissions,
             CreateRole(n, ps) \/ UpdateRole(n, ps)
      PROVE  RoleInv'
  <2>1. /\ PanelIsUp /\ UNCHANGED seeding
        /\ ~role[n].present \/ ~role[n].system
    BY <1>5 DEF CreateRole, UpdateRole
  <2>2. n \notin DOMAIN SystemRoles \/ SystemRoles[n] = {}
    BY <2>1, SeededRolesExist
  <2>3. CASE CreateRole(n, ps)
    <3> DEFINE r == [present |-> TRUE, system |-> FALSE, permissions |-> ps]
    <3>1. role' = [role EXCEPT ![n] = r]
      BY <2>3 DEF CreateRole
    <3>2. /\ r \in [present : BOOLEAN, system : BOOLEAN, permissions : SUBSET Permissions]
          /\ r.present
      OBVIOUS
    <3> HIDE DEF r
    <3>3. QED
      BY <2>1, <2>2, <3>1, <3>2, RoleChangeKeeps
  <2>4. CASE UpdateRole(n, ps)
    <3> DEFINE r == [role[n] EXCEPT !.permissions = ps]
    <3>1. role' = [role EXCEPT ![n] = r]
      BY <2>4 DEF UpdateRole
    <3>2. role[n] \in [present : BOOLEAN, system : BOOLEAN, permissions : SUBSET Permissions]
      BY DEF RoleInv, RoleTypes
    <3>3. /\ r \in [present : BOOLEAN, system : BOOLEAN, permissions : SUBSET Permissions]
          /\ r.present
      BY <2>4, <3>2 DEF UpdateRole
    <3> HIDE DEF r
    <3>4. QED
      BY <2>1, <2>2, <3>1, <3>3, RoleChangeKeeps
  <2>5. QED
    BY <1>5, <2>3, <2>4
<1>6. ASSUME NEW n \in RoleNames, DeleteRole(n)
      PROVE  RoleInv'
  <2>1. /\ PanelIsUp /\ UNCHANGED seeding /\ ~role[n].system
        /\ role' = [role EXCEPT ![n] = NoRole]
    BY <1>6 DEF DeleteRole
  <2>2. n \notin DOMAIN SystemRoles \/ SystemRoles[n] = {}
    BY <2>1, SeededRolesExist
  <2>3. /\ NoRole \in [present : BOOLEAN, system : BOOLEAN, permissions : SUBSET Permissions]
        /\ NoRole.permissions = {}
    BY DEF NoRole
  <2>4. QED
    BY <2>1, <2>2, <2>3, RoleChangeKeeps
<1>7. QED
  <2>1. CASE UNCHANGED accountVars
    BY <1>1, <2>1 DEF accountVars
  <2>2. ASSUME \/ UpdateUser \/ RemoveUser \/ TotpDisable
               \/ \E p \in Passwords : ChangePassword(p)
               \/ \E s \in Secrets : TotpSetup(s)
               \/ \E t \in OneTimeTokens : Login(t) \/ ForgotPassword(t) \/ TokenExpires(t)
               \/ \E q \in Logins :
                    \/ TotpConfirm(q) \/ StoreSecret(q)
                    \/ \E t \in OneTimeTokens : Present(q, t)
                    \/ CheckCode(q) \/ SpendPending(q) \/ IssueTokens(q)
                    \/ \E p \in Passwords : CommitReset(q, p)
                    \/ LoginFails(q)
        PROVE  UNCHANGED <<role, seeding>>
    BY <2>2 DEF UpdateUser, RemoveUser, TotpDisable, ChangePassword, TotpSetup, Login,
                ForgotPassword, TokenExpires, TotpConfirm, StoreSecret, Present, CheckCode,
                SpendPending, IssueTokens, CommitReset, LoginFails
  <2>3. QED
    BY <1>1, <1>2, <1>3, <1>4, <1>5, <1>6, <2>1, <2>2 DEF AccountNext

\* Whenever SeedService has come through and the panel answers requests, every system
\* role has all its permissions: restarts in the middle of the seeding lose nothing,
\* and RolesController cannot take a permission away or put another role in its place.
THEOREM SeedingCompletesRoles == AccountSpec => []SystemRolesAreComplete
<1>1. RoleInv => SystemRolesAreComplete
  BY DEF RoleInv, SeedsRemain, SystemRolesAreComplete, PanelIsUp, SeedingDone
<1>2. RoleInv /\ [AccountNext]_accountVars => RoleInv'
  BY RoleInvStep
<1>3. QED
  BY <1>1, <1>2, RoleInvInit, PTL DEF AccountSpec

-----------------------------------------------------------------------------
(* Alert rules (Alerting).  An evaluation under way knows no more of a rule *)
(* than it has read, but until the rule fires again that bounds what is     *)
(* left of its cooldown.                                                    *)

\* An entry that is not stale promises that nothing more is left of the cooldown
\* than what it has read, less the minutes since.
Promised(v, e) ==
  ~e.stale => \/ alertRule[e.id].cooling = 0
              \/ alertRule[e.id].cooling + evaluation[v].age <= e.cooling

\* An evaluation has one entry for a rule.
OneEntry(v) == \A e, f \in evaluation[v].todo : e.id = f.id => e = f

AlertInv ==
  /\ AlertTypeOK
  /\ \A v \in Evaluations : OneEntry(v) /\ \A e \in evaluation[v].todo : Promised(v, e)
  /\ repeated = {}

AlertRule == [present : BOOLEAN, enabled : BOOLEAN, known : BOOLEAN, cooling : 0..Cooldown]
Evaluation == [busy : BOOLEAN, todo : SUBSET AlertEntry, step : Steps,
               current : SUBSET AlertEntry, open : SUBSET Hooks, age : 0..Cooldown]

\* Initially there is no rule.
LEMMA AlertInvInit == AlertInit => AlertInv
<1> SUFFICES ASSUME AlertInit
             PROVE  AlertInv
  OBVIOUS
<1>1. Done \in Evaluation /\ Done.todo = {} /\ NoRule \in AlertRule
  BY AlertAssumption DEF Done, NoRule, Evaluation, AlertRule, Steps
<1>2. AlertTypeOK
  BY <1>1, AlertAssumption DEF AlertInit, AlertTypeOK, Evaluation, AlertRule
<1> QED
  BY <1>1, <1>2 DEF AlertInit, AlertInv, OneEntry

\* An evaluation whose entries are some of those it had, at the same age.
Fewer(y, z) == y.todo \subseteq z.todo /\ y.age = z.age

\* A step that changes one evaluation, by leaving entries out.
LEMMA FewerKeeps ==
  ASSUME AlertInv, UNCHANGED <<alertRule, repeated>>, hook' \in [Hooks -> {"new", "on", "off", "gone"}],
         alertFaults' \in 0..AlertFaults, NEW v \in Evaluations, NEW y \in Evaluation,
         evaluation' = [evaluation EXCEPT ![v] = y], Fewer(y, evaluation[v])
  PROVE  AlertInv'
<1>1. evaluation \in [Evaluations -> Evaluation]
  BY DEF AlertInv, AlertTypeOK, Evaluation
<1>2. /\ evaluation' \in [Evaluations -> Evaluation]
      /\ \A w \in Evaluations : Fewer(evaluation'[w], evaluation[w])
  BY <1>1 DEF Fewer
<1>3. AlertTypeOK'
  BY <1>2 DEF AlertInv, AlertTypeOK, Evaluation
<1>4. \A w \in Evaluations : OneEntry(w)' /\ \A e \in evaluation'[w].todo : Promised(w, e)'
  BY <1>2 DEF AlertInv, OneEntry, Promised, Fewer
<1> QED
  BY <1>3, <1>4 DEF AlertInv

\* A step that changes one rule, whose cooldown is over then, and no evaluation.
LEMMA RuleKeeps ==
  ASSUME AlertInv, UNCHANGED <<hook, evaluation, alertFaults, repeated>>,
         NEW r \in Rules, NEW x \in AlertRule, alertRule' = [alertRule EXCEPT ![r] = x],
         x.cooling \in {0, alertRule[r].cooling}
  PROVE  AlertInv'
<1>1. /\ alertRule \in [Rules -> AlertRule] /\ evaluation \in [Evaluations -> Evaluation]
      /\ alertRule' \in [Rules -> AlertRule]
  BY DEF AlertInv, AlertTypeOK, AlertRule, Evaluation
<1>2. \A s \in Rules : alertRule'[s].cooling \in {0, alertRule[s].cooling}
  BY <1>1
<1>3. AlertTypeOK'
  BY <1>1 DEF AlertInv, AlertTypeOK, AlertRule
<1>4. \A v \in Evaluations : \A e \in evaluation[v].todo : e.id \in Rules
  BY <1>1 DEF Evaluation, AlertEntry
<1>5. \A v \in Evaluations : \A e \in evaluation[v].todo : Promised(v, e)'
  BY <1>2, <1>4 DEF AlertInv, Promised
<1> QED
  BY <1>3, <1>5 DEF AlertInv, OneEntry

\* An entry of a rule that fires elsewhere becomes stale.
Outdated(e, r) == [e EXCEPT !.stale = @ \/ e.id = r]

LEMMA OutdatedIs ==
  ASSUME NEW e \in AlertEntry, NEW r
  PROVE  /\ Outdated(e, r) \in AlertEntry /\ Outdated(e, r).id = e.id
         /\ Outdated(e, r).cooling = e.cooling
         /\ Outdated(e, r).stale <=> e.stale \/ e.id = r
<1>1. (e.stale \/ e.id = r) \in BOOLEAN
  OBVIOUS
<1> QED
  BY <1>1 DEF Outdated, AlertEntry

\* A rule fires: what its evaluation has read of it was true, and every other
\* entry of the rule is stale from now on.
LEMMA JudgeKeeps ==
  ASSUME AlertInv, NEW v \in Evaluations, NEW e \in evaluation[v].todo, Judge(v, e)
  PROVE  AlertInv'
<1>1. /\ alertRule \in [Rules -> AlertRule] /\ evaluation \in [Evaluations -> Evaluation]
      /\ repeated = {} /\ Promised(v, e) /\ ~Cooling(v, e)
      /\ alertRule' = [alertRule EXCEPT ![e.id].cooling = Cooldown]
      /\ UNCHANGED <<hook, alertFaults>>
  BY DEF AlertInv, AlertTypeOK, AlertRule, Evaluation, Judge
<1>2. \A w \in Evaluations : evaluation[w].todo \subseteq AlertEntry
                             /\ evaluation[w].age \in 0..Cooldown
  BY <1>1 DEF Evaluation
<1>3. e \in AlertEntry /\ e.id \in Rules /\ e.cooling \in 0..Cooldown
  BY <1>2 DEF AlertEntry
<1>4. alertRule[e.id].cooling \in 0..Cooldown
  BY <1>1, <1>3 DEF AlertRule
<1>5. repeated' = {}
  <2>1. e.stale \/ alertRule[e.id].cooling = 0
    BY <1>1, <1>2, <1>3, <1>4, AlertAssumption DEF Promised, Cooling
  <2> QED
    BY <1>1, <1>4, <2>1, AlertAssumption DEF Judge
<1> DEFINE x == [alertRule[e.id] EXCEPT !.cooling = Cooldown]
<1>6. x \in AlertRule /\ alertRule' = [alertRule EXCEPT ![e.id] = x]
  BY <1>1, <1>3, AlertAssumption DEF AlertRule
<1>7. /\ alertRule' \in [Rules -> AlertRule]
      /\ \A s \in Rules \ {e.id} : alertRule'[s] = alertRule[s]
  BY <1>1, <1>3, <1>6
<1> HIDE DEF x
<1> DEFINE y == [evaluation[v] EXCEPT !.todo = @ \ {e}, !.step = "fire", !.current = {e}]
           z(w) == [evaluation[w] EXCEPT !.todo = {Outdated(f, e.id) : f \in evaluation[w].todo}]
<1>8. evaluation' = [w \in Evaluations |-> IF w = v THEN y ELSE z(w)]
  BY DEF Judge, Outdated
<1>9. y \in Evaluation /\ y.todo = evaluation[v].todo \ {e} /\ y.age = evaluation[v].age
  BY <1>1, <1>2, <1>3 DEF Evaluation, Steps
<1>10. \A w \in Evaluations :
         /\ z(w) \in Evaluation /\ z(w).age = evaluation[w].age
         /\ z(w).todo = {Outdated(f, e.id) : f \in evaluation[w].todo}
  <2> SUFFICES ASSUME NEW w \in Evaluations
               PROVE  /\ z(w) \in Evaluation /\ z(w).age = evaluation[w].age
                      /\ z(w).todo = {Outdated(f, e.id) : f \in evaluation[w].todo}
    OBVIOUS
  <2> DEFINE T == {Outdated(f, e.id) : f \in evaluation[w].todo}
  <2>1. T \subseteq AlertEntry
    BY <1>2, OutdatedIs
  <2> HIDE DEF T
  <2>2. evaluation[w] \in Evaluation
    BY <1>1
  <2>3. [evaluation[w] EXCEPT !.todo = T] \in Evaluation
        /\ [evaluation[w] EXCEPT !.todo = T].todo = T
        /\ [evaluation[w] EXCEPT !.todo = T].age = evaluation[w].age
    BY <2>1, <2>2 DEF Evaluation
  <2> QED
    BY <2>3 DEF T
<1> HIDE DEF y, z
<1>11. evaluation'[v] = y /\ \A w \in Evaluations \ {v} : evaluation'[w] = z(w)
  BY <1>8
<1>12. AlertTypeOK'
  <2>1. evaluation' \in [Evaluations -> Evaluation]
    BY <1>8, <1>9, <1>10
  <2> QED
    BY <1>1, <1>5, <1>7, <2>1 DEF AlertInv, AlertTypeOK, AlertRule, Evaluation
<1>13. ASSUME NEW w \in Evaluations
       PROVE  OneEntry(w)' /\ \A g \in evaluation'[w].todo : Promised(w, g)'
  <2>1. OneEntry(w) /\ \A f \in evaluation[w].todo : Promised(w, f) /\ f \in AlertEntry
    BY <1>2 DEF AlertInv
  <2>2. CASE w = v
    <3>1. \A g \in evaluation'[v].todo : g \in evaluation[v].todo /\ g.id # e.id
      BY <1>9, <1>11, <2>1, <2>2 DEF OneEntry
    <3>2. \A g \in evaluation'[v].todo : alertRule'[g.id] = alertRule[g.id]
      BY <1>7, <2>1, <2>2, <3>1 DEF AlertEntry
    <3> QED
      BY <1>9, <1>11, <2>1, <2>2, <3>1, <3>2 DEF OneEntry, Promised
  <2>3. CASE w # v
    <3>1. \A g \in evaluation'[w].todo : \E f \in evaluation[w].todo : g = Outdated(f, e.id)
      BY <1>10, <1>11, <2>3
    <3>2. OneEntry(w)'
      BY <2>1, <3>1, OutdatedIs DEF OneEntry
    <3>3. ASSUME NEW g \in evaluation'[w].todo, ~g.stale
          PROVE  Promised(w, g)'
      <4>1. PICK f \in evaluation[w].todo : g = Outdated(f, e.id)
        BY <3>1
      <4>2. g.id = f.id /\ g.cooling = f.cooling /\ ~f.stale /\ f.id # e.id /\ f.id \in Rules
        BY <2>1, <3>3, <4>1, OutdatedIs DEF AlertEntry
      <4>3. alertRule'[g.id] = alertRule[g.id] /\ evaluation'[w].age = evaluation[w].age
        BY <1>7, <1>10, <1>11, <2>3, <4>2
      <4> QED
        BY <2>1, <4>1, <4>2, <4>3 DEF Promised
    <3> QED
      BY <3>2, <3>3 DEF Promised
  <2> QED
    BY <2>2, <2>3
<1> QED
  BY <1>5, <1>12, <1>13 DEF AlertInv

\* A minute takes as much from the cooldown as it adds to the age of an evaluation.
LEMMA MinuteKeeps ==
  ASSUME AlertInv, Minute
  PROVE  AlertInv'
<1>1. /\ alertRule \in [Rules -> AlertRule] /\ evaluation \in [Evaluations -> Evaluation]
      /\ UNCHANGED <<hook, alertFaults, repeated>>
  BY DEF AlertInv, AlertTypeOK, AlertRule, Evaluation, Minute
<1> DEFINE left(r) == IF alertRule[r].cooling > 0 THEN alertRule[r].cooling - 1 ELSE 0
           y(v) == IF evaluation[v].busy THEN [evaluation[v] EXCEPT !.age = @ + 1]
                                         ELSE evaluation[v]
<1>2. \A r \in Rules : left(r) \in 0..Cooldown
  BY <1>1, AlertAssumption DEF AlertRule
<1>3. \A r \in Rules : [alertRule[r] EXCEPT !.cooling = left(r)] \in AlertRule
                       /\ [alertRule[r] EXCEPT !.cooling = left(r)].cooling = left(r)
  BY <1>1, <1>2 DEF AlertRule
<1>4. \A v \in Evaluations :
        /\ y(v) \in Evaluation /\ y(v).todo = evaluation[v].todo
        /\ y(v).age \in {evaluation[v].age, evaluation[v].age + 1}
  <2> SUFFICES ASSUME NEW v \in Evaluations
               PROVE  /\ y(v) \in Evaluation /\ y(v).todo = evaluation[v].todo
                      /\ y(v).age \in {evaluation[v].age, evaluation[v].age + 1}
    OBVIOUS
  <2>1. evaluation[v].age \in 0..Cooldown
    BY <1>1 DEF Evaluation
  <2>2. evaluation[v].busy => evaluation[v].age + 1 \in 0..Cooldown
    BY <2>1, AlertAssumption DEF Minute
  <2> QED
    BY <1>1, <2>2 DEF Evaluation
<1> HIDE DEF y
<1>5. alertRule' = [r \in Rules |-> [alertRule[r] EXCEPT !.cooling = left(r)]]
      /\ evaluation' = [v \in Evaluations |-> y(v)]
  BY DEF Minute, y
<1>6. AlertTypeOK'
  <2>1. alertRule' \in [Rules -> AlertRule]
    BY <1>3, <1>5
  <2>2. evaluation' \in [Evaluations -> Evaluation]
    BY <1>4, <1>5
  <2> QED
    BY <1>1, <2>1, <2>2 DEF AlertInv, AlertTypeOK, AlertRule, Evaluation
<1>7. ASSUME NEW v \in Evaluations, NEW e \in evaluation[v].todo
      PROVE  Promised(v, e)'
  <2>1. Promised(v, e) /\ e \in AlertEntry
    BY <1>1 DEF AlertInv, Evaluation
  <2>2. e.id \in Rules /\ e.cooling \in 0..Cooldown
    BY <2>1 DEF AlertEntry
  <2>3. alertRule'[e.id].cooling = left(e.id) /\ alertRule[e.id].cooling \in 0..Cooldown
    BY <1>1, <1>3, <1>5, <2>2 DEF AlertRule
  <2>4. evaluation[v].age \in 0..Cooldown
        /\ evaluation'[v].age \in {evaluation[v].age, evaluation[v].age + 1}
    BY <1>1, <1>4, <1>5 DEF Evaluation
  <2> QED
    BY <2>1, <2>2, <2>3, <2>4, AlertAssumption DEF Promised
<1>8. \A v \in Evaluations : evaluation'[v].todo = evaluation[v].todo
  BY <1>4, <1>5
<1> QED
  BY <1>1, <1>6, <1>7, <1>8 DEF AlertInv, OneEntry

\* Every step keeps the invariant.
LEMMA AlertInvStep == AlertInv /\ [AlertNext]_alertVars => AlertInv'
<1> SUFFICES ASSUME AlertInv, [AlertNext]_alertVars
             PROVE  AlertInv'
  OBVIOUS
<1>1. /\ alertRule \in [Rules -> AlertRule] /\ evaluation \in [Evaluations -> Evaluation]
      /\ hook \in [Hooks -> {"new", "on", "off", "gone"}] /\ alertFaults \in 0..AlertFaults
  BY DEF AlertInv, AlertTypeOK, AlertRule, Evaluation
<1>2. Done \in Evaluation /\ Done.todo = {} /\ Done.age = 0
      /\ NoRule \in AlertRule
  BY AlertAssumption DEF Done, NoRule, Evaluation, AlertRule, Steps
<1>3. ASSUME NEW r \in Rules, CreateRule(r) \/ UpdateRule(r) \/ RemoveRule(r)
      PROVE  AlertInv'
  <2> DEFINE a == [present |-> TRUE, enabled |-> TRUE, known |-> TRUE, cooling |-> 0]
             b == [alertRule[r] EXCEPT !.enabled = ~@]
             c == [NoRule EXCEPT !.known = TRUE]
  <2>1. a \in AlertRule /\ a.cooling = 0
    BY AlertAssumption DEF AlertRule
  <2>c. c \in AlertRule /\ c.cooling = 0
    <3>1. NoRule \in AlertRule /\ NoRule.cooling = 0
      BY <1>2 DEF NoRule
    <3> QED
      BY <3>1 DEF AlertRule
  <2>2. b \in AlertRule /\ b.cooling = alertRule[r].cooling
    BY <1>1 DEF AlertRule
  <2>3. UNCHANGED <<hook, evaluation, alertFaults, repeated>>
    BY <1>3 DEF CreateRule, UpdateRule, RemoveRule
  <2>4. \E x \in {a, b, c} : alertRule' = [alertRule EXCEPT ![r] = x]
    BY <1>3 DEF CreateRule, UpdateRule, RemoveRule
  <2> HIDE DEF a, b, c
  <2> QED
    BY <2>1, <2>2, <2>3, <2>4, <2>c, RuleKeeps
<1>4. ASSUME NEW h \in Hooks, EditHook(h)
      PROVE  AlertInv'
  <2>1. UNCHANGED <<alertRule, evaluation, alertFaults, repeated>>
        /\ hook' \in [Hooks -> {"new", "on", "off", "gone"}]
    BY <1>1, <1>4 DEF EditHook
  <2> QED
    BY <2>1 DEF AlertInv, AlertTypeOK, OneEntry, Promised
<1>5. ASSUME NEW v \in Evaluations, EvaluateAlerts(v)
      PROVE  AlertInv'
  <2> DEFINE due == {s \in Rules : alertRule[s].present /\ alertRule[s].enabled}
             entry(r) == [id |-> r, cooling |-> alertRule[r].cooling, stale |-> FALSE]
             T == {entry(r) : r \in due}
             y == [Done EXCEPT !.busy = TRUE, !.todo = T]
  <2>1. UNCHANGED <<alertRule, hook, alertFaults, repeated>>
        /\ evaluation' = [evaluation EXCEPT ![v] = y]
    BY <1>5 DEF EvaluateAlerts
  <2>e. \A r \in Rules : entry(r) \in AlertEntry /\ entry(r).id = r
    BY <1>1 DEF AlertEntry, AlertRule
  <2>2. T \subseteq AlertEntry
    BY <2>e
  <2>3. \A e \in T : e.id \in Rules /\ e.cooling = alertRule[e.id].cooling
    OBVIOUS
  <2>4. \A e, f \in T : e.id = f.id => e = f
    <3>1. \A e \in T : e = entry(e.id)
      BY <2>e
    <3> HIDE DEF T, entry
    <3> QED
      BY <3>1
  <2> HIDE DEF T
  <2>5. y \in Evaluation /\ y.todo = T /\ y.age = 0
    BY <1>2, <2>2 DEF Evaluation, Done, Steps
  <2> HIDE DEF y
  <2>6. evaluation' \in [Evaluations -> Evaluation] /\ evaluation'[v] = y
        /\ \A w \in Evaluations \ {v} : evaluation'[w] = evaluation[w]
    BY <1>1, <2>1, <2>5
  <2>7. \A e \in T : Promised(v, e)'
    <3>1. \A e \in T : alertRule[e.id].cooling \in 0..Cooldown
      BY <1>1, <2>3 DEF AlertRule
    <3> QED
      BY <2>1, <2>3, <2>5, <2>6, <3>1, AlertAssumption DEF Promised
  <2>8. \A w \in Evaluations : OneEntry(w)' /\ \A e \in evaluation'[w].todo : Promised(w, e)'
    BY <2>1, <2>4, <2>5, <2>6, <2>7 DEF AlertInv, OneEntry, Promised
  <2> QED
    BY <2>1, <2>6, <2>8 DEF AlertInv, AlertTypeOK, Evaluation
<1>6. ASSUME NEW v \in Evaluations, NEW y \in Evaluation, Fewer(y, evaluation[v]),
             evaluation' = [evaluation EXCEPT ![v] = y],
             UNCHANGED <<alertRule, hook, repeated>>, alertFaults' \in 0..AlertFaults
      PROVE  AlertInv'
  BY <1>1, <1>6, FewerKeeps
<1>7. ASSUME NEW v \in Evaluations, NEW e \in evaluation[v].todo, Spare(v, e)
      PROVE  AlertInv'
  <2> DEFINE y == [evaluation[v] EXCEPT !.todo = @ \ {e}]
  <2>1. y \in Evaluation /\ Fewer(y, evaluation[v])
    BY <1>1 DEF Evaluation, Fewer
  <2>2. evaluation' = [evaluation EXCEPT ![v] = y]
        /\ UNCHANGED <<alertRule, hook, alertFaults, repeated>>
    BY <1>7 DEF Spare
  <2> QED
    BY <1>1, <1>6, <2>1, <2>2
<1>8. ASSUME NEW v \in Evaluations, Fire(v)
      PROVE  AlertInv'
  <2> DEFINE y == [evaluation[v] EXCEPT !.step = "deliver", !.open = {h \in Hooks : hook[h] = "on"}]
  <2>1. y \in Evaluation /\ Fewer(y, evaluation[v])
    BY <1>1 DEF Evaluation, Fewer, Steps
  <2>2. evaluation' = [evaluation EXCEPT ![v] = y]
        /\ UNCHANGED <<alertRule, hook, alertFaults, repeated>>
    BY <1>8 DEF Fire
  <2> QED
    BY <1>1, <1>6, <2>1, <2>2
<1>9. ASSUME NEW v \in Evaluations, NEW h \in Hooks, Deliver(v, h)
      PROVE  AlertInv'
  <2> DEFINE y == [evaluation[v] EXCEPT !.open = @ \ {h}]
  <2>1. y \in Evaluation /\ Fewer(y, evaluation[v])
    BY <1>1 DEF Evaluation, Fewer
  <2>2. evaluation' = [evaluation EXCEPT ![v] = y]
        /\ UNCHANGED <<alertRule, hook, alertFaults, repeated>>
    BY <1>9 DEF Deliver
  <2> QED
    BY <1>1, <1>6, <2>1, <2>2
<1>10. ASSUME NEW v \in Evaluations, Mail(v) \/ AlertReadFails(v)
       PROVE  AlertInv'
  <2> DEFINE y == [evaluation[v] EXCEPT !.step = "judge", !.current = {}]
  <2>1. y \in Evaluation /\ Fewer(y, evaluation[v])
    BY <1>1 DEF Evaluation, Fewer, Steps
  <2>2. evaluation' = [evaluation EXCEPT ![v] = y] /\ UNCHANGED <<alertRule, hook, repeated>>
    BY <1>10 DEF Mail, AlertReadFails
  <2>3. alertFaults' \in 0..AlertFaults
    BY <1>1, <1>10, AlertAssumption DEF Mail, AlertReadFails
  <2> QED
    BY <1>6, <2>1, <2>2, <2>3
<1>11. ASSUME NEW v \in Evaluations, EndEvaluation(v)
       PROVE  AlertInv'
  <2>1. evaluation' = [evaluation EXCEPT ![v] = Done]
        /\ UNCHANGED <<alertRule, hook, alertFaults, repeated>>
    BY <1>11 DEF EndEvaluation
  <2>2. /\ evaluation' \in [Evaluations -> Evaluation] /\ evaluation'[v].todo = {}
        /\ \A w \in Evaluations \ {v} : evaluation'[w] = evaluation[w]
    BY <1>1, <1>2, <2>1
  <2>3. \A w \in Evaluations : OneEntry(w)' /\ \A e \in evaluation'[w].todo : Promised(w, e)'
    BY <2>1, <2>2 DEF AlertInv, OneEntry, Promised
  <2> QED
    BY <2>1, <2>2, <2>3 DEF AlertInv, AlertTypeOK, Evaluation
<1>12. ASSUME AlertsRestart
       PROVE  AlertInv'
  <2>1. /\ evaluation' = [v \in Evaluations |-> Done]
        /\ UNCHANGED <<alertRule, hook, repeated>> /\ alertFaults' \in 0..AlertFaults
    BY <1>1, <1>12, AlertAssumption DEF AlertsRestart
  <2>2. evaluation' \in [Evaluations -> Evaluation] /\ \A v \in Evaluations : evaluation'[v].todo = {}
    BY <1>2, <2>1
  <2> QED
    BY <2>1, <2>2 DEF AlertInv, AlertTypeOK, OneEntry, Evaluation
<1>13. CASE UNCHANGED alertVars
  BY <1>13 DEF alertVars, AlertInv, AlertTypeOK, OneEntry, Promised
<1> QED
  BY <1>3, <1>4, <1>5, <1>7, <1>8, <1>9, <1>10, <1>11, <1>12, <1>13, JudgeKeeps, MinuteKeeps
  DEF AlertNext

\* A rule that has fired stays silent for its cooldown, for any number of rules,
\* webhooks, overlapping evaluations, failures and restarts, and any cooldown.
THEOREM RulesStaySilent == AlertSpec => []CooldownIsKept
<1>1. AlertInv => CooldownIsKept
  BY DEF AlertInv, CooldownIsKept
<1> QED
  BY <1>1, AlertInvInit, AlertInvStep, PTL DEF AlertSpec

\* Rules, webhooks and evaluations keep their types.
THEOREM AlertTypeCorrect == AlertSpec => []AlertTypeOK
<1>1. AlertInv => AlertTypeOK
  BY DEF AlertInv
<1> QED
  BY <1>1, AlertInvInit, AlertInvStep, PTL DEF AlertSpec


-----------------------------------------------------------------------------
(* The lock of the panel (LicenseLock).                                     *)

\* A read is under way exactly while the flag is set, and a cache that is recent
\* has differed from the phase no longer than since it was read, which took ReadTicks.
LockInvariant ==
  /\ LockTypeOK
  /\ refreshInFlight => reader # NoReader
  /\ WithinTTL => unlike <= cacheAge + ReadTicks
  /\ ~wrong

\* Initially the cache is too old to be used.
LEMMA LockInit2 == LockInit => LockInvariant
<1> SUFFICES ASSUME LockInit
             PROVE  LockInvariant
  OBVIOUS
<1>1. TooLong + 1 \in Nat /\ CacheTTL \in 0..CacheTTL
  BY LockAssumption DEF TooLong
<1>2. 0 \in 0..ReadTicks /\ 0 \in 0..TooLong + 1
  BY <1>1, LockAssumption
<1>3. NoReader \in [step : {"none", "read", "assign"}, value : PhaseValue]
  BY DEF NoReader, PhaseValue
<1>4. cachedPhase \in PhaseValue
  BY DEF LockInit, PhaseValue
<1>5. LockTypeOK
  BY <1>1, <1>2, <1>3, <1>4 DEF LockInit, LockTypeOK
<1>6. ~WithinTTL
  BY LockAssumption DEF LockInit, WithinTTL
<1> QED
  BY <1>5, <1>6 DEF LockInit, LockInvariant

\* Every step keeps the invariant.
LEMMA LockInvStep == LockInvariant /\ [LockNext]_lockVars => LockInvariant'
<1> SUFFICES ASSUME LockInvariant, [LockNext]_lockVars
             PROVE  LockInvariant'
  OBVIOUS
<1>1. /\ phase \in PhaseValue /\ cachedPhase \in PhaseValue /\ cacheAge \in 0..CacheTTL
      /\ refreshInFlight \in BOOLEAN /\ readTime \in 0..ReadTicks
      /\ reader \in [step : {"none", "read", "assign"}, value : PhaseValue]
      /\ unlike \in 0..TooLong + 1 /\ wrong = FALSE
      /\ refreshInFlight => reader # NoReader
      /\ WithinTTL => unlike <= cacheAge + ReadTicks
  BY DEF LockInvariant, LockTypeOK
<1>2. /\ CacheTTL \in Nat /\ ReadTicks \in Nat /\ TooLong \in Nat
      /\ TooLong = CacheTTL + ReadTicks
  BY LockAssumption DEF TooLong
<1>3. NoReader \in [step : {"none", "read", "assign"}, value : PhaseValue]
  BY DEF NoReader, PhaseValue
<1>4. CASE DecideOnCache
  <2>1. unlike <= TooLong
    BY <1>1, <1>2, <1>4 DEF DecideOnCache, WithinTTL
  <2>2. ~(unlike > TooLong)
    BY <1>1, <1>2, <2>1
  <2>3. wrong' = (wrong \/ (cachedPhase # phase /\ unlike > TooLong))
    BY <1>4 DEF DecideOnCache, Judged
  <2>4. wrong' = FALSE
    BY <1>1, <2>2, <2>3, Zenon
  <2> QED
    BY <1>1, <1>4, <2>4 DEF DecideOnCache, LockInvariant, LockTypeOK, WithinTTL
<1>5. CASE DecideMeanwhile
  BY <1>1, <1>5 DEF DecideMeanwhile, LockInvariant, LockTypeOK, WithinTTL
<1>6. CASE BeginRefresh
  <2>1. reader' # NoReader
    BY <1>6 DEF BeginRefresh, NoReader
  <2>2. reader' \in [step : {"none", "read", "assign"}, value : PhaseValue]
    BY <1>6 DEF BeginRefresh, PhaseValue
  <2> QED
    BY <1>1, <1>2, <1>6, <2>1, <2>2 DEF BeginRefresh, LockInvariant, LockTypeOK, WithinTTL
<1>7. CASE ReadPhase
  <2>1. reader' # NoReader
    BY <1>7 DEF ReadPhase, NoReader
  <2>2. reader' \in [step : {"none", "read", "assign"}, value : PhaseValue]
    BY <1>1, <1>7 DEF ReadPhase
  <2> QED
    BY <1>1, <1>2, <1>7, <2>1, <2>2 DEF ReadPhase, LockInvariant, LockTypeOK, WithinTTL
<1>8. CASE AssignCache
  <2>1. /\ cachedPhase' = reader.value /\ cacheAge' = 0 /\ refreshInFlight' = FALSE
        /\ reader' = NoReader /\ readTime' = 0 /\ unlike' \in {0, readTime} /\ phase' = phase
    BY <1>8 DEF AssignCache
  <2>5. ~(readTime > TooLong)
    BY <1>1, <1>2
  <2>6. wrong' = (wrong \/ (reader.value # phase /\ readTime > TooLong))
    BY <1>8 DEF AssignCache, Judged
  <2>2. wrong' = FALSE
    BY <1>1, <2>5, <2>6, Zenon
  <2>3. unlike' \in 0..TooLong + 1 /\ unlike' <= ReadTicks
    BY <1>1, <1>2, <2>1
  <2>4. reader.value \in PhaseValue
    BY <1>1
  <2>7. 0 \in 0..CacheTTL /\ 0 \in 0..ReadTicks
    BY <1>2
  <2>8. LockTypeOK'
    BY <1>1, <1>3, <2>1, <2>2, <2>3, <2>4, <2>7 DEF LockTypeOK
  <2>9. unlike' <= cacheAge' + ReadTicks
    BY <1>2, <2>1, <2>3
  <2> QED
    BY <2>1, <2>2, <2>8, <2>9 DEF LockInvariant
<1>9. CASE ReadFails
  <2>1. 0 \in 0..ReadTicks
    BY <1>2
  <2>2. LockTypeOK'
    BY <1>1, <1>3, <1>9, <2>1 DEF ReadFails, Finally, LockTypeOK
  <2> QED
    BY <1>1, <1>9, <2>2 DEF ReadFails, Finally, LockInvariant, WithinTTL
<1>10. CASE WritePhase
  BY <1>1, <1>2, <1>10 DEF WritePhase, LockInvariant, LockTypeOK, WithinTTL
<1>11. CASE LockTick
  <2>1. cacheAge' \in 0..CacheTTL /\ cacheAge' \in {cacheAge, cacheAge + 1}
    BY <1>1, <1>2, <1>11 DEF LockTick, WithinTTL
  <2>2. readTime' \in 0..ReadTicks
    BY <1>1, <1>2, <1>11 DEF LockTick
  <2>3. unlike' \in 0..TooLong + 1 /\ unlike' <= unlike + 1
    BY <1>1, <1>2, <1>11 DEF LockTick
  <2>4. WithinTTL' => WithinTTL /\ cacheAge' = cacheAge + 1
    BY <1>1, <1>2, <1>11, <2>1 DEF LockTick, WithinTTL
  <2>5. WithinTTL' => unlike' <= cacheAge' + ReadTicks
    BY <1>1, <1>2, <2>3, <2>4
  <2> QED
    BY <1>1, <1>11, <2>1, <2>2, <2>3, <2>5 DEF LockTick, LockInvariant, LockTypeOK
<1>12. CASE LockRestart
  <2>1. ~WithinTTL'
    BY <1>2, <1>12 DEF LockRestart, WithinTTL
  <2>2. "locked" \in PhaseValue /\ CacheTTL \in 0..CacheTTL /\ 0 \in 0..ReadTicks
        /\ 0 \in 0..TooLong + 1
    BY <1>2 DEF PhaseValue
  <2> QED
    BY <1>1, <1>3, <1>12, <2>1, <2>2 DEF LockRestart, LockInvariant, LockTypeOK
<1>13. CASE UNCHANGED lockVars
  BY <1>1, <1>13 DEF lockVars, LockInvariant, LockTypeOK, WithinTTL
<1> QED
  BY <1>4, <1>5, <1>6, <1>7, <1>8, <1>9, <1>10, <1>11, <1>12, <1>13 DEF LockNext

\* A request is never decided on a phase that the panel has left longer ago than the
\* TTL of the cache and the time of a read, for any TTL and any bound of a read.
THEOREM LockFollowsPhase == LockSpec => []LockTakesEffect
<1>1. LockInvariant => LockTakesEffect
  BY DEF LockInvariant, LockTakesEffect
<1> QED
  BY <1>1, LockInit2, LockInvStep, PTL DEF LockSpec

\* The cache and its reader keep their types.
THEOREM LockTypeCorrect == LockSpec => []LockTypeOK
<1>1. LockInvariant => LockTypeOK
  BY DEF LockInvariant
<1> QED
  BY <1>1, LockInit2, LockInvStep, PTL DEF LockSpec

-----------------------------------------------------------------------------
(* Backup plans (BackupPlans).  A plan whose last run was recorded is not   *)
(* due before its interval is over, and a pass has only plans in hand whose *)
(* interval is over or that are excused.                                    *)

InHand(y) == y.todo \cup y.writes

\* A pass has one entry for a plan, which it has either to start or to record.
OneEntryEach(y) ==
  /\ y.todo \cap y.writes = {}
  /\ \A e, f \in InHand(y) : e.id = f.id => e = f

\* A run that is recorded: the date that was written is not before its time.
DateIsRight(s) ==
  s \notin unrecorded => IF plan[s].ran THEN plan[s].wait >= owed[s] ELSE owed[s] = 0

\* What a pass has in hand is known, what it has still to start is over its time, and
\* what it has started is not recorded yet.
HandIsRight(p) ==
  /\ \A e \in InHand(pass[p]) : plan[e.id].known
  /\ \A e \in pass[p].todo : e.id \notin unrecorded => owed[e.id] = 0
  /\ service # "cron" => \A e \in pass[p].writes : e.id \in unrecorded

PlanInv ==
  /\ PlanTypeOK
  /\ \A s \in Plans : /\ plan[s].present => plan[s].known /\ DateIsRight(s)
                      /\ ~plan[s].known => owed[s] = 0
  /\ \A p \in Passes : OneEntryEach(pass[p]) /\ HandIsRight(p)
  /\ service = "cron" => \A s \in Plans : owed[s] = 0
  /\ early = {}

PlanRow == [present : BOOLEAN, known : BOOLEAN, enabled : BOOLEAN, ran : BOOLEAN,
            wait : 0..Interval, every : 1..Interval, valid : BOOLEAN]
PassRow == [busy : BOOLEAN, todo : SUBSET Entry, writes : SUBSET Entry, age : 0..Interval]

\* What is left of an interval is at most the longest interval.
LEMMA RestIsShort ==
  ASSUME NEW p \in Passes, NEW e \in Entry, pass \in [Passes -> PassRow]
  PROVE  Rest(p, e) \in 0..Interval
<1>1. e.every \in 1..Interval /\ pass[p].age \in 0..Interval /\ Interval \in Nat
  BY PlanAssumption DEF Entry, PassRow
<1> QED
  BY <1>1 DEF Rest

\* Initially nothing is planned.
LEMMA PlanInvInit == PlanInit => PlanInv
<1> SUFFICES ASSUME PlanInit
             PROVE  PlanInv
  OBVIOUS
<1>1. 0 \in 0..Interval /\ 1 \in 1..Interval
  BY PlanAssumption
<1>2. NoPlan \in PlanRow /\ ~NoPlan.present
  BY <1>1 DEF NoPlan, PlanRow
<1>3. Idle \in PassRow /\ Idle.todo = {} /\ Idle.writes = {}
  BY <1>1 DEF Idle, PassRow
<1>4. planFaults \in 0..PlanFaults
  BY PlanAssumption DEF PlanInit
<1>5. PlanTypeOK
  BY <1>1, <1>2, <1>3, <1>4 DEF PlanInit, PlanTypeOK, PlanRow, PassRow
<1> QED
  BY <1>2, <1>3, <1>5 DEF PlanInit, PlanInv, OneEntryEach, HandIsRight, InHand

\* A step of an administrator on one row, which is not created anew unless it was
\* never known, and whose dates stay.
LEMMA RowKeeps ==
  ASSUME PlanInv, Quiet, NEW s \in Plans, NEW x \in PlanRow,
         plan' = [plan EXCEPT ![s] = x], x.known,
         x.present => \/ plan[s].present /\ x.ran = plan[s].ran /\ x.wait = plan[s].wait
                      \/ ~plan[s].known /\ ~x.ran
  PROVE  PlanInv'
<1>1. plan \in [Plans -> PlanRow] /\ pass \in [Passes -> PassRow]
  BY DEF PlanInv, PlanTypeOK, PlanRow, PassRow
<1>2. plan' \in [Plans -> PlanRow]
  BY <1>1
<1>3. PlanTypeOK'
  BY <1>2 DEF PlanInv, PlanTypeOK, PlanRow, Quiet
<1>4. \A t \in Plans : plan[t].known => plan'[t].known
  BY <1>1
<1>5. x.present => DateIsRight(s)'
  BY <1>1 DEF PlanInv, DateIsRight, Quiet
<1>6. \A t \in Plans \ {s} : plan'[t] = plan[t]
  BY <1>1
<1>7. plan'[s] = x
  BY <1>1
<1>8. \A t \in Plans : plan'[t].present => plan'[t].known /\ DateIsRight(t)'
  <2> SUFFICES ASSUME NEW t \in Plans, plan'[t].present
               PROVE  plan'[t].known /\ DateIsRight(t)'
    OBVIOUS
  <2>1. CASE t = s
    BY <1>5, <1>7, <2>1
  <2>2. CASE t # s
    BY <1>6, <2>2 DEF PlanInv, DateIsRight, Quiet
  <2> QED
    BY <2>1, <2>2
<1>9. \A t \in Plans : ~plan'[t].known => owed'[t] = 0
  BY <1>4 DEF PlanInv, Quiet
<1>10. \A p \in Passes : \A e \in InHand(pass[p]) : e.id \in Plans
  BY <1>1 DEF PassRow, Entry, InHand
<1>11. \A p \in Passes : HandIsRight(p)'
  BY <1>4, <1>10 DEF PlanInv, HandIsRight, Quiet
<1> QED
  BY <1>3, <1>8, <1>9, <1>11 DEF PlanInv, Quiet

\* A step that changes what passes have in hand, leaving entries out.
LEMMA PassesShrink ==
  ASSUME PlanInv, UNCHANGED <<service, plan, owed, unrecorded, early>>,
         planFaults' \in 0..PlanFaults, pass' \in [Passes -> PassRow],
         \A p \in Passes : /\ pass'[p].todo \subseteq pass[p].todo
                           /\ pass'[p].writes \subseteq pass[p].writes
  PROVE  PlanInv'
<1>1. PlanTypeOK'
  BY DEF PlanInv, PlanTypeOK, PassRow
<1>2. \A p \in Passes : InHand(pass'[p]) \subseteq InHand(pass[p])
  BY DEF InHand
<1>3. \A p \in Passes : OneEntryEach(pass'[p])
  BY <1>2 DEF PlanInv, OneEntryEach
<1>4. \A p \in Passes : HandIsRight(p)'
  BY <1>2 DEF PlanInv, HandIsRight
<1> QED
  BY <1>1, <1>3, <1>4 DEF PlanInv, DateIsRight

\* The due plans are over their time.
LEMMA RunDueKeeps ==
  ASSUME PlanInv, NEW p \in Passes, RunDue(p)
  PROVE  PlanInv'
<1> DEFINE due == {t \in Plans : IsDue(t)}
           y == [busy |-> TRUE, writes |-> {}, age |-> 0,
                 todo |-> {[id |-> s, valid |-> plan[s].valid, every |-> plan[s].every] : s \in due}]
<1>1. plan \in [Plans -> PlanRow] /\ pass \in [Passes -> PassRow]
  BY DEF PlanInv, PlanTypeOK, PlanRow, PassRow
<1>2. /\ UNCHANGED <<service, plan, planFaults, owed, unrecorded, early>>
      /\ pass' = [pass EXCEPT ![p] = y]
  BY DEF RunDue
<1>3. \A s \in due : plan[s].known /\ (s \notin unrecorded => owed[s] = 0)
  <2> SUFFICES ASSUME NEW s \in due
               PROVE  plan[s].known /\ (s \notin unrecorded => owed[s] = 0)
    OBVIOUS
  <2>1. plan[s].present /\ (~plan[s].ran \/ plan[s].wait = 0)
    BY DEF IsDue
  <2>2. owed[s] \in 0..Interval /\ Interval \in Nat
    BY PlanAssumption DEF PlanInv, PlanTypeOK
  <2>3. plan[s].known /\ DateIsRight(s)
    BY <2>1 DEF PlanInv
  <2>4. CASE plan[s].ran
    <3>1. plan[s].wait = 0
      BY <2>1, <2>4
    <3>2. s \notin unrecorded => 0 >= owed[s]
      BY <2>3, <2>4, <3>1 DEF DateIsRight
    <3> QED
      BY <2>2, <2>3, <3>2
  <2>5. CASE ~plan[s].ran
    BY <2>3, <2>5 DEF DateIsRight
  <2> QED
    BY <2>4, <2>5
<1>4. y.todo \subseteq Entry
  BY <1>1 DEF Entry, PlanRow
<1>5. y \in PassRow
  BY <1>4, PlanAssumption DEF PassRow
<1>6. OneEntryEach(y)
  BY DEF OneEntryEach, InHand
<1>7. /\ \A e \in InHand(y) : plan[e.id].known
      /\ \A e \in y.todo : e.id \notin unrecorded => owed[e.id] = 0
  BY <1>3 DEF InHand
<1>8. pass'[p] = y /\ \A q \in Passes \ {p} : pass'[q] = pass[q]
  BY <1>1, <1>2
<1>9. pass' \in [Passes -> PassRow]
  BY <1>1, <1>2, <1>5
<1>12. y.writes = {}
  OBVIOUS
<1> HIDE DEF y
<1>10. PlanTypeOK'
  BY <1>2, <1>9 DEF PlanInv, PlanTypeOK, PassRow
<1>11. \A q \in Passes : OneEntryEach(pass'[q])
  BY <1>6, <1>8 DEF PlanInv
<1>13. \A q \in Passes : HandIsRight(q)'
  <2> SUFFICES ASSUME NEW q \in Passes
               PROVE  HandIsRight(q)'
    OBVIOUS
  <2>1. CASE q = p
    BY <1>2, <1>12, <1>7, <1>8, <2>1 DEF HandIsRight
  <2>2. CASE q # p
    BY <1>2, <1>8, <2>2 DEF PlanInv, HandIsRight
  <2> QED
    BY <2>1, <2>2
<1> QED
  BY <1>2, <1>10, <1>11, <1>13 DEF PlanInv, DateIsRight

\* A plan that a pass starts is over its time or excused.
LEMMA StartKeeps ==
  ASSUME PlanInv, NEW p \in Passes, NEW e \in pass[p].todo, StartBackup(p, e)
  PROVE  PlanInv'
<1> DEFINE y == [pass[p] EXCEPT !.todo = @ \ {e}, !.writes = {e}]
<1>1. plan \in [Plans -> PlanRow] /\ pass \in [Passes -> PassRow] /\ owed \in [Plans -> 0..Interval]
  BY DEF PlanInv, PlanTypeOK, PlanRow, PassRow
<1>2. /\ UNCHANGED <<service, plan, planFaults>>
      /\ pass' = [pass EXCEPT ![p] = y]
      /\ pass[p].writes = {}
  BY DEF StartBackup
<1>3. e \in Entry /\ e.id \in Plans /\ plan[e.id].known
  BY <1>1 DEF PassRow, Entry, PlanInv, HandIsRight, InHand
<1>4. y \in PassRow /\ y.todo = pass[p].todo \ {e} /\ y.writes = {e} /\ y.age = pass[p].age
  BY <1>1, <1>3 DEF PassRow
<1>5. pass'[p] = y /\ (\A q \in Passes \ {p} : pass'[q] = pass[q]) /\ pass' \in [Passes -> PassRow]
  BY <1>1, <1>2, <1>4
<1> HIDE DEF y
<1>6. OneEntryEach(y)
  BY <1>4 DEF PlanInv, OneEntryEach, InHand
<1>7. \A q \in Passes : OneEntryEach(pass'[q])
  BY <1>5, <1>6 DEF PlanInv
<1>8. InHand(y) \subseteq InHand(pass[p])
  BY <1>4 DEF InHand
<1>9. CASE service = "cron"
  <2>1. UNCHANGED <<owed, unrecorded, early>>
    BY <1>9 DEF StartBackup
  <2>2. \A q \in Passes : HandIsRight(q)'
    <3> SUFFICES ASSUME NEW q \in Passes
                 PROVE  HandIsRight(q)'
      OBVIOUS
    <3>1. InHand(pass'[q]) \subseteq InHand(pass[q]) /\ pass'[q].todo \subseteq pass[q].todo
      BY <1>4, <1>5, <1>8
    <3> QED
      BY <1>2, <1>9, <2>1, <3>1 DEF PlanInv, HandIsRight
  <2>3. PlanTypeOK'
    BY <1>2, <1>5, <2>1 DEF PlanInv, PlanTypeOK, PassRow
  <2> QED
    BY <1>2, <1>7, <2>1, <2>2, <2>3 DEF PlanInv, DateIsRight
<1>10. CASE service # "cron"
  <2>1. /\ early' = IF owed[e.id] > 0 /\ e.id \notin unrecorded
                      THEN early \cup {e.id} ELSE early
        /\ owed' = [owed EXCEPT ![e.id] = Rest(p, e)]
        /\ unrecorded' = unrecorded \cup {e.id}
    BY <1>10 DEF StartBackup
  <2>2. e.id \notin unrecorded => owed[e.id] = 0
    BY DEF PlanInv, HandIsRight
  <2>3. ~(0 > 0)
    OBVIOUS
  <2>4. early' = {}
    BY <2>1, <2>2, <2>3 DEF PlanInv
  <2>5. Rest(p, e) \in 0..Interval
    BY <1>1, <1>3, RestIsShort
  <2>6. /\ owed' \in [Plans -> 0..Interval]
        /\ \A s \in Plans \ {e.id} : owed'[s] = owed[s]
    BY <1>1, <1>3, <2>1, <2>5
  <2>7. PlanTypeOK'
    BY <1>2, <1>3, <1>5, <2>1, <2>4, <2>6 DEF PlanInv, PlanTypeOK, PassRow
  <2>8. \A s \in Plans : s \notin unrecorded' => s \notin unrecorded /\ owed'[s] = owed[s]
    BY <2>1, <2>6
  <2>9. \A s \in Plans : plan'[s].present => plan'[s].known /\ DateIsRight(s)'
    BY <1>2, <2>8 DEF PlanInv, DateIsRight
  <2>10. \A s \in Plans : ~plan'[s].known => owed'[s] = 0
    BY <1>2, <1>3, <2>6 DEF PlanInv
  <2>11. \A q \in Passes : \A f \in InHand(pass'[q]) : f \in InHand(pass[q])
    BY <1>5, <1>8
  <2>12. \A q \in Passes : \A f \in InHand(pass[q]) : f.id \in Plans
    BY <1>1 DEF PassRow, Entry, InHand
  <2>13. \A q \in Passes : \A f \in pass'[q].todo : f \in pass[q].todo
    BY <1>4, <1>5
  <2>14. \A q \in Passes : HandIsRight(q)'
    <3> SUFFICES ASSUME NEW q \in Passes
                 PROVE  HandIsRight(q)'
      OBVIOUS
    <3>1. \A f \in InHand(pass'[q]) : plan'[f.id].known
      BY <1>2, <2>11 DEF PlanInv, HandIsRight
    <3>2. \A f \in pass'[q].todo : f.id \in Plans /\ f \in pass[q].todo
      BY <2>12, <2>13 DEF InHand
    <3>3. \A f \in pass'[q].todo : f.id \notin unrecorded' => owed'[f.id] = 0
      BY <2>8, <3>2 DEF PlanInv, HandIsRight
    <3>4. \A f \in pass'[q].writes : f = e \/ f \in pass[q].writes
      BY <1>4, <1>5
    <3>5. \A f \in pass'[q].writes : f.id \in unrecorded'
      BY <1>10, <2>1, <3>4 DEF PlanInv, HandIsRight
    <3> QED
      BY <3>1, <3>3, <3>5 DEF HandIsRight
  <2> QED
    BY <1>2, <1>7, <1>10, <2>4, <2>7, <2>9, <2>10, <2>14 DEF PlanInv
<1> QED
  BY <1>9, <1>10

\* A date that is written is one interval after the pass began, and later than the
\* present run by the whole interval when the run is taken for recorded.
LEMMA RecordKeeps ==
  ASSUME PlanInv, NEW p \in Passes, RecordRun(p)
  PROVE  PlanInv'
<1>1. /\ plan \in [Plans -> PlanRow] /\ pass \in [Passes -> PassRow]
      /\ owed \in [Plans -> 0..Interval] /\ Interval \in Nat
  BY PlanAssumption DEF PlanInv, PlanTypeOK, PlanRow, PassRow
<1>2. PICK e \in pass[p].writes :
        /\ plan[e.id].present
        /\ \E next \in Following(p, e) : plan' = [plan EXCEPT ![e.id] = next]
        /\ pass' = [pass EXCEPT ![p].writes = {}]
        /\ unrecorded' = IF \/ Rest(p, e) < owed[e.id]
                            \/ \E q \in Passes \ {p} : Holds(q, e.id)
                           THEN unrecorded ELSE unrecorded \ {e.id}
        /\ UNCHANGED <<service, planFaults, owed, early>>
  BY DEF RecordRun
<1>3. e.id \in Plans
  BY <1>1 DEF PassRow, Entry
<1>4. PICK n \in 0..Interval :
        /\ plan' = [plan EXCEPT ![e.id] = [plan[e.id] EXCEPT !.ran = TRUE, !.wait = n]]
        /\ service = "interval" => n = Rest(p, e)
  <2>1. e \in Entry
    BY <1>1 DEF PassRow
  <2>2. Rest(p, e) \in 0..Interval /\ 1..Interval \subseteq 0..Interval
    BY <1>1, <2>1, RestIsShort
  <2>3. PICK next \in Following(p, e) : plan' = [plan EXCEPT ![e.id] = next]
    BY <1>2
  <2>4. CASE service = "interval"
    BY <2>2, <2>3, <2>4 DEF Following
  <2>5. CASE service # "interval"
    BY <2>2, <2>3, <2>5 DEF Following
  <2> QED
    BY <2>4, <2>5
<1> DEFINE x == [plan[e.id] EXCEPT !.ran = TRUE, !.wait = n]
           y == [pass[p] EXCEPT !.writes = {}]
<1>5. x \in PlanRow /\ x.present = plan[e.id].present /\ x.known = plan[e.id].known /\ x.ran /\ x.wait = n
  BY <1>1, <1>3, <1>4 DEF PlanRow
<1>6. y \in PassRow /\ y.todo = pass[p].todo /\ y.writes = {}
  BY <1>1 DEF PassRow
<1>7. /\ plan' \in [Plans -> PlanRow] /\ plan'[e.id] = x
      /\ \A s \in Plans \ {e.id} : plan'[s] = plan[s]
  BY <1>1, <1>3, <1>4, <1>5
<1>8. pass' \in [Passes -> PassRow] /\ pass'[p] = y /\ \A q \in Passes \ {p} : pass'[q] = pass[q]
  BY <1>1, <1>2, <1>6
<1> HIDE DEF x, y
<1>9. unrecorded' \subseteq unrecorded /\ unrecorded \subseteq unrecorded' \cup {e.id}
  BY <1>2
<1>10. PlanTypeOK'
  BY <1>2, <1>7, <1>8, <1>9 DEF PlanInv, PlanTypeOK, PlanRow, PassRow
<1>11. DateIsRight(e.id)'
  <2> SUFFICES ASSUME e.id \notin unrecorded'
               PROVE  n >= owed[e.id]
    BY <1>2, <1>5, <1>7 DEF DateIsRight
  <2>1. owed[e.id] \in 0..Interval /\ Rest(p, e) \in 0..Interval
    BY <1>1, <1>3, RestIsShort DEF PassRow
  <2>2. CASE e.id \in unrecorded
    <3>1. ~(Rest(p, e) < owed[e.id])
      BY <1>2, <2>2
    <3>2. CASE service = "interval"
      BY <1>1, <1>4, <2>1, <3>1, <3>2
    <3>3. CASE service # "interval"
      <4>1. owed[e.id] = 0
        BY <1>3, <3>3 DEF PlanInv, PlanTypeOK
      <4> QED
        BY <1>1, <4>1
    <3> QED
      BY <3>2, <3>3
  <2>3. CASE e.id \notin unrecorded
    <3>1. service = "cron"
      BY <2>3 DEF PlanInv, HandIsRight
    <3>2. owed[e.id] = 0
      BY <1>3, <3>1 DEF PlanInv
    <3> QED
      BY <1>1, <3>2
  <2> QED
    BY <2>2, <2>3
<1>12. \A s \in Plans : plan'[s].present => plan'[s].known /\ DateIsRight(s)'
  <2> SUFFICES ASSUME NEW s \in Plans, plan'[s].present
               PROVE  plan'[s].known /\ DateIsRight(s)'
    OBVIOUS
  <2>1. CASE s = e.id
    BY <1>2, <1>5, <1>7, <1>11, <2>1 DEF PlanInv
  <2>2. CASE s # e.id
    <3>1. plan'[s] = plan[s] /\ (s \notin unrecorded' => s \notin unrecorded)
      BY <1>7, <1>9, <2>2
    <3> QED
      BY <1>2, <3>1 DEF PlanInv, DateIsRight
  <2> QED
    BY <2>1, <2>2
<1>13. \A s \in Plans : plan'[s].known = plan[s].known
  BY <1>5, <1>7
<1>14. \A q \in Passes : /\ pass'[q].todo = pass[q].todo
                        /\ pass'[q].writes \subseteq pass[q].writes
                        /\ InHand(pass'[q]) \subseteq InHand(pass[q])
  BY <1>6, <1>8 DEF InHand
<1>15. \A q \in Passes : OneEntryEach(pass'[q])
  BY <1>14 DEF PlanInv, OneEntryEach
<1>16. \A q \in Passes : \A f \in InHand(pass[q]) : f.id \in Plans
  BY <1>1 DEF PassRow, Entry, InHand
<1>17. ASSUME e.id \notin unrecorded', e.id \in unrecorded
       PROVE  \A q \in Passes : \A f \in InHand(pass'[q]) : f.id # e.id
  <2>1. \A q \in Passes \ {p} : ~Holds(q, e.id)
    BY <1>2, <1>17
  <2>2. \A f \in InHand(pass'[p]) : f \in pass[p].todo
    BY <1>6, <1>8 DEF InHand
  <2>3. \A f \in pass[p].todo : f.id # e.id
    BY DEF PlanInv, OneEntryEach, InHand
  <2>4. \A q \in Passes \ {p} : \A f \in InHand(pass'[q]) : f.id # e.id
    BY <1>8, <2>1 DEF Holds, InHand
  <2> QED
    BY <2>2, <2>3, <2>4
<1>18. \A q \in Passes : HandIsRight(q)'
  <2> SUFFICES ASSUME NEW q \in Passes
               PROVE  HandIsRight(q)'
    OBVIOUS
  <2>1. \A f \in InHand(pass'[q]) : plan'[f.id].known
    BY <1>13, <1>14, <1>16 DEF PlanInv, HandIsRight
  <2>2. \A f \in InHand(pass'[q]) : f.id \in unrecorded => f.id \in unrecorded'
    BY <1>9, <1>17
  <2>3. pass'[q].todo \subseteq InHand(pass'[q]) /\ pass'[q].writes \subseteq InHand(pass'[q])
    BY DEF InHand
  <2>4. \A f \in pass'[q].todo : f.id \notin unrecorded' => owed'[f.id] = 0
    BY <1>2, <1>14, <2>2, <2>3 DEF PlanInv, HandIsRight
  <2>5. service' # "cron" => \A f \in pass'[q].writes : f.id \in unrecorded'
    BY <1>2, <1>14, <2>2, <2>3 DEF PlanInv, HandIsRight
  <2> QED
    BY <2>1, <2>4, <2>5 DEF HandIsRight
<1>19. \A s \in Plans : ~plan'[s].known => owed'[s] = 0
  BY <1>2, <1>13 DEF PlanInv
<1> QED
  BY <1>2, <1>10, <1>12, <1>15, <1>18, <1>19 DEF PlanInv

\* A tick takes the same from the wait as from what is left of the interval.
LEMMA TickKeeps ==
  ASSUME PlanInv, FiveMinutes
  PROVE  PlanInv'
<1>1. /\ plan \in [Plans -> PlanRow] /\ pass \in [Passes -> PassRow]
      /\ owed \in [Plans -> 0..Interval] /\ Interval \in Nat
  BY PlanAssumption DEF PlanInv, PlanTypeOK, PlanRow, PassRow
<1>2. UNCHANGED <<service, planFaults, unrecorded, early>>
  BY DEF FiveMinutes
<1>3. ASSUME NEW s \in Plans
      PROVE  /\ owed'[s] \in 0..Interval /\ plan'[s] \in PlanRow
             /\ owed'[s] = IF owed[s] > 0 THEN owed[s] - 1 ELSE 0
             /\ plan'[s].wait = IF plan[s].wait > 0 THEN plan[s].wait - 1 ELSE 0
             /\ plan'[s].ran = plan[s].ran /\ plan'[s].present = plan[s].present
             /\ plan'[s].known = plan[s].known
  <2>1. owed'[s] = Count(owed[s])
        /\ plan'[s] = [plan[s] EXCEPT !.wait = Count(@)]
    BY DEF FiveMinutes
  <2>2. plan[s] \in PlanRow /\ owed[s] \in 0..Interval
    BY <1>1
  <2>3. plan[s].wait \in 0..Interval
    BY <2>2 DEF PlanRow
  <2>4. (IF plan[s].wait > 0 THEN plan[s].wait - 1 ELSE 0) \in 0..Interval
    BY <1>1, <2>3
  <2>5. Count(owed[s]) \in 0..Interval
    BY <1>1, <2>2 DEF Count
  <2> QED
    BY <2>1, <2>2, <2>4, <2>5 DEF Count, PlanRow
<1>4. ASSUME NEW p \in Passes
      PROVE  /\ pass'[p] \in PassRow
             /\ pass'[p].todo \subseteq pass[p].todo /\ pass'[p].writes \subseteq pass[p].writes
  <2>1. pass'[p] = IF pass[p].busy THEN [pass[p] EXCEPT !.age = @ + 1] ELSE Idle
    BY DEF FiveMinutes
  <2>2. pass[p] \in PassRow /\ (pass[p].busy => pass[p].age < Interval)
    BY <1>1 DEF FiveMinutes
  <2>3. CASE pass[p].busy
    <3>1. pass[p].age + 1 \in 0..Interval
      BY <1>1, <2>2, <2>3 DEF PassRow
    <3> QED
      BY <2>1, <2>2, <2>3, <3>1 DEF PassRow
  <2>4. CASE ~pass[p].busy
    <3>1. 0 \in 0..Interval
      BY <1>1
    <3> QED
      BY <2>1, <2>4, <3>1 DEF PassRow, Idle
  <2> QED
    BY <2>3, <2>4
<1>5. owed' \in [Plans -> 0..Interval] /\ plan' \in [Plans -> PlanRow] /\ pass' \in [Passes -> PassRow]
  BY <1>3, <1>4 DEF FiveMinutes
<1>6. PlanTypeOK'
  BY <1>2, <1>5 DEF PlanInv, PlanTypeOK, PlanRow, PassRow
<1>7. \A s \in Plans : owed[s] = 0 => owed'[s] = 0
  BY <1>1, <1>3
<1>8. ASSUME NEW s \in Plans, plan'[s].present
      PROVE  plan'[s].known /\ DateIsRight(s)'
  <2>1. plan[s].known /\ DateIsRight(s)
    BY <1>3, <1>8 DEF PlanInv
  <2>2. plan[s].wait \in 0..Interval /\ owed[s] \in 0..Interval
    BY <1>1 DEF PlanRow
  <2>3. plan[s].wait >= owed[s] => plan'[s].wait >= owed'[s]
    BY <1>1, <1>3, <2>2
  <2>4. plan'[s].ran = plan[s].ran /\ plan'[s].known = plan[s].known
    BY <1>3
  <2> QED
    BY <1>2, <1>7, <2>1, <2>3, <2>4 DEF DateIsRight
<1>9. \A p \in Passes : InHand(pass'[p]) \subseteq InHand(pass[p])
  BY <1>4 DEF InHand
<1>10. \A p \in Passes : OneEntryEach(pass'[p])
  BY <1>4, <1>9 DEF PlanInv, OneEntryEach
<1>11. \A p \in Passes : \A e \in InHand(pass[p]) : e.id \in Plans
  BY <1>1 DEF PassRow, Entry, InHand
<1>12. ASSUME NEW p \in Passes
       PROVE  HandIsRight(p)'
  <2>1. \A e \in InHand(pass'[p]) : plan'[e.id].known
    BY <1>3, <1>9, <1>11 DEF PlanInv, HandIsRight
  <2>2. \A e \in pass'[p].todo : e.id \in Plans
    BY <1>4, <1>11 DEF InHand
  <2>3. \A e \in pass'[p].todo : e.id \notin unrecorded' => owed'[e.id] = 0
    BY <1>2, <1>4, <1>7, <2>2 DEF PlanInv, HandIsRight
  <2> QED
    BY <1>2, <1>4, <2>1, <2>3 DEF PlanInv, HandIsRight
<1>13. \A s \in Plans : ~plan'[s].known => owed'[s] = 0
  BY <1>3, <1>7 DEF PlanInv
<1>14. service' = "cron" => \A s \in Plans : owed'[s] = 0
  BY <1>2, <1>7 DEF PlanInv
<1> QED
  BY <1>2, <1>6, <1>8, <1>10, <1>12, <1>13, <1>14 DEF PlanInv

\* Every step keeps the invariant.
LEMMA PlanInvStep == PlanInv /\ [PlanNext]_planVars => PlanInv'
<1> SUFFICES ASSUME PlanInv, [PlanNext]_planVars
             PROVE  PlanInv'
  OBVIOUS
<1>1. /\ plan \in [Plans -> PlanRow] /\ pass \in [Passes -> PassRow]
      /\ planFaults \in 0..PlanFaults /\ Interval \in Nat /\ PlanFaults \in Nat
  BY PlanAssumption DEF PlanInv, PlanTypeOK, PlanRow, PassRow
<1>2. 0 \in 0..Interval /\ 1 \in 1..Interval /\ 1..Interval \subseteq 0..Interval
  BY PlanAssumption
<1>3. Idle \in PassRow /\ Idle.todo = {} /\ Idle.writes = {}
  BY <1>2 DEF Idle, PassRow
<1>4. planFaults > 0 => planFaults - 1 \in 0..PlanFaults
  BY <1>1
<1>5. ASSUME NEW s \in Plans, CreateIntervalPlan(s)
      PROVE  PlanInv'
  <2>3. PICK n \in 1..Interval : plan' = [plan EXCEPT ![s] = NewPlan(TRUE, n, n)]
    BY <1>5 DEF CreateIntervalPlan
  <2> DEFINE x == NewPlan(TRUE, n, n)
  <2>1. x \in PlanRow /\ x.known /\ ~x.ran
    BY <1>2 DEF NewPlan, PlanRow
  <2>2. Quiet /\ plan' = [plan EXCEPT ![s] = x] /\ ~plan[s].known
    BY <1>5, <2>3 DEF CreateIntervalPlan
  <2> HIDE DEF x
  <2> QED
    BY <2>1, <2>2, RowKeeps
<1>6. ASSUME NEW s \in Plans, CreateCronPlan(s)
      PROVE  PlanInv'
  <2>1. PICK v \in BOOLEAN : plan' = [plan EXCEPT ![s] = NewPlan(v, 0, 1)]
    BY <1>6 DEF CreateCronPlan
  <2> DEFINE x == NewPlan(v, 0, 1)
  <2>2. x \in PlanRow /\ x.known /\ ~x.ran
    BY <1>2 DEF NewPlan, PlanRow
  <2>3. Quiet /\ plan' = [plan EXCEPT ![s] = x] /\ ~plan[s].known
    BY <1>6, <2>1 DEF CreateCronPlan
  <2> HIDE DEF x
  <2> QED
    BY <2>2, <2>3, RowKeeps
<1>7. ASSUME NEW s \in Plans, TogglePlan(s)
      PROVE  PlanInv'
  <2> DEFINE x == [plan[s] EXCEPT !.enabled = ~@]
  <2>1. /\ x \in PlanRow /\ x.known = plan[s].known /\ x.ran = plan[s].ran
        /\ x.wait = plan[s].wait
    BY <1>1 DEF PlanRow
  <2>2. Quiet /\ plan' = [plan EXCEPT ![s] = x] /\ plan[s].present /\ plan[s].known
    BY <1>7 DEF TogglePlan, PlanInv
  <2> HIDE DEF x
  <2> QED
    BY <2>1, <2>2, RowKeeps
<1>8. ASSUME NEW s \in Plans, UpdateExpression(s)
      PROVE  PlanInv'
  <2> DEFINE x == [plan[s] EXCEPT !.valid = ~@]
  <2>1. /\ x \in PlanRow /\ x.known = plan[s].known /\ x.ran = plan[s].ran
        /\ x.wait = plan[s].wait
    BY <1>1 DEF PlanRow
  <2>2. Quiet /\ plan' = [plan EXCEPT ![s] = x] /\ plan[s].present /\ plan[s].known
    BY <1>8 DEF UpdateExpression, PlanInv
  <2> HIDE DEF x
  <2> QED
    BY <2>1, <2>2, RowKeeps
<1>15. ASSUME NEW s \in Plans, UpdateInterval(s)
       PROVE  PlanInv'
  <2>3. PICK n \in 1..Interval : plan' = [plan EXCEPT ![s].every = n]
    BY <1>15 DEF UpdateInterval
  <2> DEFINE x == [plan[s] EXCEPT !.every = n]
  <2>1. /\ x \in PlanRow /\ x.known = plan[s].known /\ x.ran = plan[s].ran
        /\ x.wait = plan[s].wait
    BY <1>1 DEF PlanRow
  <2>2. Quiet /\ plan' = [plan EXCEPT ![s] = x] /\ plan[s].present /\ plan[s].known
    BY <1>15, <2>3 DEF UpdateInterval, PlanInv
  <2> HIDE DEF x
  <2> QED
    BY <2>1, <2>2, RowKeeps
<1>9. ASSUME NEW s \in Plans, RemovePlan(s)
      PROVE  PlanInv'
  <2> DEFINE x == [NoPlan EXCEPT !.known = TRUE]
  <2>1. x \in PlanRow /\ x.known /\ ~x.present
    BY <1>2 DEF NoPlan, PlanRow
  <2>2. Quiet /\ plan' = [plan EXCEPT ![s] = x]
    BY <1>9 DEF RemovePlan
  <2> HIDE DEF x
  <2> QED
    BY <2>1, <2>2, RowKeeps
<1>10. ASSUME NEW p \in Passes, SkipRecord(p)
       PROVE  PlanInv'
  BY <1>1, <1>10, PassesShrink DEF SkipRecord, PassRow
<1>11. ASSUME NEW p \in Passes, EndPass(p)
       PROVE  PlanInv'
  BY <1>1, <1>3, <1>11, PassesShrink DEF EndPass
<1>12. ASSUME NEW p \in Passes, StatementFails(p)
       PROVE  PlanInv'
  <2>1. CASE pass' = [pass EXCEPT ![p].writes = {}]
    BY <1>1, <1>4, <1>12, <2>1, PassesShrink DEF StatementFails, PassRow
  <2>2. ASSUME NEW e \in pass[p].todo, pass' = [pass EXCEPT ![p].todo = @ \ {e}]
        PROVE  PlanInv'
    BY <1>1, <1>4, <1>12, <2>2, PassesShrink DEF StatementFails, PassRow
  <2> QED
    BY <1>12, <2>1, <2>2 DEF StatementFails
<1>13. CASE PlansRestart
  BY <1>1, <1>3, <1>4, <1>13, PassesShrink DEF PlansRestart
<1>14. CASE UNCHANGED planVars
  BY <1>14 DEF planVars, PlanInv, PlanTypeOK, DateIsRight, HandIsRight
<1> QED
  BY <1>5, <1>6, <1>7, <1>8, <1>9, <1>10, <1>11, <1>12, <1>13, <1>14, <1>15,
     RunDueKeeps, StartKeeps, RecordKeeps, TickKeeps DEF PlanNext, PassStep

\* No interval plan runs early unless its last date was not written or two passes had it
\* in hand, for any number of plans, overlapping passes, faults, and any interval.
THEOREM PlansAreSpaced == PlanSpec => []RunsAreSpaced
<1>1. PlanInv => RunsAreSpaced
  BY DEF PlanInv, RunsAreSpaced
<1> QED
  BY <1>1, PlanInvInit, PlanInvStep, PTL DEF PlanSpec

\* The plans and the passes keep their types.
THEOREM PlanTypeCorrect == PlanSpec => []PlanTypeOK
<1>1. PlanInv => PlanTypeOK
  BY DEF PlanInv
<1> QED
  BY <1>1, PlanInvInit, PlanInvStep, PTL DEF PlanSpec

-----------------------------------------------------------------------------
(* Retention (Retention).  A row is listed for deletion only below enough   *)
(* kept ones, and deleting a listed row takes none from those above it.     *)

\* The kept rows above a row that were completed.
Newer(b) == {c \in Copies \ pruned : c > b /\ copy[c] \in {"completed", "gone"}}
Covered(b) == Cardinality(Newer(b)) >= KeepLast

\* An attempt under way is not beyond the last one.
MayTry(b) == work[b].step \in {"copy", "list", "delete"} => work[b].tries < Tries

CopyInv ==
  /\ CopyTypeOK
  /\ \A b \in Copies : MayTry(b)
  /\ \A c \in pruned : copy[c] = "gone" /\ Covered(c)
  /\ \A b \in Copies : \A c \in old[b] : Covered(c)

WorkRow == [step : {"none", "copy", "list", "delete", "done", "failed"}, tries : 0..Tries]

\* A row that has no fewer kept rows above it than a covered one has is covered.
LEMMA CoverGrows ==
  ASSUME NEW S, NEW T, T \subseteq Copies, S \subseteq T, Cardinality(S) >= KeepLast
  PROVE  Cardinality(T) >= KeepLast
<1>1. IsFiniteSet(T) /\ IsFiniteSet(S)
  BY CopyAssumption, FS_Subset
<1>2. Cardinality(S) <= Cardinality(T)
  BY <1>1, FS_Subset
<1>3. Cardinality(S) \in Nat /\ Cardinality(T) \in Nat /\ KeepLast \in Nat
  BY <1>1, CopyAssumption, FS_CardinalityType
<1> QED
  BY <1>2, <1>3

\* A step that deletes nothing by retention, completes rows or removes them by hand,
\* and lists only covered rows.
LEMMA KeptStayKept ==
  ASSUME CopyInv, CopyTypeOK', pruned' = pruned, \A b \in Copies : MayTry(b)',
         \A c \in Copies : /\ copy[c] \in {"completed", "gone"} => copy'[c] \in {"completed", "gone"}
                           /\ copy[c] = "gone" => copy'[c] = "gone",
         \A b \in Copies : \A c \in old'[b] : Covered(c)
  PROVE  CopyInv'
<1>1. ASSUME NEW c, Covered(c)
      PROVE  Covered(c)'
  <2>1. Newer(c) \subseteq Newer(c)'
    BY DEF Newer
  <2>2. Newer(c)' \subseteq Copies
    BY DEF Newer
  <2> QED
    BY <1>1, <2>1, <2>2, CoverGrows DEF Covered
<1>2. pruned \subseteq Copies
  BY DEF CopyInv, CopyTypeOK
<1> QED
  BY <1>1, <1>2 DEF CopyInv

\* An attempt that fails has its next number.
LEMMA FailKeeps ==
  ASSUME CopyInv, NEW b \in Copies, Fail(b), work[b].step \in {"copy", "list", "delete"}
  PROVE  /\ work' \in [Copies -> WorkRow] /\ \A a \in Copies : MayTry(a)'
         /\ old' \in [Copies -> SUBSET Copies]
         /\ \A a \in Copies : old'[a] \subseteq old[a]
<1>1. work \in [Copies -> WorkRow] /\ old \in [Copies -> SUBSET Copies] /\ Tries \in Nat
  BY CopyAssumption DEF CopyInv, CopyTypeOK, WorkRow
<1>2. work[b].tries \in 0..Tries /\ work[b].tries < Tries
  BY <1>1 DEF WorkRow, CopyInv, MayTry
<1>3. Attempt(b) \in 0..Tries
  BY <1>1, <1>2 DEF Attempt
<1> DEFINE x == [step |-> IF Attempt(b) < Tries THEN "copy" ELSE "failed", tries |-> Attempt(b)]
<1>4. x \in WorkRow /\ (x.step \in {"copy", "list", "delete"} => x.tries < Tries)
  BY <1>3 DEF WorkRow
<1>5. work' = [work EXCEPT ![b] = x] /\ old' = [old EXCEPT ![b] = {}]
  BY DEF Fail
<1> HIDE DEF x
<1>6. work'[b] = x /\ \A a \in Copies \ {b} : work'[a] = work[a]
  BY <1>1, <1>5
<1>7. \A a \in Copies : MayTry(a)'
  BY <1>4, <1>6 DEF CopyInv, MayTry
<1> QED
  BY <1>1, <1>4, <1>5, <1>7

\* A listed row is deleted: what it loses to those below it, it has above itself.
LEMMA DeleteKeeps ==
  ASSUME CopyInv, NEW b \in Copies, NEW c \in old[b], copy[c] = "completed",
         copy' = [copy EXCEPT ![c] = "gone"], pruned' = pruned \cup {c},
         old' = [old EXCEPT ![b] = @ \ {c}], UNCHANGED work
  PROVE  CopyInv'
<1>1. /\ copy \in [Copies -> {"none", "running", "completed", "lost", "gone"}]
      /\ old \in [Copies -> SUBSET Copies] /\ pruned \subseteq Copies /\ Copies \subseteq Nat
  BY CopyAssumption DEF CopyInv, CopyTypeOK
<1>2. c \in Copies /\ Covered(c)
  BY <1>1 DEF CopyInv
<1>3. CopyTypeOK'
  BY <1>1, <1>2 DEF CopyInv, CopyTypeOK
<1>4. Newer(c) \subseteq Newer(c)'
  BY <1>1, <1>2 DEF Newer
<1>5. \A x \in Copies : Newer(x)' \subseteq Copies
  BY DEF Newer
<1>6. ASSUME NEW x \in Copies, Covered(x)
      PROVE  Covered(x)'
  <2>1. CASE x < c
    <3>1. c \in Nat /\ x \in Nat /\ \A d \in Copies : d \in Nat
      BY <1>1, <1>2
    <3>2. \A d \in Copies : d > c => d > x
      BY <2>1, <3>1
    <3>3. Newer(c)' \subseteq Newer(x)'
      BY <3>2 DEF Newer
    <3>4. Newer(c) \subseteq Newer(x)'
      BY <1>4, <3>3
    <3> QED
      BY <1>2, <1>5, <3>4, CoverGrows DEF Covered
  <2>2. CASE ~(x < c)
    <3>1. Newer(x) \subseteq Newer(x)'
      BY <1>1, <1>2, <2>2 DEF Newer
    <3> QED
      BY <1>5, <1>6, <3>1, CoverGrows DEF Covered
  <2> QED
    BY <2>1, <2>2
<1>7. \A a \in Copies : old'[a] \subseteq old[a] /\ old[a] \subseteq Copies
  BY <1>1
<1>8. \A x \in pruned' : copy'[x] = "gone" /\ Covered(x)'
  BY <1>1, <1>2, <1>6 DEF CopyInv
<1>9. \A a \in Copies : \A x \in old'[a] : Covered(x)'
  BY <1>6, <1>7 DEF CopyInv
<1> QED
  BY <1>3, <1>8, <1>9 DEF CopyInv, MayTry

\* Initially no row is there.
LEMMA CopyInvInit == CopyInit => CopyInv
<1> SUFFICES ASSUME CopyInit
             PROVE  CopyInv
  OBVIOUS
<1>1. Never \in WorkRow
  BY CopyAssumption DEF Never, WorkRow
<1>2. CopyTypeOK
  BY <1>1 DEF CopyInit, CopyTypeOK, WorkRow
<1> QED
  BY <1>2 DEF CopyInit, CopyInv, MayTry, Never

\* Every step keeps the invariant.
LEMMA CopyInvStep == CopyInv /\ [CopyNext]_copyVars => CopyInv'
<1> SUFFICES ASSUME CopyInv, [CopyNext]_copyVars
             PROVE  CopyInv'
  OBVIOUS
<1>1. /\ copy \in [Copies -> {"none", "running", "completed", "lost", "gone"}]
      /\ work \in [Copies -> WorkRow] /\ old \in [Copies -> SUBSET Copies]
      /\ pruned \subseteq Copies /\ Tries \in Nat \ {0}
  BY CopyAssumption DEF CopyInv, CopyTypeOK, WorkRow
<1>2. ASSUME NEW b \in Copies, CreateCopy(b)
      PROVE  CopyInv'
  <2>1. [step |-> "copy", tries |-> 0] \in WorkRow /\ 0 < Tries
    BY <1>1 DEF WorkRow
  <2>2. CopyTypeOK'
    BY <1>1, <1>2, <2>1 DEF CreateCopy, CopyTypeOK, WorkRow
  <2>3. \A a \in Copies : MayTry(a)'
    BY <1>1, <1>2, <2>1 DEF CreateCopy, CopyInv, MayTry
  <2> QED
    BY <1>1, <1>2, <2>2, <2>3, KeptStayKept DEF CreateCopy, CopyInv
<1>3. ASSUME NEW b \in Copies, RemoveCopy(b)
      PROVE  CopyInv'
  <2>1. CopyTypeOK'
    BY <1>1, <1>3 DEF RemoveCopy, CopyTypeOK, WorkRow
  <2>2. \A a \in Copies : MayTry(a)'
    BY <1>3 DEF RemoveCopy, CopyInv, MayTry
  <2> QED
    BY <1>1, <1>3, <2>1, <2>2, KeptStayKept DEF RemoveCopy, CopyInv
<1>4. ASSUME NEW b \in Copies, CopyEnds(b)
      PROVE  CopyInv'
  <2>1. work[b].step = "copy" /\ pruned' = pruned
    BY <1>4 DEF CopyEnds
  <2>2. CASE /\ copy[b] \in {"running", "completed"}
             /\ copy' = [copy EXCEPT ![b] = "completed"]
             /\ work' = [work EXCEPT ![b].step = "list"]
             /\ UNCHANGED old
    <3>1. CopyTypeOK'
      BY <1>1, <2>1, <2>2 DEF CopyTypeOK, WorkRow
    <3>2. \A a \in Copies : MayTry(a)'
      BY <1>1, <2>1, <2>2 DEF CopyInv, MayTry
    <3> QED
      BY <1>1, <2>1, <2>2, <3>1, <3>2, KeptStayKept DEF CopyInv
  <2>3. CASE Fail(b) /\ UNCHANGED copy
    <3>1. /\ work' \in [Copies -> WorkRow] /\ \A a \in Copies : MayTry(a)'
          /\ old' \in [Copies -> SUBSET Copies] /\ \A a \in Copies : old'[a] \subseteq old[a]
      BY <2>1, <2>3, FailKeeps
    <3>2. CopyTypeOK'
      BY <1>1, <2>1, <2>3, <3>1 DEF CopyTypeOK, WorkRow
    <3> QED
      BY <2>1, <2>3, <3>1, <3>2, KeptStayKept DEF CopyInv
  <2> QED
    BY <1>4, <2>2, <2>3 DEF CopyEnds
<1>5. ASSUME NEW b \in Copies, ListOld(b)
      PROVE  CopyInv'
  <2>1. \A c \in Beyond : Covered(c)
    <3> SUFFICES ASSUME NEW c \in Beyond
                 PROVE  Covered(c)
      OBVIOUS
    <3>1. Cardinality({d \in Completed : d > c}) >= KeepLast
      BY DEF Beyond
    <3>2. {d \in Completed : d > c} \subseteq Newer(c) /\ Newer(c) \subseteq Copies
      BY DEF Completed, Newer, CopyInv
    <3> QED
      BY <3>1, <3>2, CoverGrows DEF Covered
  <2>2. Beyond \subseteq Copies
    BY DEF Beyond, Completed
  <2>3. CopyTypeOK'
    BY <1>1, <1>5, <2>2 DEF ListOld, CopyTypeOK, WorkRow
  <2>4. \A a \in Copies : MayTry(a)'
    BY <1>1, <1>5 DEF ListOld, CopyInv, MayTry
  <2>5. \A a \in Copies : \A c \in old'[a] : Covered(c)
    BY <1>1, <1>5, <2>1 DEF ListOld, CopyInv
  <2>6. UNCHANGED <<copy, pruned>>
    BY <1>5 DEF ListOld
  <2> QED
    BY <2>3, <2>4, <2>5, <2>6, KeptStayKept
<1>6. ASSUME NEW b \in Copies, DeleteOld(b)
      PROVE  CopyInv'
  <2>1. PICK c \in old[b] :
          \/ /\ copy[c] = "completed"
             /\ copy' = [copy EXCEPT ![c] = "gone"]
             /\ pruned' = pruned \cup {c}
             /\ old' = [old EXCEPT ![b] = @ \ {c}]
             /\ UNCHANGED work
          \/ copy[c] # "completed" /\ Fail(b) /\ UNCHANGED <<copy, pruned>>
    BY <1>6 DEF DeleteOld
  <2>2. CASE copy[c] = "completed"
    BY <2>1, <2>2, DeleteKeeps
  <2>3. CASE copy[c] # "completed"
    <3>1. Fail(b) /\ UNCHANGED <<copy, pruned>> /\ work[b].step = "delete"
      BY <1>6, <2>1, <2>3 DEF DeleteOld
    <3>2. /\ work' \in [Copies -> WorkRow] /\ \A a \in Copies : MayTry(a)'
          /\ old' \in [Copies -> SUBSET Copies] /\ \A a \in Copies : old'[a] \subseteq old[a]
      BY <3>1, FailKeeps
    <3>3. CopyTypeOK'
      BY <1>1, <3>1, <3>2 DEF CopyTypeOK, WorkRow
    <3> QED
      BY <3>1, <3>2, <3>3, KeptStayKept DEF CopyInv
  <2> QED
    BY <2>2, <2>3
<1>7. ASSUME NEW b \in Copies, PruneEnds(b)
      PROVE  CopyInv'
  <2>1. CopyTypeOK'
    BY <1>1, <1>7 DEF PruneEnds, CopyTypeOK, WorkRow
  <2>2. \A a \in Copies : MayTry(a)'
    BY <1>1, <1>7 DEF PruneEnds, CopyInv, MayTry
  <2> QED
    BY <1>7, <2>1, <2>2, KeptStayKept DEF PruneEnds, CopyInv
<1>8. CASE UNCHANGED copyVars
  BY <1>8 DEF copyVars, CopyInv, CopyTypeOK, MayTry, Covered, Newer
<1> QED
  BY <1>2, <1>3, <1>4, <1>5, <1>6, <1>7, <1>8 DEF CopyNext

\* The retention never eats into the newest KeepLast backups of a machine, for any
\* number of tasks that prune at once, rows, attempts and any KeepLast.
THEOREM RetentionKeepsNewest == CopySpec => []PrunedHasNewer
<1>1. CopyInv => PrunedHasNewer
  BY DEF CopyInv, PrunedHasNewer, Covered, Newer
<1> QED
  BY <1>1, CopyInvInit, CopyInvStep, PTL DEF CopySpec

\* The rows and their tasks keep their types; no task goes beyond its last attempt.
THEOREM CopyTypeCorrect == CopySpec => []CopyTypeOK
<1>1. CopyInv => CopyTypeOK
  BY DEF CopyInv
<1> QED
  BY <1>1, CopyInvInit, CopyInvStep, PTL DEF CopySpec

-----------------------------------------------------------------------------
(* Quotas (Quotas).                                                         *)

QuotaInv == QuotaTypeOK /\ QuotaOverrunIsBounded

MachineRow == [owner : Owners \cup {Nobody}, by : Owners \cup {Nobody}, size : Sizes \cup {0}]
RequestRow == [busy : BOOLEAN, user : Owners \cup {Nobody}, size : Sizes \cup {0}]

\* What a user has made for himself and has under way.
InHandOf(u) == Cardinality(MadeForSelf(u)) + Cardinality(UnderWay(u))

\* What is counted is finite.
LEMMA QuotaCounts ==
  ASSUME NEW u
  PROVE  /\ IsFiniteSet(MachinesOf(u)) /\ IsFiniteSet(MadeForSelf(u)) /\ IsFiniteSet(UnderWay(u))
         /\ Cardinality(MachinesOf(u)) \in Nat /\ Cardinality(MadeForSelf(u)) \in Nat
         /\ Cardinality(UnderWay(u)) \in Nat /\ Cardinality(Requests) \in Nat
         /\ Cardinality(MadeForSelf(u)) <= Cardinality(MachinesOf(u))
         /\ Cardinality(UnderWay(u)) <= Cardinality(Requests)
<1>1. MachinesOf(u) \subseteq VmIds /\ MadeForSelf(u) \subseteq MachinesOf(u)
      /\ UnderWay(u) \subseteq Requests
  BY DEF MachinesOf, MadeForSelf, UnderWay
<1>2. IsFiniteSet(MachinesOf(u)) /\ IsFiniteSet(UnderWay(u)) /\ IsFiniteSet(Requests)
  BY <1>1, QuotaAssumption, FS_Subset
<1>3. IsFiniteSet(MadeForSelf(u)) /\ Cardinality(MadeForSelf(u)) <= Cardinality(MachinesOf(u))
  BY <1>1, <1>2, FS_Subset
<1>4. Cardinality(UnderWay(u)) <= Cardinality(Requests)
  BY <1>1, <1>2, FS_Subset
<1> QED
  BY <1>2, <1>3, <1>4, FS_CardinalityType

\* A limit is a number.
LEMMA LimitsAreNumbers == \A n \in VmLimits \cup {0, NoLimit} : n \in Nat
<1>1. \A n \in 0 .. NoLimit - 1 : n \in Nat
  OBVIOUS
<1> QED
  BY <1>1, QuotaAssumption

\* A step that gives no user more, and no check passes.
LEMMA NoMoreInHand ==
  ASSUME QuotaOverrunIsBounded, generous' = generous, QuotaTypeOK,
         \A u \in Owners : /\ MadeForSelf(u)' \subseteq MadeForSelf(u)
                           /\ UnderWay(u)' \subseteq UnderWay(u)
  PROVE  QuotaOverrunIsBounded'
<1> SUFFICES ASSUME NEW u \in Owners, generous[u] # NoLimit
             PROVE  Cardinality(MadeForSelf(u)') + Cardinality(UnderWay(u)')
                      < generous[u] + Cardinality(Requests)
  BY DEF QuotaOverrunIsBounded
<1>1. Cardinality(MadeForSelf(u)) + Cardinality(UnderWay(u)) < generous[u] + Cardinality(Requests)
  BY DEF QuotaOverrunIsBounded
<1>2. /\ IsFiniteSet(MadeForSelf(u)) /\ IsFiniteSet(UnderWay(u))
      /\ Cardinality(MadeForSelf(u)) \in Nat /\ Cardinality(UnderWay(u)) \in Nat
      /\ Cardinality(Requests) \in Nat
  BY QuotaCounts
<1>3. /\ IsFiniteSet(MadeForSelf(u)') /\ Cardinality(MadeForSelf(u)') <= Cardinality(MadeForSelf(u))
      /\ IsFiniteSet(UnderWay(u)') /\ Cardinality(UnderWay(u)') <= Cardinality(UnderWay(u))
  BY <1>2, FS_Subset
<1>4. Cardinality(MadeForSelf(u)') \in Nat /\ Cardinality(UnderWay(u)') \in Nat
  BY <1>3, FS_CardinalityType
<1>5. generous[u] \in Nat
  BY LimitsAreNumbers DEF QuotaTypeOK
<1> QED
  BY <1>1, <1>2, <1>3, <1>4, <1>5

\* Initially nobody owns anything.
LEMMA QuotaInvInit == QuotaInit => QuotaInv
<1> SUFFICES ASSUME QuotaInit
             PROVE  QuotaInv
  OBVIOUS
<1>1. QuotaTypeOK
  BY DEF QuotaInit, QuotaTypeOK, NoQuota, NoVm, NoRequest, MaxSizes
<1>2. ASSUME NEW u \in Owners
      PROVE  MadeForSelf(u) = {} /\ UnderWay(u) = {} /\ generous[u] = 0
  BY QuotaAssumption DEF QuotaInit, MadeForSelf, MachinesOf, UnderWay, NoVm, NoRequest
<1>3. Cardinality(Requests) \in Nat /\ Cardinality(Requests) # 0 /\ Cardinality({}) = 0
  BY QuotaAssumption, FS_CardinalityType, FS_EmptySet
<1>4. 0 + 0 < 0 + Cardinality(Requests)
  BY <1>3
<1> QED
  BY <1>1, <1>2, <1>3, <1>4 DEF QuotaInv, QuotaOverrunIsBounded

\* A check that passes leaves what is under way below the limit it has read.
LEMMA CheckKeeps ==
  ASSUME QuotaInv, NEW r \in Requests, CheckQuota(r)
  PROVE  QuotaInv'
<1>1. /\ quota \in [maxVms : VmLimits \cup {NoLimit}, maxSize : MaxSizes]
      /\ machine \in [VmIds -> MachineRow] /\ request \in [Requests -> RequestRow]
      /\ generous \in [Owners -> VmLimits \cup {0, NoLimit}]
  BY DEF QuotaInv, QuotaTypeOK, MachineRow, RequestRow
<1>2. NoLimit \in Nat /\ (\A n \in VmLimits : n \in Nat /\ n < NoLimit)
  BY QuotaAssumption
<1>3. PICK u \in Owners, s \in Sizes :
        /\ ~Exceeded(u, s)
        /\ request' = [request EXCEPT ![r] = [busy |-> TRUE, user |-> u, size |-> s]]
        /\ generous' = [generous EXCEPT ![u] = IF quota.maxVms > @ THEN quota.maxVms ELSE @]
  BY DEF CheckQuota
<1>4. UNCHANGED <<quota, machine>> /\ ~request[r].busy
  BY DEF CheckQuota
<1> DEFINE x == [busy |-> TRUE, user |-> u, size |-> s]
<1>5. x \in RequestRow /\ x.busy /\ x.user = u
  BY DEF RequestRow
<1>6. request' \in [Requests -> RequestRow] /\ request'[r] = x
      /\ \A q \in Requests \ {r} : request'[q] = request[q]
  BY <1>1, <1>3, <1>5
<1> HIDE DEF x
<1>7. /\ generous' \in [Owners -> VmLimits \cup {0, NoLimit}]
      /\ generous'[u] = IF quota.maxVms > generous[u] THEN quota.maxVms ELSE generous[u]
      /\ \A w \in Owners \ {u} : generous'[w] = generous[w]
  BY <1>1, <1>3
<1>8. QuotaTypeOK'
  BY <1>1, <1>4, <1>6, <1>7 DEF QuotaTypeOK, MachineRow, RequestRow
<1>9. ASSUME NEW w \in Owners
      PROVE  MadeForSelf(w)' = MadeForSelf(w)
  BY <1>4 DEF MadeForSelf, MachinesOf
<1>10. ASSUME NEW w \in Owners \ {u}
       PROVE  UnderWay(w)' = UnderWay(w)
  BY <1>4, <1>5, <1>6 DEF UnderWay
<1>11. ASSUME generous'[u] # NoLimit
       PROVE  Cardinality(MadeForSelf(u)') + Cardinality(UnderWay(u)')
                < generous'[u] + Cardinality(Requests)
  <2>1. quota.maxVms \in VmLimits \cup {NoLimit} /\ generous[u] \in VmLimits \cup {0, NoLimit}
    BY <1>1
  <2>2. quota.maxVms \in Nat /\ generous[u] \in Nat
    BY <1>2, <2>1
  <2>3. quota.maxVms # NoLimit
    BY <1>2, <1>7, <1>11, <2>1, <2>2
  <2>4. quota.maxVms <= generous'[u] /\ generous'[u] \in Nat
    BY <1>7, <2>2
  <2>5. ~(Cardinality(MachinesOf(u)) >= quota.maxVms)
    BY <1>3, <2>3 DEF Exceeded
  <2>6. /\ Cardinality(MachinesOf(u)) \in Nat /\ Cardinality(MadeForSelf(u)) \in Nat
        /\ Cardinality(MadeForSelf(u)) <= Cardinality(MachinesOf(u))
    BY QuotaCounts
  <2>7. UnderWay(u)' \subseteq Requests /\ IsFiniteSet(Requests)
    BY QuotaAssumption DEF UnderWay
  <2>8. IsFiniteSet(UnderWay(u)') /\ Cardinality(UnderWay(u)') <= Cardinality(Requests)
    BY <2>7, FS_Subset
  <2>9. Cardinality(UnderWay(u)') \in Nat /\ Cardinality(Requests) \in Nat
    BY <2>7, <2>8, FS_CardinalityType
  <2>10. Cardinality(MadeForSelf(u)') = Cardinality(MadeForSelf(u))
    BY <1>9
  <2> QED
    BY <2>2, <2>4, <2>5, <2>6, <2>8, <2>9, <2>10
<1>12. QuotaOverrunIsBounded'
  <2> SUFFICES ASSUME NEW w \in Owners, generous'[w] # NoLimit
               PROVE  Cardinality(MadeForSelf(w)') + Cardinality(UnderWay(w)')
                        < generous'[w] + Cardinality(Requests)
    BY DEF QuotaOverrunIsBounded
  <2>1. CASE w = u
    BY <1>11, <2>1
  <2>2. CASE w # u
    BY <1>7, <1>9, <1>10, <2>2 DEF QuotaInv, QuotaOverrunIsBounded
  <2> QED
    BY <2>1, <2>2
<1> QED
  BY <1>8, <1>12 DEF QuotaInv

\* An insert moves what it adds from under way to made.
LEMMA InsertKeeps ==
  ASSUME QuotaInv, NEW r \in Requests, InsertVm(r)
  PROVE  QuotaInv'
<1>1. /\ quota \in [maxVms : VmLimits \cup {NoLimit}, maxSize : MaxSizes]
      /\ machine \in [VmIds -> MachineRow] /\ request \in [Requests -> RequestRow]
      /\ generous \in [Owners -> VmLimits \cup {0, NoLimit}]
  BY DEF QuotaInv, QuotaTypeOK, MachineRow, RequestRow
<1>2. PICK v \in VmIds, o \in Owners :
        machine' = [machine EXCEPT ![v] = [owner |-> o, by |-> request[r].user, size |-> request[r].size]]
  BY DEF InsertVm
<1>3. /\ request' = [request EXCEPT ![r] = NoRequest] /\ request[r].busy
      /\ UNCHANGED <<quota, generous>>
  BY DEF InsertVm
<1> DEFINE x == [owner |-> o, by |-> request[r].user, size |-> request[r].size]
<1>4. x \in MachineRow /\ x.by = request[r].user
  BY <1>1 DEF MachineRow, RequestRow
<1>5. NoRequest \in RequestRow /\ ~NoRequest.busy
  BY DEF NoRequest, RequestRow
<1>6. /\ machine' \in [VmIds -> MachineRow] /\ machine'[v] = x
      /\ \A m \in VmIds \ {v} : machine'[m] = machine[m]
  BY <1>1, <1>2, <1>4
<1>7. /\ request' \in [Requests -> RequestRow] /\ request'[r] = NoRequest
      /\ \A q \in Requests \ {r} : request'[q] = request[q]
  BY <1>1, <1>3, <1>5
<1> HIDE DEF x
<1>8. QuotaTypeOK'
  BY <1>1, <1>3, <1>6, <1>7 DEF QuotaTypeOK, MachineRow, RequestRow
<1> PICK u : u = request[r].user
  OBVIOUS
<1>9. ASSUME NEW w \in Owners, w # u, generous'[w] # NoLimit
      PROVE  Cardinality(MadeForSelf(w)') + Cardinality(UnderWay(w)')
               < generous'[w] + Cardinality(Requests)
  <2>1. MadeForSelf(w)' \subseteq MadeForSelf(w)
    BY <1>4, <1>6, <1>9 DEF MadeForSelf, MachinesOf
  <2>2. UnderWay(w)' = UnderWay(w)
    BY <1>5, <1>7, <1>9 DEF UnderWay
  <2>3. Cardinality(MadeForSelf(w)') <= Cardinality(MadeForSelf(w)) /\ IsFiniteSet(MadeForSelf(w)')
    BY <2>1, QuotaCounts, FS_Subset
  <2>4. Cardinality(MadeForSelf(w)') \in Nat
    BY <2>3, FS_CardinalityType
  <2>5. /\ Cardinality(MadeForSelf(w)) \in Nat /\ Cardinality(UnderWay(w)) \in Nat
        /\ Cardinality(Requests) \in Nat
    BY QuotaCounts
  <2>6. generous[w] \in Nat /\ generous'[w] = generous[w]
    BY <1>1, <1>3, LimitsAreNumbers
  <2>7. Cardinality(MadeForSelf(w)) + Cardinality(UnderWay(w)) < generous[w] + Cardinality(Requests)
    BY <1>9, <2>6 DEF QuotaInv, QuotaOverrunIsBounded
  <2> QED
    BY <2>2, <2>3, <2>4, <2>5, <2>6, <2>7
<1>10. ASSUME u \in Owners, generous'[u] # NoLimit
       PROVE  Cardinality(MadeForSelf(u)') + Cardinality(UnderWay(u)')
                < generous'[u] + Cardinality(Requests)
  <2>1. MadeForSelf(u)' \subseteq MadeForSelf(u) \cup {v}
    BY <1>6 DEF MadeForSelf, MachinesOf
  <2>2. UnderWay(u)' = UnderWay(u) \ {r} /\ r \in UnderWay(u)
    BY <1>3, <1>5, <1>7 DEF UnderWay
  <2>3. /\ IsFiniteSet(MadeForSelf(u)) /\ IsFiniteSet(UnderWay(u))
        /\ Cardinality(MadeForSelf(u)) \in Nat /\ Cardinality(UnderWay(u)) \in Nat
        /\ Cardinality(Requests) \in Nat
    BY QuotaCounts
  <2>4. /\ IsFiniteSet(MadeForSelf(u) \cup {v})
        /\ Cardinality(MadeForSelf(u) \cup {v}) <= Cardinality(MadeForSelf(u)) + 1
    <3>1. /\ IsFiniteSet(MadeForSelf(u) \cup {v})
          /\ Cardinality(MadeForSelf(u) \cup {v})
               = IF v \in MadeForSelf(u) THEN Cardinality(MadeForSelf(u))
                                         ELSE Cardinality(MadeForSelf(u)) + 1
      BY <2>3, FS_AddElement
    <3> QED
      BY <2>3, <3>1
  <2>5. /\ IsFiniteSet(MadeForSelf(u)')
        /\ Cardinality(MadeForSelf(u)') <= Cardinality(MadeForSelf(u) \cup {v})
    BY <2>1, <2>4, FS_Subset
  <2>6. Cardinality(MadeForSelf(u)') \in Nat /\ Cardinality(MadeForSelf(u) \cup {v}) \in Nat
    BY <2>4, <2>5, FS_CardinalityType
  <2>7. Cardinality(UnderWay(u)') = Cardinality(UnderWay(u)) - 1
    BY ZenonT(60), <2>2, <2>3, FS_RemoveElement
  <2>8. generous[u] \in Nat /\ generous'[u] = generous[u]
    BY <1>1, <1>3, <1>10, LimitsAreNumbers
  <2>9. Cardinality(MadeForSelf(u)) + Cardinality(UnderWay(u)) < generous[u] + Cardinality(Requests)
    BY <1>10, <2>8 DEF QuotaInv, QuotaOverrunIsBounded
  <2> QED
    BY <2>3, <2>4, <2>5, <2>6, <2>7, <2>8, <2>9
<1>11. QuotaOverrunIsBounded'
  BY <1>9, <1>10 DEF QuotaOverrunIsBounded
<1> QED
  BY <1>8, <1>11 DEF QuotaInv

\* Every step keeps the bound.
LEMMA QuotaInvStep == QuotaInv /\ [QuotaNext]_quotaVars => QuotaInv'
<1> SUFFICES ASSUME QuotaInv, [QuotaNext]_quotaVars
             PROVE  QuotaInv'
  OBVIOUS
<1>1. /\ quota \in [maxVms : VmLimits \cup {NoLimit}, maxSize : MaxSizes]
      /\ machine \in [VmIds -> MachineRow] /\ request \in [Requests -> RequestRow]
      /\ generous \in [Owners -> VmLimits \cup {0, NoLimit}]
  BY DEF QuotaInv, QuotaTypeOK, MachineRow, RequestRow
<1>2. NoRequest \in RequestRow /\ ~NoRequest.busy /\ NoVm \in MachineRow /\ NoVm.owner = Nobody
  BY DEF NoRequest, RequestRow, NoVm, MachineRow
<1>3. CASE UpsertQuota \/ RemoveQuota
  <2>1. quota' \in [maxVms : VmLimits \cup {NoLimit}, maxSize : MaxSizes]
    BY <1>3 DEF UpsertQuota, RemoveQuota, NoQuota, MaxSizes
  <2>2. UNCHANGED <<machine, request, generous>>
    BY <1>3 DEF UpsertQuota, RemoveQuota
  <2>3. QuotaTypeOK'
    BY <1>1, <2>1, <2>2 DEF QuotaTypeOK, MachineRow, RequestRow
  <2>4. QuotaOverrunIsBounded'
    BY <2>2, NoMoreInHand DEF QuotaInv, MadeForSelf, MachinesOf, UnderWay
  <2> QED
    BY <2>3, <2>4 DEF QuotaInv
<1>4. ASSUME NEW r \in Requests, CreateFails(r)
      PROVE  QuotaInv'
  <2>1. request' = [request EXCEPT ![r] = NoRequest] /\ UNCHANGED <<quota, machine, generous>>
    BY <1>4 DEF CreateFails
  <2>2. QuotaTypeOK'
    BY <1>1, <1>2, <2>1 DEF QuotaTypeOK, MachineRow, RequestRow
  <2>3. \A u \in Owners : UnderWay(u)' \subseteq UnderWay(u)
    BY <1>1, <1>2, <2>1 DEF UnderWay
  <2>4. \A u \in Owners : MadeForSelf(u)' \subseteq MadeForSelf(u)
    BY <2>1 DEF MadeForSelf, MachinesOf
  <2> QED
    BY <2>1, <2>2, <2>3, <2>4, NoMoreInHand DEF QuotaInv
<1>5. ASSUME NEW v \in VmIds, ResizeVm(v)
      PROVE  QuotaInv'
  <2>1. PICK s \in Sizes : machine' = [machine EXCEPT ![v].size = s]
    BY <1>5 DEF ResizeVm
  <2>2. UNCHANGED <<quota, request, generous>>
    BY <1>5 DEF ResizeVm
  <2>3. machine' \in [VmIds -> MachineRow]
    BY <1>1, <2>1 DEF MachineRow
  <2>4. \A m \in VmIds : machine'[m].owner = machine[m].owner /\ machine'[m].by = machine[m].by
    BY <1>1, <2>1 DEF MachineRow
  <2>5. QuotaTypeOK'
    BY <1>1, <2>2, <2>3 DEF QuotaTypeOK, MachineRow, RequestRow
  <2>6. \A u \in Owners : MadeForSelf(u)' \subseteq MadeForSelf(u)
    BY <2>4 DEF MadeForSelf, MachinesOf
  <2>7. \A u \in Owners : UnderWay(u)' \subseteq UnderWay(u)
    BY <2>2 DEF UnderWay
  <2> QED
    BY <2>2, <2>5, <2>6, <2>7, NoMoreInHand DEF QuotaInv
<1>6. ASSUME NEW v \in VmIds, RemoveVm(v)
      PROVE  QuotaInv'
  <2>1. machine' = [machine EXCEPT ![v] = NoVm] /\ UNCHANGED <<quota, request, generous>>
    BY <1>6 DEF RemoveVm
  <2>2. QuotaTypeOK'
    BY <1>1, <1>2, <2>1 DEF QuotaTypeOK, MachineRow, RequestRow
  <2>3. \A u \in Owners : MadeForSelf(u)' \subseteq MadeForSelf(u)
    BY <1>1, <1>2, <2>1, QuotaAssumption DEF MadeForSelf, MachinesOf
  <2>4. \A u \in Owners : UnderWay(u)' \subseteq UnderWay(u)
    BY <2>1 DEF UnderWay
  <2> QED
    BY <2>1, <2>2, <2>3, <2>4, NoMoreInHand DEF QuotaInv
<1>8. ASSUME NEW v \in VmIds, CloneVm(v)
      PROVE  QuotaInv'
  <2>1. PICK w \in VmIds, o \in Owners :
          machine' = [machine EXCEPT ![w] = [owner |-> o, by |-> Nobody, size |-> machine[v].size]]
    BY <1>8 DEF CloneVm
  <2>2. UNCHANGED <<quota, request, generous>>
    BY <1>8 DEF CloneVm
  <2> DEFINE x == [owner |-> o, by |-> Nobody, size |-> machine[v].size]
  <2>3. x \in MachineRow /\ x.by = Nobody
    BY <1>1 DEF MachineRow
  <2>4. /\ machine' \in [VmIds -> MachineRow] /\ machine'[w] = x
        /\ \A m \in VmIds \ {w} : machine'[m] = machine[m]
    BY <1>1, <2>1, <2>3
  <2> HIDE DEF x
  <2>5. QuotaTypeOK'
    BY <1>1, <2>2, <2>4 DEF QuotaTypeOK, MachineRow, RequestRow
  <2>6. \A u \in Owners : MadeForSelf(u)' \subseteq MadeForSelf(u)
    BY <2>3, <2>4, QuotaAssumption DEF MadeForSelf, MachinesOf
  <2>7. \A u \in Owners : UnderWay(u)' \subseteq UnderWay(u)
    BY <2>2 DEF UnderWay
  <2> QED
    BY <2>2, <2>5, <2>6, <2>7, NoMoreInHand DEF QuotaInv
<1>7. CASE UNCHANGED quotaVars
  <2>1. QuotaTypeOK'
    BY <1>7 DEF quotaVars, QuotaInv, QuotaTypeOK
  <2>2. QuotaOverrunIsBounded'
    BY <1>7, NoMoreInHand DEF quotaVars, QuotaInv, MadeForSelf, MachinesOf, UnderWay
  <2> QED
    BY <2>1, <2>2 DEF QuotaInv
<1> QED
  BY <1>3, <1>4, <1>5, <1>6, <1>7, <1>8, CheckKeeps, InsertKeeps DEF QuotaNext

\* By creating, a user goes over the limit by no more than the requests under way
\* together, for any number of users, machines, clones, requests and limits.
THEOREM QuotaOverrun == QuotaSpec => []QuotaOverrunIsBounded
<1>1. QuotaInv => QuotaOverrunIsBounded
  BY DEF QuotaInv
<1> QED
  BY <1>1, QuotaInvInit, QuotaInvStep, PTL DEF QuotaSpec

\* The quota, the machines and the requests keep their types.
THEOREM QuotaTypeCorrect == QuotaSpec => []QuotaTypeOK
<1>1. QuotaInv => QuotaTypeOK
  BY DEF QuotaInv
<1> QED
  BY <1>1, QuotaInvInit, QuotaInvStep, PTL DEF QuotaSpec

-----------------------------------------------------------------------------
(* The license server (LicenseServer).                                     *)

Creating == {q \in Activates : At(q, "create")}

\* The requests that a bucket b may have admitted in the last n ticks: those it has
\* counted, as long as its window has lasted; before that, those of the window before;
\* without a window, none in the present tick.
Room(b, n) ==
  IF b.left < 0 THEN IF n = 1 THEN 0 ELSE RateMax
  ELSE (IF b.count > RateMax THEN RateMax ELSE b.count)
         + (IF n <= RateWindow - b.left + 1 THEN 0 ELSE RateMax)

WindowIsCounted(k) == \A n \in 1..RateWindow : admitted[k][n] <= Room(bucket[k], n)

LicenseServerInv ==
  /\ LicenseServerTypeOK
  /\ \A k \in BucketKeys : WindowIsCounted(k)
  /\ ActivationsAreBounded

BucketRow == [count : 0..RateMax + 1, left : -1..RateWindow]
ActivateRow == [step : ActivateSteps, install : Installs \cup {"none"}]
AdmittedRow == [1..RateWindow -> Nat]

\* What is counted is finite.
LEMMA ServerCounts ==
  /\ IsFiniteSet(Active) /\ IsFiniteSet(Creating) /\ IsFiniteSet(Activates)
  /\ Cardinality(Active) \in Nat /\ Cardinality(Creating) \in Nat
  /\ Cardinality(Activates) \in Nat /\ Cardinality(Activates) # 0
  /\ Cardinality(Creating) <= Cardinality(Activates)
<1>1. Active \subseteq Installs /\ Creating \subseteq Activates
  BY DEF Active, Creating
<1>2. /\ IsFiniteSet(Active) /\ IsFiniteSet(Creating) /\ IsFiniteSet(Activates)
      /\ Cardinality(Creating) <= Cardinality(Activates)
  BY <1>1, LicenseServerAssumption, FS_Subset
<1>3. Cardinality(Activates) # 0
  BY <1>2, LicenseServerAssumption, FS_EmptySet
<1> QED
  BY <1>2, <1>3, FS_CardinalityType

\* A step that makes no installation active and sends no request to its create.
LEMMA NoMoreActive ==
  ASSUME ActivationsAreBounded, Active' \subseteq Active, Creating' \subseteq Creating
  PROVE  ActivationsAreBounded'
<1>1. /\ IsFiniteSet(Active') /\ Cardinality(Active') <= Cardinality(Active)
      /\ IsFiniteSet(Creating') /\ Cardinality(Creating') <= Cardinality(Creating)
  BY ServerCounts, FS_Subset
<1>2. Cardinality(Active') \in Nat /\ Cardinality(Creating') \in Nat
  BY <1>1, FS_CardinalityType
<1>3. Cardinality(Active) + Cardinality(Creating) < MaxActivations + Cardinality(Activates)
  BY DEF ActivationsAreBounded, Creating
<1>4. Cardinality(Active') + Cardinality(Creating') < MaxActivations + Cardinality(Activates)
  BY <1>1, <1>2, <1>3, ServerCounts, LicenseServerAssumption
<1> QED
  BY <1>4 DEF ActivationsAreBounded, Creating

\* A request that is counted keeps the bucket in its bounds.
LEMMA CountedIs ==
  ASSUME NEW k \in BucketKeys, bucket[k] \in BucketRow
  PROVE  /\ Counted(k) \in BucketRow /\ Counted(k).left >= 0
         /\ bucket[k].left < 0 => Counted(k).left = RateWindow /\ Counted(k).count = 1
         /\ bucket[k].left >= 0 =>
              /\ Counted(k).left = bucket[k].left
              /\ Counted(k).count = IF bucket[k].count > RateMax THEN bucket[k].count
                                                                 ELSE bucket[k].count + 1
<1>1. RateMax \in Nat /\ RateWindow \in Nat \ {0}
  BY LicenseServerAssumption
<1> PICK b : b = IF bucket[k].left < 0 THEN [count |-> 0, left |-> RateWindow] ELSE bucket[k]
  OBVIOUS
<1>2. Counted(k) = [b EXCEPT !.count = IF @ > RateMax THEN @ ELSE @ + 1]
  BY DEF Counted
<1>3. bucket[k].left \in -1..RateWindow /\ bucket[k].count \in 0..RateMax + 1
  BY DEF BucketRow
<1>4. b \in BucketRow /\ b.left >= 0
  <2>1. CASE bucket[k].left < 0
    BY <1>1, <2>1 DEF BucketRow
  <2>2. CASE ~(bucket[k].left < 0)
    BY <1>1, <1>3, <2>2
  <2> QED
    BY <2>1, <2>2
<1>5. b.count \in 0..RateMax + 1 /\ b.left \in -1..RateWindow
  BY <1>4 DEF BucketRow
<1>6. /\ Counted(k).count = IF b.count > RateMax THEN b.count ELSE b.count + 1
      /\ Counted(k).left = b.left
  BY <1>2, <1>4 DEF BucketRow
<1>7. Counted(k).count \in 0..RateMax + 1
  BY <1>1, <1>5, <1>6
<1>8. Counted(k) = [count |-> Counted(k).count, left |-> Counted(k).left]
  BY <1>2, <1>4 DEF BucketRow
<1>9. Counted(k) \in BucketRow
  BY <1>5, <1>6, <1>7, <1>8 DEF BucketRow
<1>10. bucket[k].left < 0 => b = [count |-> 0, left |-> RateWindow]
  OBVIOUS
<1>11. bucket[k].left < 0 => Counted(k).left = RateWindow /\ Counted(k).count = 1
  BY <1>1, <1>6, <1>10
<1>12. bucket[k].left >= 0 => b = bucket[k]
  BY <1>3
<1> QED
  BY <1>4, <1>6, <1>9, <1>11, <1>12

\* A bucket that counts a request has room for it, unless it is over.
LEMMA CountedHasRoom ==
  ASSUME NEW k \in BucketKeys, bucket[k] \in BucketRow, admitted[k] \in AdmittedRow,
         WindowIsCounted(k), NEW n \in 1..RateWindow
  PROVE  /\ admitted[k][n] <= Room(Counted(k), n)
         /\ ~Over(k) => admitted[k][n] + 1 <= Room(Counted(k), n)
<1>1. RateMax \in Nat /\ RateWindow \in Nat \ {0} /\ n \in Nat /\ 1 <= n /\ n <= RateWindow
  BY LicenseServerAssumption
<1>2. /\ bucket[k].left \in -1..RateWindow /\ bucket[k].count \in 0..RateMax + 1
      /\ admitted[k][n] \in Nat /\ admitted[k][n] <= Room(bucket[k], n)
  BY DEF BucketRow, AdmittedRow, WindowIsCounted
<1>3. /\ bucket[k].left < 0 => Counted(k).left = RateWindow /\ Counted(k).count = 1
      /\ bucket[k].left >= 0 =>
           /\ Counted(k).left = bucket[k].left
           /\ Counted(k).count = IF bucket[k].count > RateMax THEN bucket[k].count
                                                              ELSE bucket[k].count + 1
  BY CountedIs
<1>4. CASE bucket[k].left < 0
  <2>1. admitted[k][n] <= IF n = 1 THEN 0 ELSE RateMax
    BY <1>2, <1>4 DEF Room
  <2>2. Room(Counted(k), n) = (IF 1 > RateMax THEN RateMax ELSE 1) + (IF n <= 1 THEN 0 ELSE RateMax)
    BY <1>1, <1>3, <1>4 DEF Room
  <2>3. ~Over(k) => ~(1 > RateMax)
    BY <1>3, <1>4 DEF Over
  <2> QED
    BY <1>1, <1>2, <2>1, <2>2, <2>3
<1>5. CASE ~(bucket[k].left < 0)
  <2> DEFINE c == bucket[k].count
             d == Counted(k).count
             before == IF n <= RateWindow - bucket[k].left + 1 THEN 0 ELSE RateMax
  <2>1. admitted[k][n] <= (IF c > RateMax THEN RateMax ELSE c) + before
    BY <1>2, <1>5 DEF Room
  <2>2. Counted(k).left = bucket[k].left /\ d = IF c > RateMax THEN c ELSE c + 1
    BY <1>2, <1>3, <1>5
  <2>3. Room(Counted(k), n) = (IF d > RateMax THEN RateMax ELSE d) + before
    BY <1>5, <2>2 DEF Room
  <2>4. ~Over(k) => ~(d > RateMax)
    BY DEF Over
  <2>5. before \in Nat /\ c \in 0..RateMax + 1
    BY <1>1, <1>2
  <2> HIDE DEF before, c, d
  <2> QED
    BY <1>1, <1>2, <2>1, <2>2, <2>3, <2>4, <2>5
<1> QED
  BY <1>4, <1>5

\* The rate limit keeps its buckets and what they have admitted in their bounds.
LEMMA RateLimitKeeps ==
  ASSUME LicenseServerInv, NEW ip \in Ips, CheckRateLimit(ip)
  PROVE  /\ bucket' \in [BucketKeys -> BucketRow] /\ admitted' \in [BucketKeys -> AdmittedRow]
         /\ \A k \in BucketKeys : WindowIsCounted(k)'
<1>1. /\ bucket \in [BucketKeys -> BucketRow] /\ admitted \in [BucketKeys -> AdmittedRow]
      /\ RateMax \in Nat /\ RateWindow \in Nat \ {0}
  BY LicenseServerAssumption DEF LicenseServerInv, LicenseServerTypeOK, BucketRow, AdmittedRow
<1>2. \A k \in BucketKeys : Counted(k) \in BucketRow
  BY <1>1, CountedIs
<1>3. bucket' = [k \in BucketKeys |->
        IF k = ip \/ (k = KeyBucket /\ ~Over(ip)) THEN Counted(k) ELSE bucket[k]]
  BY DEF CheckRateLimit
<1>4. bucket' \in [BucketKeys -> BucketRow]
  BY <1>1, <1>2, <1>3
<1>5. ASSUME NEW k \in BucketKeys, admitted'[k] = admitted[k]
      PROVE  WindowIsCounted(k)'
  <2>1. CASE bucket'[k] = bucket[k]
    BY <1>5, <2>1 DEF LicenseServerInv, WindowIsCounted, Room
  <2>2. CASE bucket'[k] = Counted(k)
    <3>1. \A n \in 1..RateWindow : admitted[k][n] <= Room(Counted(k), n)
      BY <1>1, CountedHasRoom DEF LicenseServerInv
    <3> QED
      BY <1>5, <2>2, <3>1 DEF WindowIsCounted, Room
  <2> QED
    BY <1>3, <2>1, <2>2
<1>6. ASSUME NEW k \in BucketKeys, bucket'[k] = Counted(k), ~Over(k),
             admitted'[k] = [n \in 1..RateWindow |-> admitted[k][n] + 1]
      PROVE  WindowIsCounted(k)' /\ admitted'[k] \in AdmittedRow
  <2>1. \A n \in 1..RateWindow : admitted[k][n] + 1 <= Room(Counted(k), n)
    BY <1>1, <1>6, CountedHasRoom DEF LicenseServerInv
  <2>2. \A n \in 1..RateWindow : admitted[k][n] + 1 \in Nat
    BY <1>1 DEF AdmittedRow
  <2> QED
    BY <1>6, <2>1, <2>2 DEF WindowIsCounted, Room, AdmittedRow
<1>7. CASE Over(ip) \/ Over(KeyBucket)
  <2>1. admitted' = admitted
    BY <1>7 DEF CheckRateLimit
  <2> QED
    BY <1>1, <1>4, <1>5, <2>1
<1>8. CASE ~Over(ip) /\ ~Over(KeyBucket)
  <2>1. admitted' = [k \in BucketKeys |->
                      IF k \in {ip, KeyBucket} THEN [n \in 1..RateWindow |-> admitted[k][n] + 1]
                      ELSE admitted[k]]
    BY <1>8 DEF CheckRateLimit
  <2>2. ASSUME NEW k \in BucketKeys
        PROVE  WindowIsCounted(k)' /\ admitted'[k] \in AdmittedRow
    <3>1. CASE k \in {ip, KeyBucket}
      <4>1. /\ bucket'[k] = Counted(k) /\ ~Over(k)
            /\ admitted'[k] = [n \in 1..RateWindow |-> admitted[k][n] + 1]
        BY <1>3, <1>8, <2>1, <3>1
      <4> QED
        BY <1>6, <4>1
    <3>2. CASE k \notin {ip, KeyBucket}
      BY <1>1, <1>5, <2>1, <3>2
    <3> QED
      BY <3>1, <3>2
  <2> QED
    BY <1>4, <2>1, <2>2
<1> QED
  BY <1>7, <1>8

\* Initially nothing is active.
LEMMA LicenseServerInvInit == LicenseServerInit => LicenseServerInv
<1> SUFFICES ASSUME LicenseServerInit
             PROVE  LicenseServerInv
  OBVIOUS
<1>1. RateMax \in Nat /\ RateWindow \in Nat \ {0} /\ MaxActivations \in Nat
  BY LicenseServerAssumption
<1>2. NoBucket \in BucketRow /\ NoBucket.count = 0
  BY <1>1 DEF NoBucket, BucketRow
<1>3. NoActivate \in ActivateRow /\ NoActivate.step # "create"
  BY DEF NoActivate, ActivateRow, ActivateSteps
<1>4. [n \in 1..RateWindow |-> 0] \in AdmittedRow /\ \A n \in 1..RateWindow : 0 <= Room(NoBucket, n)
  BY <1>1 DEF AdmittedRow, Room, NoBucket
<1>5. LicenseServerTypeOK
  BY <1>2, <1>3, <1>4 DEF LicenseServerInit, LicenseServerTypeOK, BucketRow, ActivateRow, AdmittedRow
<1>6. \A k \in BucketKeys : WindowIsCounted(k)
  BY <1>4 DEF LicenseServerInit, WindowIsCounted
<1>7. Active = {} /\ Creating = {}
  BY <1>3 DEF LicenseServerInit, Active, Creating, At
<1>8. Cardinality(Active) = 0 /\ Cardinality(Creating) = 0
  BY <1>7, FS_EmptySet
<1>9. ActivationsAreBounded
  BY <1>1, <1>8, ServerCounts DEF ActivationsAreBounded, Creating
<1> QED
  BY <1>5, <1>6, <1>9 DEF LicenseServerInv

\* A step of one request that leaves the buckets alone.
LEMMA RequestKeeps ==
  ASSUME LicenseServerInv, UNCHANGED <<license, expired, bucket, validating, admitted>>,
         NEW q \in Activates, NEW x \in ActivateRow, activate' = [activate EXCEPT ![q] = x],
         activation' \in [Installs -> {"none", "active", "revoked"}]
  PROVE  /\ LicenseServerTypeOK' /\ \A k \in BucketKeys : WindowIsCounted(k)'
         /\ Creating' = IF x.step = "create" THEN Creating \cup {q} ELSE Creating \ {q}
<1>1. activate \in [Activates -> ActivateRow]
  BY DEF LicenseServerInv, LicenseServerTypeOK, ActivateRow
<1>2. activate' \in [Activates -> ActivateRow] /\ activate'[q] = x
      /\ \A p \in Activates \ {q} : activate'[p] = activate[p]
  BY <1>1
<1>3. LicenseServerTypeOK'
  BY <1>2 DEF LicenseServerInv, LicenseServerTypeOK, ActivateRow
<1>4. \A k \in BucketKeys : WindowIsCounted(k)'
  BY DEF LicenseServerInv, WindowIsCounted, Room
<1>5. Creating' = IF x.step = "create" THEN Creating \cup {q} ELSE Creating \ {q}
  BY <1>2 DEF Creating, At
<1> QED
  BY <1>3, <1>4, <1>5

\* A request that answers, or moves on to a step other than its create.
LEMMA MoveKeeps ==
  ASSUME LicenseServerInv, UNCHANGED <<license, expired, activation, bucket, validating, admitted>>,
         NEW q \in Activates, NEW s \in ActivateSteps \ {"create"}, MoveOn(q, s) \/ Answer(q)
  PROVE  LicenseServerInv'
<1>1. activate \in [Activates -> ActivateRow] /\ activation' \in [Installs -> {"none", "active", "revoked"}]
  BY DEF LicenseServerInv, LicenseServerTypeOK, ActivateRow
<1>2. PICK x \in ActivateRow : x.step # "create" /\ activate' = [activate EXCEPT ![q] = x]
  <2>1. CASE MoveOn(q, s)
    <3>1. [activate[q] EXCEPT !.step = s] \in ActivateRow /\ [activate[q] EXCEPT !.step = s].step = s
      BY <1>1 DEF ActivateRow
    <3> QED
      BY <2>1, <3>1 DEF MoveOn
  <2>2. CASE Answer(q)
    BY <2>2 DEF Answer, NoActivate, ActivateRow, ActivateSteps
  <2> QED
    BY <2>1, <2>2
<1>3. /\ LicenseServerTypeOK' /\ \A k \in BucketKeys : WindowIsCounted(k)'
      /\ Creating' = Creating \ {q}
  BY <1>1, <1>2, RequestKeeps
<1>4. Active' \subseteq Active
  BY DEF Active
<1>5. ActivationsAreBounded'
  BY <1>3, <1>4, NoMoreActive DEF LicenseServerInv
<1> QED
  BY <1>3, <1>5 DEF LicenseServerInv

\* The count leaves room for one more, and there is one request more at most in between.
LEMMA CountKeeps ==
  ASSUME LicenseServerInv, NEW q \in Activates, CountActivations(q)
  PROVE  LicenseServerInv'
<1>1. UNCHANGED <<license, expired, activation, bucket, validating, admitted>>
  BY DEF CountActivations
<1>2. CASE Full
  <2>1. Answer(q) /\ "none" \in ActivateSteps \ {"create"}
    BY <1>2 DEF CountActivations, ActivateSteps
  <2> QED
    BY <1>1, <2>1, MoveKeeps
<1>3. CASE ~Full
  <2>1. activate \in [Activates -> ActivateRow] /\ activation' \in [Installs -> {"none", "active", "revoked"}]
    BY <1>1 DEF LicenseServerInv, LicenseServerTypeOK, ActivateRow
  <2>2. [activate[q] EXCEPT !.step = "create"] \in ActivateRow
    BY <2>1 DEF ActivateRow, ActivateSteps
  <2>3. activate' = [activate EXCEPT ![q] = [activate[q] EXCEPT !.step = "create"]]
    BY <1>3 DEF CountActivations, MoveOn
  <2>4. LicenseServerTypeOK' /\ \A k \in BucketKeys : WindowIsCounted(k)'
    BY <1>1, <2>1, <2>2, <2>3, RequestKeeps
  <2>5. Creating' \subseteq Activates /\ Active' = Active
    BY <1>1 DEF Creating, Active
  <2>6. IsFiniteSet(Creating') /\ Cardinality(Creating') <= Cardinality(Activates)
    BY <2>5, LicenseServerAssumption, FS_Subset
  <2>7. Cardinality(Creating') \in Nat /\ Cardinality(Active) \in Nat /\ Cardinality(Activates) \in Nat
    BY <2>6, ServerCounts, FS_CardinalityType
  <2>8. ~(Cardinality(Active) >= MaxActivations) /\ MaxActivations \in Nat
    BY <1>3, LicenseServerAssumption DEF Full
  <2>9. Cardinality(Active) + Cardinality(Creating') < MaxActivations + Cardinality(Activates)
    BY <2>6, <2>7, <2>8
  <2>10. ActivationsAreBounded'
    BY <2>5, <2>9 DEF ActivationsAreBounded, Creating
  <2> QED
    BY <2>4, <2>10 DEF LicenseServerInv
<1> QED
  BY <1>2, <1>3

\* A create makes at most one installation active and ends.
LEMMA CreateKeeps ==
  ASSUME LicenseServerInv, NEW q \in Activates, CreateActivation(q)
  PROVE  LicenseServerInv'
<1> PICK i : i = activate[q].install
  OBVIOUS
<1>1. /\ UNCHANGED <<license, expired, bucket, validating, admitted>>
      /\ activation' = [activation EXCEPT ![i] = IF @ = "none" THEN "active" ELSE @]
      /\ activate' = [activate EXCEPT ![q] = NoActivate] /\ q \in Creating
  BY DEF CreateActivation, Answer, Creating
<1>2. activation \in [Installs -> {"none", "active", "revoked"}]
  BY DEF LicenseServerInv, LicenseServerTypeOK
<1>3. activation' \in [Installs -> {"none", "active", "revoked"}]
  BY <1>1, <1>2
<1>4. NoActivate \in ActivateRow /\ NoActivate.step # "create"
  BY DEF NoActivate, ActivateRow, ActivateSteps
<1>5. /\ LicenseServerTypeOK' /\ \A k \in BucketKeys : WindowIsCounted(k)'
      /\ Creating' = Creating \ {q}
  BY <1>1, <1>3, <1>4, RequestKeeps
<1>6. Active' \subseteq Active \cup {i}
  BY <1>1, <1>2 DEF Active
<1>7. /\ IsFiniteSet(Active \cup {i})
      /\ Cardinality(Active \cup {i}) = IF i \in Active THEN Cardinality(Active)
                                                        ELSE Cardinality(Active) + 1
  BY ServerCounts, FS_AddElement
<1>8. IsFiniteSet(Active') /\ Cardinality(Active') <= Cardinality(Active \cup {i})
  BY <1>6, <1>7, FS_Subset
<1>9. Cardinality(Active') \in Nat
  BY <1>8, FS_CardinalityType
<1>10. Cardinality(Creating') = Cardinality(Creating) - 1
  BY <1>1, <1>5, ServerCounts, FS_RemoveElement
<1>11. Cardinality(Active) + Cardinality(Creating) < MaxActivations + Cardinality(Activates)
  BY DEF LicenseServerInv, ActivationsAreBounded, Creating
<1>12. Cardinality(Active') + Cardinality(Creating') < MaxActivations + Cardinality(Activates)
  BY <1>7, <1>8, <1>9, <1>10, <1>11, ServerCounts, LicenseServerAssumption
<1>13. ActivationsAreBounded'
  BY <1>12 DEF ActivationsAreBounded, Creating
<1> QED
  BY <1>5, <1>13 DEF LicenseServerInv

\* A request that arrives changes its bucket and waits for the license.
LEMMA ArrivesKeeps ==
  ASSUME LicenseServerInv, NEW q \in Activates, ActivateArrives(q)
  PROVE  LicenseServerInv'
<1>1. PICK i \in Installs, ip \in Ips :
        /\ CheckRateLimit(ip)
        /\ activate' = IF Over(ip) \/ Over(KeyBucket) THEN activate
                       ELSE [activate EXCEPT ![q] = [step |-> "license", install |-> i]]
  BY DEF ActivateArrives
<1>2. UNCHANGED <<license, expired, activation, validating>>
  BY DEF ActivateArrives
<1>3. activate \in [Activates -> ActivateRow]
  BY DEF LicenseServerInv, LicenseServerTypeOK, ActivateRow
<1>4. [step |-> "license", install |-> i] \in ActivateRow
  BY DEF ActivateRow, ActivateSteps
<1>5. activate' \in [Activates -> ActivateRow] /\ Creating' \subseteq Creating
  BY <1>1, <1>3, <1>4 DEF Creating, At
<1>6. /\ bucket' \in [BucketKeys -> BucketRow] /\ admitted' \in [BucketKeys -> AdmittedRow]
      /\ \A k \in BucketKeys : WindowIsCounted(k)'
  BY <1>1, RateLimitKeeps
<1>7. LicenseServerTypeOK'
  BY <1>2, <1>5, <1>6 DEF LicenseServerInv, LicenseServerTypeOK, ActivateRow, BucketRow, AdmittedRow
<1>8. Active' \subseteq Active
  BY <1>2 DEF Active
<1>9. ActivationsAreBounded'
  BY <1>5, <1>8, NoMoreActive DEF LicenseServerInv
<1> QED
  BY <1>6, <1>7, <1>9 DEF LicenseServerInv

LEMMA RoomIsInt ==
  ASSUME NEW b \in BucketRow, NEW n \in Int
  PROVE  Room(b, n) \in Int
<1>1. b.left \in -1..RateWindow /\ b.count \in 0..RateMax + 1 /\ RateMax \in Nat
  BY LicenseServerAssumption DEF BucketRow
<1> QED
  BY <1>1 DEF Room

\* A tick shifts what was admitted by one, and the window of a bucket lasts a tick longer.
LEMMA TickHasRoom ==
  ASSUME NEW b \in BucketRow, NEW n \in 1..RateWindow
  PROVE  LET c == IF b.left <= 0 THEN NoBucket ELSE [b EXCEPT !.left = @ - 1]
         IN  c \in BucketRow /\ 0 <= Room(c, n) /\ (n # 1 => Room(b, n - 1) <= Room(c, n))
<1> PICK c : c = IF b.left <= 0 THEN NoBucket ELSE [b EXCEPT !.left = @ - 1]
  OBVIOUS
<1>1. RateMax \in Nat /\ RateWindow \in Nat \ {0} /\ n \in Nat /\ 1 <= n /\ n <= RateWindow
  BY LicenseServerAssumption
<1>2. b.left \in -1..RateWindow /\ b.count \in 0..RateMax + 1
  BY DEF BucketRow
<1>3. CASE b.left <= 0
  <2>1. c = NoBucket /\ c \in BucketRow
    BY <1>1, <1>3 DEF NoBucket, BucketRow
  <2>2. Room(c, n) = IF n = 1 THEN 0 ELSE RateMax
    BY <2>1 DEF Room, NoBucket
  <2>3. n # 1 => Room(b, n - 1) <= RateMax
    BY <1>1, <1>2, <1>3 DEF Room
  <2> QED
    BY <1>1, <2>1, <2>2, <2>3
<1>4. CASE ~(b.left <= 0)
  <2>1. c = [b EXCEPT !.left = b.left - 1] /\ b.left - 1 \in -1..RateWindow
    BY <1>1, <1>2, <1>4
  <2>2. c \in BucketRow /\ c.left = b.left - 1 /\ c.count = b.count
    BY <2>1 DEF BucketRow
  <2> DEFINE in == IF b.count > RateMax THEN RateMax ELSE b.count
  <2>3. in \in Nat
    BY <1>1, <1>2
  <2>4. Room(c, n) = in + (IF n <= RateWindow - (b.left - 1) + 1 THEN 0 ELSE RateMax)
    BY <1>1, <1>2, <1>4, <2>2 DEF Room
  <2>5. Room(b, n - 1) = in + (IF n - 1 <= RateWindow - b.left + 1 THEN 0 ELSE RateMax)
    BY <1>1, <1>2, <1>4 DEF Room
  <2> HIDE DEF in
  <2> QED
    BY <1>1, <1>2, <2>2, <2>3, <2>4, <2>5
<1> QED
  BY <1>3, <1>4

\* A tick begins a new count of admissions, a restart forgets all.
LEMMA ServerTickKeeps ==
  ASSUME LicenseServerInv, ServerTick \/ ServerRestart
  PROVE  LicenseServerInv'
<1>1. /\ bucket \in [BucketKeys -> BucketRow] /\ admitted \in [BucketKeys -> AdmittedRow]
      /\ activate \in [Activates -> ActivateRow]
      /\ RateMax \in Nat /\ RateWindow \in Nat \ {0}
  BY LicenseServerAssumption DEF LicenseServerInv, LicenseServerTypeOK, BucketRow, AdmittedRow,
     ActivateRow
<1>2. NoActivate \in ActivateRow /\ NoActivate.step # "create"
  BY DEF NoActivate, ActivateRow, ActivateSteps
<1>3. UNCHANGED <<license, expired, activation>>
  BY DEF ServerTick, ServerRestart
<1>4. activate' \in [Activates -> ActivateRow] /\ validating' \in BOOLEAN /\ Creating' \subseteq Creating
  <2>1. CASE ServerTick
    BY <1>1, <2>1 DEF ServerTick, LicenseServerInv, LicenseServerTypeOK, Creating, At
  <2>2. CASE ServerRestart
    BY <1>2, <2>2 DEF ServerRestart, Creating, At
  <2> QED
    BY <2>1, <2>2
<1>5. ASSUME NEW k \in BucketKeys
      PROVE  /\ bucket'[k] \in BucketRow /\ admitted'[k] \in AdmittedRow /\ WindowIsCounted(k)'
  <2>1. admitted[k] \in [1..RateWindow -> Nat] /\ bucket[k] \in BucketRow
    BY <1>1 DEF AdmittedRow
  <2>2. CASE ServerTick
    <3>1. /\ bucket'[k] = IF bucket[k].left <= 0 THEN NoBucket ELSE [bucket[k] EXCEPT !.left = @ - 1]
          /\ admitted'[k] = [n \in 1..RateWindow |-> IF n = 1 THEN 0 ELSE admitted[k][n - 1]]
      BY <2>2 DEF ServerTick
    <3>2. \A n \in 1..RateWindow : n # 1 => n - 1 \in 1..RateWindow
      BY <1>1
    <3>3. admitted'[k] \in AdmittedRow
      <4>1. \A n \in 1..RateWindow : (IF n = 1 THEN 0 ELSE admitted[k][n - 1]) \in Nat
        BY <2>1, <3>2
      <4> QED
        BY <3>1, <4>1 DEF AdmittedRow
    <3>4. 1 \in 1..RateWindow
      BY <1>1
    <3>5. bucket'[k] \in BucketRow
      BY <2>1, <3>1, <3>4, TickHasRoom
    <3>6. ASSUME NEW n \in 1..RateWindow
          PROVE  admitted'[k][n] <= Room(bucket'[k], n)
      <4>1. 0 <= Room(bucket'[k], n) /\ (n # 1 => Room(bucket[k], n - 1) <= Room(bucket'[k], n))
        BY <2>1, <3>1, TickHasRoom
      <4>2. CASE n = 1
        BY <3>1, <4>1, <4>2
      <4>3. CASE n # 1
        <5>1. n - 1 \in 1..RateWindow /\ admitted'[k][n] = admitted[k][n - 1]
          BY <3>1, <3>2, <4>3
        <5>2. admitted[k][n - 1] <= Room(bucket[k], n - 1) /\ admitted[k][n - 1] \in Nat
          BY <2>1, <5>1 DEF LicenseServerInv, WindowIsCounted
        <5>3. n - 1 \in Int /\ n \in Int
          BY <1>1
        <5>4. Room(bucket[k], n - 1) \in Int /\ Room(bucket'[k], n) \in Int
          BY <2>1, <3>5, <5>3, RoomIsInt
        <5> QED
          BY <4>1, <4>3, <5>1, <5>2, <5>4
      <4> QED
        BY <4>2, <4>3
    <3> QED
      BY <3>3, <3>5, <3>6 DEF WindowIsCounted, Room
  <2>3. CASE ServerRestart
    <3>1. bucket'[k] = NoBucket /\ admitted'[k] = [n \in 1..RateWindow |-> 0]
      BY <2>3 DEF ServerRestart
    <3>2. NoBucket \in BucketRow /\ \A n \in 1..RateWindow : 0 <= Room(NoBucket, n)
      BY <1>1 DEF NoBucket, BucketRow, Room
    <3> QED
      BY <3>1, <3>2 DEF WindowIsCounted, Room, AdmittedRow
  <2> QED
    BY <2>2, <2>3
<1>6. bucket' \in [BucketKeys -> BucketRow] /\ admitted' \in [BucketKeys -> AdmittedRow]
  BY <1>5 DEF ServerTick, ServerRestart
<1>7. LicenseServerTypeOK'
  BY <1>3, <1>4, <1>6 DEF LicenseServerInv, LicenseServerTypeOK, ActivateRow, BucketRow, AdmittedRow
<1>8. Active' \subseteq Active
  BY <1>3 DEF Active
<1>9. ActivationsAreBounded'
  BY <1>4, <1>8, NoMoreActive DEF LicenseServerInv
<1> QED
  BY <1>5, <1>7, <1>9 DEF LicenseServerInv

\* Every step keeps the invariant.
LEMMA LicenseServerInvStep ==
  LicenseServerInv /\ [LicenseServerNext]_licenseServerVars => LicenseServerInv'
<1> SUFFICES ASSUME LicenseServerInv, [LicenseServerNext]_licenseServerVars
             PROVE  LicenseServerInv'
  OBVIOUS
<1>1. ASSUME NEW q \in Activates, ReadLicense(q) \/ ReadActivation(q)
      PROVE  LicenseServerInv'
  <2>1. UNCHANGED <<license, expired, activation, bucket, validating, admitted>>
    BY <1>1 DEF ReadLicense, ReadActivation
  <2>2. {"existing", "count"} \subseteq ActivateSteps \ {"create"}
    BY DEF ActivateSteps
  <2>3. MoveOn(q, "existing") \/ MoveOn(q, "count") \/ Answer(q)
    BY <1>1 DEF ReadLicense, ReadActivation
  <2> QED
    BY <2>1, <2>2, <2>3, MoveKeeps
<1>2. CASE UNCHANGED <<bucket, activate, admitted>> /\ Active' \subseteq Active /\ LicenseServerTypeOK'
  <2>1. Creating' \subseteq Creating
    BY <1>2 DEF Creating, At
  <2>2. ActivationsAreBounded'
    BY <1>2, <2>1, NoMoreActive DEF LicenseServerInv
  <2> QED
    BY <1>2, <2>2 DEF LicenseServerInv, WindowIsCounted, Room
<1>3. ASSUME NEW i \in Installs, Deactivate(i)
      PROVE  LicenseServerInv'
  BY <1>2, <1>3 DEF Deactivate, Active, LicenseServerInv, LicenseServerTypeOK
<1>4. CASE Validate
  BY <1>2, <1>4 DEF Validate, Active, LicenseServerInv, LicenseServerTypeOK
<1>5. CASE LicenseChanges
  BY <1>2, <1>5 DEF LicenseChanges, Active, LicenseServerInv, LicenseServerTypeOK
<1>6. CASE UNCHANGED licenseServerVars
  BY <1>2, <1>6 DEF licenseServerVars, Active, LicenseServerInv, LicenseServerTypeOK
<1> QED
  BY <1>1, <1>3, <1>4, <1>5, <1>6, ArrivesKeeps, CountKeeps, CreateKeeps, ServerTickKeeps
     DEF LicenseServerNext

\* More installations than the tier allows are active only by the requests between the
\* count and the create, for any number of installations and requests and any limit.
THEOREM ActivationOverrun == LicenseServerSpec => []ActivationsAreBounded
<1>1. LicenseServerInv => ActivationsAreBounded
  BY DEF LicenseServerInv
<1> QED
  BY <1>1, LicenseServerInvInit, LicenseServerInvStep, PTL DEF LicenseServerSpec

\* The rows and the buckets keep their types, and the counts their bounds.
THEOREM LicenseServerTypeCorrect == LicenseServerSpec => []LicenseServerTypeOK
<1>1. LicenseServerInv => LicenseServerTypeOK
  BY DEF LicenseServerInv
<1> QED
  BY <1>1, LicenseServerInvInit, LicenseServerInvStep, PTL DEF LicenseServerSpec

\* The limit of requests per window bounds any span as long as a window by twice that
\* number, for any window, any limit and any number of addresses, whenever the requests
\* come and the server is restarted.
THEOREM AdmissionOverrun == LicenseServerSpec => []AdmissionIsBounded
<1>1. LicenseServerInv => AdmissionIsBounded
  <2> SUFFICES ASSUME LicenseServerInv, NEW k \in BucketKeys
               PROVE  admitted[k][RateWindow] <= 2 * RateMax
    BY DEF AdmissionIsBounded
  <2>1. RateMax \in Nat /\ RateWindow \in Nat \ {0} /\ RateWindow \in 1..RateWindow
    BY LicenseServerAssumption
  <2>2. bucket[k] \in BucketRow /\ admitted[k] \in AdmittedRow
    BY DEF LicenseServerInv, LicenseServerTypeOK, BucketRow, AdmittedRow
  <2>3. admitted[k][RateWindow] \in Nat /\ admitted[k][RateWindow] <= Room(bucket[k], RateWindow)
    BY <2>1, <2>2 DEF LicenseServerInv, WindowIsCounted, AdmittedRow
  <2>4. bucket[k].count \in 0..RateMax + 1 /\ bucket[k].left \in -1..RateWindow
    BY <2>2 DEF BucketRow
  <2>5. Room(bucket[k], RateWindow) \in Int /\ Room(bucket[k], RateWindow) <= 2 * RateMax
    BY <2>1, <2>4 DEF Room
  <2> QED
    BY <2>1, <2>3, <2>5
<1> QED
  BY <1>1, LicenseServerInvInit, LicenseServerInvStep, PTL DEF LicenseServerSpec
=============================================================================
