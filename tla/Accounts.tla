---- MODULE Accounts ----
\* The accounts of the panel: password reset and second factor of AuthService,
\* UsersService, RolesController and the seeding at the start of SeedService.
\*
\* A one-time token (a TOTP login that waits for its code, or a reset link) is read
\* by a request, which then works for a while and uses the token up later: the
\* statements of several requests interleave.  The sessions that are issued are the
\* subject of module Sessions; here a session counts as entered.
EXTENDS Integers, FiniteSets

CONSTANTS OneTimeTokens,  \* tokens of either kind
          Logins,         \* requests under way at once
          Secrets,        \* TOTP secrets that are generated; 0 for none
          Passwords,
          Permissions,    \* PERMISSIONS
          RoleNames,      \* roles, system roles among them
          SystemRoles     \* ROLES: name -> permissions

VARIABLES account,        \* the User row
          setup,          \* Redis totp_setup:<user>
          token,          \* the one-time tokens
          login,          \* requests with a one-time token, or a totpConfirm
          role,           \* tables Role and RolePermission
          seeding,        \* what SeedService has left to do, "up" when it is through
          spent,          \* history: tokens with which a request has been carried out
          reused          \* history: a request was carried out with a token that had
                          \* been spent before the request arrived

accountVars == <<account, setup, token, login, role, seeding, spent, reused>>

NoAccount == [present |-> FALSE, known |-> FALSE, active |-> FALSE, password |-> 0, secret |-> 0]
NoLogin == [kind |-> "none", token |-> 0, value |-> 0, late |-> FALSE]
NoRole == [present |-> FALSE, system |-> FALSE, permissions |-> {}]

AccountTypeOK ==
  /\ account \in [present : BOOLEAN, known : BOOLEAN, active : BOOLEAN,
                  password : Passwords \cup {0}, secret : Secrets \cup {0}]
  /\ setup \in Secrets \cup {0}
  /\ token \in [OneTimeTokens -> {"none", "totp", "reset", "gone"}]
  /\ \A q \in Logins :
       login[q].kind \in {"none", "code", "spend", "issue", "hash", "confirm"}
  /\ role \in [RoleNames -> [present : BOOLEAN, system : BOOLEAN, permissions : SUBSET Permissions]]
  /\ seeding \in [grants : SUBSET (RoleNames \X Permissions), admin : BOOLEAN]
  /\ spent \subseteq OneTimeTokens
  /\ reused \in BOOLEAN

Seeds == [grants |-> UNION {{n} \X SystemRoles[n] : n \in DOMAIN SystemRoles}, admin |-> TRUE]
SeedingDone == [grants |-> {}, admin |-> FALSE]
PanelIsUp == seeding = SeedingDone

AccountInit ==
  /\ account = NoAccount
  /\ setup = 0
  /\ token = [t \in OneTimeTokens |-> "none"]
  /\ login = [q \in Logins |-> NoLogin]
  /\ role = [n \in RoleNames |-> NoRole]
  /\ seeding = Seeds
  /\ spent = {} /\ reused = FALSE

----
\* onApplicationBootstrap: upserts that leave alone what is there.  The admin is
\* looked up, and created with the role admin if he is missing.
SeedGrant(n, p) ==
  /\ <<n, p>> \in seeding.grants
  /\ role' = [role EXCEPT ![n] = [present |-> TRUE,
                                  system |-> IF @.present THEN @.system ELSE TRUE,
                                  permissions |-> @.permissions \cup {p}]]
  /\ seeding' = [seeding EXCEPT !.grants = @ \ {<<n, p>>}]
  /\ UNCHANGED <<account, setup, token, login, spent, reused>>

SeedAdmin ==
  /\ seeding.grants = {} /\ seeding.admin
  /\ account' = IF account.known THEN account
                ELSE [present |-> TRUE, known |-> TRUE, active |-> TRUE,
                      password |-> CHOOSE p \in Passwords : TRUE, secret |-> 0]
  /\ seeding' = SeedingDone
  /\ UNCHANGED <<setup, token, login, role, spent, reused>>

\* The process dies, at any point; its requests end without an answer.
PanelRestarts ==
  /\ seeding' = Seeds
  /\ login' = [q \in Logins |-> NoLogin]
  /\ UNCHANGED <<account, setup, token, role, spent, reused>>

----
\* RolesController.  The role is read before the transaction; isSystem never changes.
CreateRole(n, ps) ==
  /\ PanelIsUp /\ ~role[n].present /\ ps # {}
  /\ role' = [role EXCEPT ![n] = [present |-> TRUE, system |-> FALSE, permissions |-> ps]]
  /\ UNCHANGED <<account, setup, token, login, seeding, spent, reused>>

UpdateRole(n, ps) ==
  /\ PanelIsUp /\ role[n].present /\ ~role[n].system
  /\ role' = [role EXCEPT ![n].permissions = ps]
  /\ UNCHANGED <<account, setup, token, login, seeding, spent, reused>>

\* Refused while a user has the role, by the count or by the foreign key.
DeleteRole(n) ==
  /\ PanelIsUp /\ role[n].present /\ ~role[n].system
  /\ role' = [role EXCEPT ![n] = NoRole]
  /\ UNCHANGED <<account, setup, token, login, seeding, spent, reused>>

----
\* UsersService.update by an administrator, and remove: the reset tokens of the user
\* go with him, the pending logins stay in Redis.
UpdateUser ==
  /\ PanelIsUp /\ account.present
  /\ \E b \in BOOLEAN, p \in Passwords : account' = [account EXCEPT !.active = b, !.password = p]
  /\ UNCHANGED <<setup, token, login, role, seeding, spent, reused>>

RemoveUser ==
  /\ PanelIsUp /\ account.present
  /\ account' = [NoAccount EXCEPT !.known = TRUE]
  /\ token' = [t \in OneTimeTokens |-> IF token[t] = "reset" THEN "gone" ELSE token[t]]
  /\ UNCHANGED <<setup, login, role, seeding, spent, reused>>

\* changePassword and totpDisable take what the user presents from the row they read.
ChangePassword(p) ==
  /\ PanelIsUp /\ account.present
  /\ account' = [account EXCEPT !.password = p]
  /\ UNCHANGED <<setup, token, login, role, seeding, spent, reused>>

TotpDisable ==
  /\ PanelIsUp /\ account.present /\ account.secret # 0
  /\ account' = [account EXCEPT !.secret = 0]
  /\ UNCHANGED <<setup, token, login, role, seeding, spent, reused>>

TotpSetup(s) ==
  /\ PanelIsUp /\ account.present /\ account.secret = 0
  /\ setup' = s
  /\ UNCHANGED <<account, token, login, role, seeding, spent, reused>>

\* totpConfirm reads the setup, whose code the user proves, and stores what it read.
TotpConfirm(q) ==
  /\ PanelIsUp /\ login[q].kind = "none" /\ setup # 0
  /\ login' = [login EXCEPT ![q] = [NoLogin EXCEPT !.kind = "confirm", !.value = setup]]
  /\ UNCHANGED <<account, setup, token, role, seeding, spent, reused>>

StoreSecret(q) ==
  /\ login[q].kind = "confirm" /\ account.present
  /\ account' = [account EXCEPT !.secret = login[q].value]
  /\ setup' = 0
  /\ login' = [login EXCEPT ![q] = NoLogin]
  /\ UNCHANGED <<token, role, seeding, spent, reused>>

----
\* The first half of a login of a user with a second factor; forgotPassword.
Login(t) ==
  /\ PanelIsUp /\ token[t] = "none"
  /\ account.present /\ account.active /\ account.secret # 0
  /\ token' = [token EXCEPT ![t] = "totp"]
  /\ UNCHANGED <<account, setup, login, role, seeding, spent, reused>>

ForgotPassword(t) ==
  /\ PanelIsUp /\ token[t] = "none" /\ account.present
  /\ token' = [token EXCEPT ![t] = "reset"]
  /\ UNCHANGED <<account, setup, login, role, seeding, spent, reused>>

TokenExpires(t) ==
  /\ token[t] \in {"totp", "reset"}
  /\ token' = [token EXCEPT ![t] = "gone"]
  /\ UNCHANGED <<account, setup, login, role, seeding, spent, reused>>

\* loginTotp up to the redis.get, resetPassword up to the findUnique; a token that is
\* gone is refused.
Present(q, t) ==
  /\ PanelIsUp /\ login[q].kind = "none"
  /\ token[t] \in {"totp", "reset"}
  /\ login' = [login EXCEPT ![q] =
       [kind |-> IF token[t] = "totp" THEN "code" ELSE "hash",
        token |-> t, value |-> 0, late |-> t \in spent]]
  /\ UNCHANGED <<account, setup, token, role, seeding, spent, reused>>

\* The code is checked against the secret the user has now.
CheckCode(q) ==
  /\ login[q].kind = "code"
  /\ account.present /\ account.secret # 0
  /\ login' = [login EXCEPT ![q].kind = "spend"]
  /\ UNCHANGED <<account, setup, token, role, seeding, spent, reused>>

\* (Defect for a mutant run: the token stays.)
MutantSpent(t) == token

Spent(t) == [token EXCEPT ![t] = "gone"]

SpendPending(q) ==
  /\ login[q].kind = "spend"
  /\ token' = Spent(login[q].token)
  /\ login' = [login EXCEPT ![q].kind = "issue"]
  /\ UNCHANGED <<account, setup, role, seeding, spent, reused>>

CarriedOut(q) ==
  /\ spent' = spent \cup {login[q].token}
  /\ reused' = (reused \/ login[q].late)
  /\ login' = [login EXCEPT ![q] = NoLogin]

IssueTokens(q) ==
  /\ login[q].kind = "issue"
  /\ account.present /\ account.active
  /\ CarriedOut(q)
  /\ UNCHANGED <<account, setup, token, role, seeding>>

\* The transaction of resetPassword: the new password and usedAt, whether or not
\* the link has been used since it was read.
CommitReset(q, p) ==
  /\ login[q].kind = "hash" /\ account.present
  /\ account' = [account EXCEPT !.password = p]
  /\ token' = Spent(login[q].token)
  /\ CarriedOut(q)
  /\ UNCHANGED <<setup, role, seeding>>

\* A wrong code, a user without a secret, disabled or removed, a statement that fails.
LoginFails(q) ==
  /\ login[q].kind # "none"
  /\ login' = [login EXCEPT ![q] = NoLogin]
  /\ UNCHANGED <<account, setup, token, role, seeding, spent, reused>>

----
AccountNext ==
  \/ \E n \in RoleNames, p \in Permissions : SeedGrant(n, p)
  \/ SeedAdmin
  \/ PanelRestarts
  \/ \E n \in RoleNames, ps \in SUBSET Permissions : CreateRole(n, ps) \/ UpdateRole(n, ps)
  \/ \E n \in RoleNames : DeleteRole(n)
  \/ UpdateUser
  \/ RemoveUser
  \/ \E p \in Passwords : ChangePassword(p)
  \/ TotpDisable
  \/ \E s \in Secrets : TotpSetup(s)
  \/ \E t \in OneTimeTokens : Login(t) \/ ForgotPassword(t) \/ TokenExpires(t)
  \/ \E q \in Logins :
       \/ TotpConfirm(q) \/ StoreSecret(q)
       \/ \E t \in OneTimeTokens : Present(q, t)
       \/ CheckCode(q) \/ SpendPending(q) \/ IssueTokens(q)
       \/ \E p \in Passwords : CommitReset(q, p)
       \/ LoginFails(q)

AccountSpec == AccountInit /\ [][AccountNext]_accountVars

----
\* A one-time token does its work for the requests that were under way when it was
\* spent, at most: a request that comes later with a spent code token or a spent
\* reset link is refused.
SpentTokensAreRefused == ~reused

\* A panel that answers requests has its system roles complete, whatever restarts
\* interrupted their seeding and whatever has been done to roles since.
SystemRolesAreComplete ==
  PanelIsUp => \A n \in DOMAIN SystemRoles : SystemRoles[n] \subseteq role[n].permissions
====
