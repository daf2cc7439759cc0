-------------------------------- MODULE Entry --------------------------------
(***************************************************************************)
(* What a browser shows before the panel: App with useSystemPhase, the      *)
(* session that AuthProvider takes up, and ActivationPage, in front of a    *)
(* backend that is locked until a license has been activated.               *)
(*                                                                         *)
(* The license is reduced to the phase of the installation; License and     *)
(* LicenseLock have the rest.                                               *)
(***************************************************************************)
EXTENDS Naturals

CONSTANT MaxReloads  \* bound of the model: reloads of the page

VARIABLES
  phase,    \* the phase of the installation
  entered,  \* the phase that App knows: "loading" until it has been read
  token,    \* whether the browser keeps tokens
  user,     \* whether AuthProvider has a user; "loading" before /auth/me
  form,     \* where ActivationPage stands
  path,     \* "/" or another path
  reloads   \* number of reloads

session == <<token, user>>
entryVars == <<phase, entered, session, form, path, reloads>>

Locked == phase \in {"locked", "activating"}

\* What App renders.
Screen ==
  CASE "loading" \in {entered, user} -> "spinner"
    [] "loading" \notin {entered, user} /\ entered \in {"locked", "activating"} -> "activation"
    [] OTHER -> IF user = "signed in" THEN "panel" ELSE "login"

Start ==
  /\ entered = "loading"
  /\ user = "loading"
  /\ form = "loading"

EntryInit ==
  /\ phase \in {"locked", "active"}
  /\ token \in BOOLEAN
  /\ path \in {"/", "elsewhere"}
  /\ reloads = 0
  /\ Start

-----------------------------------------------------------------------------
(* App and AuthProvider.                                                   *)

\* Runs once per load of the page.  A read that fails counts as active.
LoadPhase ==
  /\ entered = "loading"
  /\ entered' \in {phase, "active"}
  /\ UNCHANGED <<phase, session, form, path, reloads>>

\* /auth/me is not among the paths that LockedGuard allows; whatever makes it
\* fail, the tokens are thrown away.
LoadUser ==
  /\ user = "loading"
  /\ \/ token /\ ~Locked /\ user' = "signed in" /\ UNCHANGED token
     \/ user' = "none" /\ token' = FALSE
  /\ UNCHANGED <<phase, entered, form, path, reloads>>

SignIn ==
  /\ Screen = "login"
  /\ token' = TRUE
  /\ user' = "signed in"
  /\ path' = "/"
  /\ UNCHANGED <<phase, entered, form, reloads>>

SignOut ==
  /\ Screen = "panel"
  /\ token' = FALSE
  /\ user' = "none"
  /\ path' = "elsewhere"
  /\ UNCHANGED <<phase, entered, form, reloads>>

\* By the user.
Reload ==
  /\ reloads < MaxReloads
  /\ reloads' = reloads + 1
  /\ entered' = "loading"
  /\ user' = "loading"
  /\ form' = "loading"
  /\ UNCHANGED <<phase, token, path>>

-----------------------------------------------------------------------------
(* ActivationPage and the backend.                                         *)

\* A read that finds the phase active leads to "/" at once.
FetchState ==
  /\ Screen = "activation"
  /\ form = "loading"
  /\ \/ form' = "failed" /\ UNCHANGED path
     \/ form' = "ready" /\ path' = IF phase = "active" THEN "/" ELSE path
  /\ UNCHANGED <<phase, entered, session, reloads>>

\* A key is sent: the backend is activating until the license server has
\* answered.  Without a license server the button for self-hosting has the
\* same effect in one statement.
Activate ==
  /\ Screen = "activation"
  /\ form = "ready"
  /\ form' = "sending"
  /\ phase' = IF phase = "locked" THEN "activating" ELSE phase
  /\ UNCHANGED <<entered, session, path, reloads>>

Answer ==
  /\ form = "sending"
  /\ \/ phase' = "active" /\ form' = "success"
     \/ phase' = "locked" /\ form' = "ready"
  /\ UNCHANGED <<entered, session, path, reloads>>

\* Two seconds after the success.
Redirect ==
  /\ form = "success"
  /\ path # "/"
  /\ path' = "/"
  /\ UNCHANGED <<phase, entered, session, form, reloads>>

\* Somebody else activates the installation.
PhaseTurns ==
  /\ phase = "locked"
  /\ phase' = "active"
  /\ UNCHANGED <<entered, session, form, path, reloads>>

EntryNext ==
  \/ LoadPhase
  \/ LoadUser
  \/ SignIn
  \/ SignOut
  \/ Reload
  \/ FetchState
  \/ Activate
  \/ Answer
  \/ Redirect
  \/ PhaseTurns

\* Requests are answered and timers run; users do as they like.
EntrySpec ==
  /\ EntryInit
  /\ [][EntryNext]_entryVars
  /\ WF_entryVars(LoadPhase)
  /\ WF_entryVars(LoadUser)
  /\ WF_entryVars(FetchState)
  /\ WF_entryVars(Answer)
  /\ WF_entryVars(Redirect)

-----------------------------------------------------------------------------
(* Properties.                                                             *)

\* What ActivationPage says after the activation: the user is led on within
\* seconds, and so does not stay on that page.
LedOn == form = "success" ~> Screen # "activation"
=============================================================================
