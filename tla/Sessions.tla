------------------------------- MODULE Sessions -------------------------------
(***************************************************************************)
(* The sessions of a user: the refresh tokens of AuthService               *)
(* (backend/src/auth) and the tabs of a browser that hold them             *)
(* (frontend/src/api/client.ts, AuthContext.tsx).                          *)
(*                                                                         *)
(* issueTokens hands out an access token and a refresh token; the two have *)
(* one number here.  All tabs share the local storage, each keeps its own  *)
(* copy of the pair in memory, and the requests of a tab share that copy.  *)
(* The password is right and there is no TOTP: what matters is who holds   *)
(* which token while others refresh, revoke, sign in or leave.             *)
(***************************************************************************)
EXTENDS Naturals, FiniteSets

CONSTANTS
  Tab,
  Request,    \* the requests that can be under way at the same time
  TabOf,      \* TabOf[r]: the tab that request r belongs to
  MaxTokens,  \* bound of the model: pairs of tokens; an insert fails beyond
  MaxFaults   \* bound of the model: broken connections, error answers, revocations,
              \* expired refresh tokens and changes of users.isActive

ASSUME SessionsAssumption ==
  /\ TabOf \in [Request -> Tab]
  /\ MaxTokens \in Nat
  /\ MaxFaults \in Nat

VARIABLES
  active,    \* users.isActive
  rows,      \* the tokens that have a row in refresh_tokens
  age,       \* "new", "old" (access token expired), "expired" (both are)
  issued,    \* how many pairs have been handed out
  session,   \* the first token of the login that a token stems from
  mem,       \* the pair in the memory of each tab, or NoToken
  store,     \* the pair in the local storage, or NoToken
  signedIn,  \* tabs that show a user
  req,       \* the requests: what each is for, where it stands, the token it
             \* carries, whether it is sent for the second time, and whether
             \* nobody waits for it any more
  faults,    \* how many of the bounded faults there were
  disturbed, \* history: sessions that the promises below do not cover
  revoked    \* history: sessions that have been revoked

database == <<active, rows, age, issued, session>>
browser == <<mem, store, signedIn>>
history == <<disturbed, revoked>>
vars == <<database, browser, req, faults, history>>

NoToken == 0
Token == 1 .. MaxTokens
TokenOrNone == Token \union {NoToken}
RefreshPlaces == {"find", "delete", "issue", "insert", "answer", "refused"}
Call == [pc : RefreshPlaces \union {"idle", "call", "denied", "error"},
         kind : {"data", "me", "login"},
         sent : TokenOrNone,
         retried : BOOLEAN,
         lost : BOOLEAN]
Idle == [pc |-> "idle", kind |-> "data", sent |-> NoToken,
         retried |-> FALSE, lost |-> FALSE]

TypeOK ==
  /\ active \in BOOLEAN
  /\ rows \subseteq Token
  /\ age \in [Token -> {"new", "old", "expired"}]
  /\ issued \in 0 .. MaxTokens
  /\ session \in [Token -> TokenOrNone]
  /\ mem \in [Tab -> TokenOrNone]
  /\ store \in TokenOrNone
  /\ signedIn \subseteq Tab
  /\ req \in [Request -> Call]
  /\ faults \in 0 .. MaxFaults
  /\ disturbed \subseteq Token
  /\ revoked \subseteq Token

Init ==
  /\ active = TRUE
  /\ rows = {}
  /\ age = [t \in Token |-> "new"]
  /\ issued = 0
  /\ session = [t \in Token |-> NoToken]
  /\ mem = [b \in Tab |-> NoToken]
  /\ store = NoToken
  /\ signedIn = {}
  /\ req = [r \in Request |-> Idle]
  /\ faults = 0
  /\ disturbed = {}
  /\ revoked = {}

At(r, label) == req[r].pc = label
Goto(r, label) == req' = [req EXCEPT ![r].pc = label]
Busy(r) == ~At(r, "idle")
Waiting(r, kind) == Busy(r) /\ ~req[r].lost /\ req[r].kind = kind
InRefresh(r) == req[r].pc \in RefreshPlaces

\* A request that refreshes session s, from its first step in the server until
\* the answer is there.
Refreshes(r, s) ==
  InRefresh(r) /\ req[r].sent # NoToken /\ session[req[r].sent] = s

Holds(b, s) == mem[b] # NoToken /\ session[mem[b]] = s

SessionsOf(tokens) == {session[t] : t \in tokens \ {NoToken}}
Disturb(tokens) == disturbed' = disturbed \union SessionsOf(tokens)

-----------------------------------------------------------------------------
(* The browser sends a request.                                            *)

Sent(kind, token) ==
  [pc |-> "call", kind |-> kind, sent |-> token,
   retried |-> FALSE, lost |-> FALSE]

\* The pages poll the API.
StartData(r) ==
  /\ At(r, "idle")
  /\ TabOf[r] \in signedIn
  /\ req' = [req EXCEPT ![r] = Sent("data", mem[TabOf[r]])]
  /\ UNCHANGED <<database, browser, faults, history>>

\* The login page is there when the page has found out that nobody is signed
\* in, and its form sends one request at a time.
StartLogin(r) ==
  /\ At(r, "idle")
  /\ TabOf[r] \notin signedIn
  /\ \A q \in Request :
       TabOf[q] = TabOf[r] => ~Waiting(q, "me") /\ ~Waiting(q, "login")
  /\ req' = [req EXCEPT ![r] = Sent("login", NoToken)]
  /\ UNCHANGED <<database, browser, faults, history>>

Orphaned(b) ==
  [q \in Request |-> IF TabOf[q] = b /\ Busy(q)
                     THEN [req[q] EXCEPT !.lost = TRUE] ELSE req[q]]

\* A page is loaded, anew or for the first time: the requests of the old page
\* are dropped and the pair comes from the storage.
NewPage(b) ==
  LET Refreshing == {q \in Request : InRefresh(q)} IN
  /\ mem' = [mem EXCEPT ![b] = store]
  /\ signedIn' = signedIn \ {b}
  /\ Disturb({req[q].sent : q \in {q \in Refreshing : TabOf[q] = b}}
               \union {t \in {store} \ {NoToken} :
                         \E q \in Refreshing : Refreshes(q, session[t])})
  /\ UNCHANGED <<database, store, faults, revoked>>

\* With a pair, the page asks who it is.
Load(r) ==
  /\ At(r, "idle")
  /\ store # NoToken
  /\ NewPage(TabOf[r])
  /\ req' = [Orphaned(TabOf[r]) EXCEPT ![r] = Sent("me", store)]

LoadLoginPage(b) ==
  /\ store = NoToken
  /\ b \in signedIn \/ mem[b] # NoToken
  /\ NewPage(b)
  /\ req' = Orphaned(b)

\* AuthContext forgets the user and both copies; nothing is sent, and nothing
\* that is under way is stopped: the answer to a refresh brings tokens back.
SignOut(b) ==
  /\ b \in signedIn
  /\ signedIn' = signedIn \ {b}
  /\ mem' = [mem EXCEPT ![b] = NoToken]
  /\ store' = NoToken
  /\ Disturb({req[r].sent : r \in {r \in Request : TabOf[r] = b /\ InRefresh(r)}})
  /\ UNCHANGED <<database, req, faults, revoked>>

-----------------------------------------------------------------------------
(* The server handles a request.                                           *)

Authorized(t) == t # NoToken /\ age[t] = "new" /\ active

\* JwtStrategy looks the user up; nothing looks at the refresh tokens.
HandleCall(r) ==
  /\ At(r, "call")
  /\ req[r].kind # "login"
  /\ IF Authorized(req[r].sent)
     THEN /\ req' = [req EXCEPT ![r] = Idle]
          /\ signedIn' = IF Waiting(r, "me") THEN signedIn \union {TabOf[r]}
                                             ELSE signedIn
     ELSE Goto(r, "denied") /\ UNCHANGED signedIn
  /\ UNCHANGED <<database, mem, store, faults, history>>

HandleLogin(r) ==
  /\ At(r, "call")
  /\ req[r].kind = "login"
  /\ Goto(r, IF active THEN "issue" ELSE "denied")
  /\ UNCHANGED <<database, browser, faults, history>>

MutantOneAge(t) == t \in rows /\ age[t] = "new"

Valid(t) == t \in rows /\ age[t] # "expired"

FindToken(r) ==
  /\ At(r, "find")
  /\ Goto(r, IF Valid(req[r].sent) THEN "delete" ELSE "refused")
  /\ UNCHANGED <<database, browser, faults, history>>

MutantDeletesNothing(r) == TRUE

\* delete throws when the row has gone since it was found.
Deletes(r) == req[r].sent \in rows

DeleteToken(r) ==
  /\ At(r, "delete")
  /\ rows' = rows \ {req[r].sent}
  /\ Goto(r, IF Deletes(r) THEN "issue" ELSE "refused")
  /\ UNCHANGED <<active, age, issued, session, browser, faults, history>>

IsLogin(r) == req[r].sent = NoToken

\* issueTokens resolves the user first.  The refusal of a login is a 401 like
\* that of any other call, the one of a refresh is for tryRefresh.
Resolved(r) ==
  IF active THEN "insert" ELSE IF IsLogin(r) THEN "denied" ELSE "refused"

ResolveUser(r) ==
  /\ At(r, "issue")
  /\ Goto(r, Resolved(r))
  /\ UNCHANGED <<database, browser, faults, history>>

New == issued + 1

\* The answer carries the new pair; from here on `sent` names it.
InsertToken(r) ==
  /\ At(r, "insert")
  /\ issued < MaxTokens
  /\ issued' = New
  /\ rows' = rows \union {New}
  /\ session' = [session EXCEPT ![New] =
                   IF IsLogin(r) THEN New ELSE session[req[r].sent]]
  /\ req' = [req EXCEPT ![r].sent = New, ![r].pc = "answer"]
  /\ UNCHANGED <<active, age, browser, faults, history>>

-----------------------------------------------------------------------------
(* The browser handles an answer.                                          *)

SetTokens(b, t) ==
  /\ mem' = [mem EXCEPT ![b] = t]
  /\ store' = t

\* An error that reaches the caller; that of "me" forgets the tokens.
Throw(r) ==
  IF req[r].kind = "me" THEN SetTokens(TabOf[r], NoToken)
                        ELSE UNCHANGED <<mem, store>>

OtherHolders(r, s) ==
  \/ \E b \in Tab \ {TabOf[r]} : Holds(b, s)
  \/ \E q \in Request \ {r} : Refreshes(q, s)

\* api calls tryRefresh after a first 401, with the token of the moment.  A
\* session is disturbed when another tab or request has a token of it too.
HandleDenied(r) ==
  LET t == mem[TabOf[r]] IN
  /\ At(r, "denied")
  /\ ~req[r].lost
  /\ IF req[r].retried \/ t = NoToken
     THEN /\ req' = [req EXCEPT ![r] = Idle]
          /\ Throw(r)
          /\ UNCHANGED disturbed
     ELSE /\ req' = [req EXCEPT ![r].pc = "find", ![r].sent = t]
          /\ Disturb({x \in {t} : OtherHolders(r, session[x])})
          /\ UNCHANGED <<mem, store>>
  /\ UNCHANGED <<database, signedIn, faults, revoked>>

\* tryRefresh forgets the tokens of the tab, whichever they are by now.
HandleRefused(r) ==
  /\ At(r, "refused")
  /\ ~req[r].lost
  /\ SetTokens(TabOf[r], NoToken)
  /\ req' = [req EXCEPT ![r] = Idle]
  /\ UNCHANGED <<database, signedIn, faults, history>>

\* api throws on every other error, and so tryRefresh is not called.  AuthContext does
\* not look at the error of "me": any of them ends the session that the tab has.
HandleError(r) ==
  /\ At(r, "error")
  /\ ~req[r].lost
  /\ Throw(r)
  /\ req' = [req EXCEPT ![r] = Idle]
  /\ Disturb({t \in {mem[TabOf[r]]} : req[r].kind = "me"})
  /\ UNCHANGED <<database, signedIn, faults, revoked>>

MutantKept(r) ==
  IF mem[TabOf[r]] = NoToken THEN req[r].sent ELSE mem[TabOf[r]]

Received(r) == req[r].sent

\* The tokens of a login end it.  A login that arrives while another request of
\* the tab refreshes may be overwritten by the answer to that.
LoginAnswered(r) ==
  /\ session[req[r].sent] = req[r].sent
  /\ req' = [req EXCEPT ![r] = Idle]
  /\ signedIn' = signedIn \union {TabOf[r]}
  /\ Disturb({t \in {req[r].sent} : \E q \in Request \ {r} :
                TabOf[q] = TabOf[r] /\ InRefresh(q) /\ ~req[q].lost})

\* After a refresh the call is repeated, once, with the new access token.
RefreshAnswered(r) ==
  /\ session[req[r].sent] # req[r].sent
  /\ req' = [req EXCEPT ![r].pc = "call",
                        ![r].retried = TRUE,
                        ![r].sent = IF req[r].kind = "login" THEN NoToken ELSE @]
  /\ UNCHANGED <<signedIn, disturbed>>

HandleAnswer(r) ==
  /\ At(r, "answer")
  /\ ~req[r].lost
  /\ SetTokens(TabOf[r], Received(r))
  /\ LoginAnswered(r) \/ RefreshAnswered(r)
  /\ UNCHANGED <<database, faults, revoked>>

\* Nobody waits for the answer.
HandleLost(r) ==
  /\ req[r].lost
  /\ req[r].pc \in {"denied", "refused", "error", "answer"}
  /\ req' = [req EXCEPT ![r] = Idle]
  /\ UNCHANGED <<database, browser, faults, history>>

-----------------------------------------------------------------------------
(* What happens around them.                                               *)

Fault ==
  /\ faults < MaxFaults
  /\ faults' = faults + 1

\* The insert of a token fails in the database, as every one does in the model
\* when the tokens are used up.
InsertFails(r) ==
  /\ At(r, "insert")
  /\ IF issued < MaxTokens THEN Fault ELSE UNCHANGED faults
  /\ Goto(r, IF IsLogin(r) THEN "error" ELSE "refused")
  /\ Disturb({req[r].sent})
  /\ UNCHANGED <<database, browser, revoked>>

\* A request is answered with an error that is no 401: by the rate limiter (429), by
\* LockedGuard (503), by the database that fails (500) or by a proxy.  tryRefresh takes
\* every answer that is not ok for a refusal.
Rejects(r) ==
  /\ req[r].pc \in {"call", "find", "delete", "issue"}
  /\ Fault
  /\ Goto(r, IF InRefresh(r) /\ ~IsLogin(r) THEN "refused" ELSE "error")
  /\ Disturb({t \in {req[r].sent} : InRefresh(r)})
  /\ UNCHANGED <<database, browser, revoked>>

\* fetch throws while the request is under way; the server may go on with it.
Break(r) ==
  /\ Busy(r)
  /\ ~req[r].lost
  /\ Fault
  /\ req' = [req EXCEPT ![r].lost = TRUE]
  /\ Throw(r)
  /\ Disturb({t \in {req[r].sent} : InRefresh(r)}
               \union {t \in {mem[TabOf[r]]} : req[r].kind = "me"})
  /\ UNCHANGED <<database, signedIn, revoked>>

\* Time passes: 15 minutes for an access token, which is longer than its
\* answer and a call with it take, and 7 days for both.
Age(t) ==
  /\ t <= issued
  /\ \A r \in Request : req[r].pc \in {"call", "answer"} => req[r].sent # t
  /\ \/ /\ age[t] = "new"
        /\ age' = [age EXCEPT ![t] = "old"]
        /\ UNCHANGED <<disturbed, faults>>
     \/ /\ age[t] = "old"
        /\ age' = [age EXCEPT ![t] = "expired"]
        /\ Disturb({t})
        /\ Fault
  /\ UNCHANGED <<active, rows, issued, session, browser, req, revoked>>

\* Between the delete and the insert a session has no row to revoke.
Between(s) ==
  \E r \in Request : req[r].pc \in {"issue", "insert"} /\ Refreshes(r, s)

\* logout and revokeSession delete one row, revokeAllSessions all of them; the
\* user must be active to ask for it.
Revoke ==
  /\ active
  /\ \E gone \in {rows} \union {{t} : t \in rows} :
       /\ gone # {}
       /\ Fault
       /\ rows' = rows \ gone
       /\ Disturb(gone)
       /\ revoked' = revoked \union {s \in SessionsOf(gone) : ~Between(s)}
       /\ UNCHANGED <<active, age, issued, session, browser, req>>

\* An administrator changes users.isActive.
Toggle ==
  /\ Fault
  /\ active' = ~active
  /\ disturbed' = Token
  /\ UNCHANGED <<rows, age, issued, session, browser, req, revoked>>

-----------------------------------------------------------------------------
Step(r) ==
  \/ HandleCall(r)
  \/ HandleLogin(r)
  \/ FindToken(r)
  \/ DeleteToken(r)
  \/ ResolveUser(r)
  \/ InsertToken(r)
  \/ InsertFails(r)
  \/ Rejects(r)
  \/ HandleDenied(r)
  \/ HandleRefused(r)
  \/ HandleError(r)
  \/ HandleAnswer(r)
  \/ HandleLost(r)

Next ==
  \/ \E r \in Request :
       \/ StartData(r)
       \/ StartLogin(r)
       \/ Load(r)
       \/ Step(r)
       \/ Break(r)
  \/ \E b \in Tab : SignOut(b) \/ LoadLoginPage(b)
  \/ \E t \in Token : Age(t)
  \/ Revoke
  \/ Toggle

Spec == Init /\ [][Next]_vars
-----------------------------------------------------------------------------
(* Properties.                                                             *)

\* Rotation: a login has at most one refresh token at any time, although two
\* refreshes may both find the row of the same token before either deletes it.
OneRowPerLogin ==
  \A t, u \in rows : session[t] = session[u] => t = u

\* A session whose row was revoked never gets a row again: the refresh that had
\* found the row before fails to delete it.
RevokedStaysRevoked ==
  \A t \in rows : session[t] \notin revoked

\* Sessions are disturbed by revocations and expiry, by a user made inactive, by broken
\* connections, by error answers other than a 401 (to a refresh, or to the call for the
\* user when a page is loaded), by page loads and logins that overlap a refresh, and by
\* two holders of one token that refresh at once.

\* As long as nothing has disturbed a session, every tab that holds a token of
\* it holds the one that the server accepts, or is waiting for its successor.
HeldTokenIsLive ==
  \A b \in Tab :
    LET t == mem[b] IN
    t # NoToken /\ session[t] \notin disturbed =>
      \/ t \in rows
      \/ \E r \in Request : TabOf[r] = b /\ InRefresh(r) /\ ~req[r].lost

\* A tab does not lose the tokens of such a session, but by signing out or with
\* an empty storage, which another tab may have left.
TokensAreKept ==
  [][\A b \in Tab :
       mem[b] # NoToken /\ mem'[b] = NoToken =>
         \/ b \in signedIn /\ b \notin signedIn'
         \/ store = NoToken
         \/ session[mem[b]] \in disturbed']_vars
=============================================================================
