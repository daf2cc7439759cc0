--------------------------- MODULE SessionsProofs ---------------------------
(* Proofs about Sessions: rotation leaves a login one refresh token, a     *)
(* revoked session stays without one, and a tab has and keeps a token that *)
(* the server accepts while nothing disturbs its session, for any number   *)
(* of tabs, requests and tokens.                                           *)
EXTENDS Sessions, TLAPS

\* Tokens are handed out in order, and belong to a session from then on.
IssuedInv ==
  /\ \A t \in Token : t <= issued => session[t] \in 1 .. issued
  /\ \A t \in rows : t <= issued
  /\ \A t \in revoked : t <= issued
  /\ \A r \in Request : req[r].sent <= issued
  /\ \A b \in Tab : mem[b] <= issued
  /\ store <= issued

\* A request that refreshes carries the token; a login carries none until it is
\* answered.
SentInv ==
  \A r \in Request :
    /\ req[r].pc \in {"find", "delete"} => req[r].sent # NoToken
    /\ At(r, "call") /\ req[r].kind = "login" => req[r].sent = NoToken

\* A request that has deleted the row of session s and not inserted the next.
Owns(r, s) == req[r].pc \in {"issue", "insert"} /\ Refreshes(r, s)

\* Either one row or one request has the turn of a session, and no request has
\* the turn of a revoked one.
TurnInv ==
  /\ \A t \in rows, r \in Request : ~Owns(r, session[t])
  /\ \A q, r \in Request, s \in Token : Owns(q, s) /\ Owns(r, s) => q = r
  /\ \A r \in Request, s \in revoked : ~Owns(r, s)

SessionsInv ==
  /\ TypeOK
  /\ IssuedInv
  /\ SentInv
  /\ TurnInv
  /\ OneRowPerLogin
  /\ RevokedStaysRevoked

-----------------------------------------------------------------------------

\* Initially nobody has a token.
LEMMA InitSessions == Init => SessionsInv
<1> SUFFICES ASSUME Init
             PROVE  SessionsInv
  OBVIOUS
<1> USE SessionsAssumption DEF Init, Token, NoToken, TokenOrNone
<1>1. Idle \in Call
  BY DEF Idle, Call
<1>2. TypeOK
  BY <1>1 DEF TypeOK
<1>3. IssuedInv /\ SentInv
  BY DEF IssuedInv, SentInv, Idle, At
<1>4. TurnInv /\ OneRowPerLogin /\ RevokedStaysRevoked
  BY DEF TurnInv, Owns, Idle, OneRowPerLogin, RevokedStaysRevoked
<1> QED
  BY <1>2, <1>3, <1>4 DEF SessionsInv

\* A request that goes on, keeping the rest of its record, stays a request.
LEMMA GotoType ==
  ASSUME req \in [Request -> Call], NEW r \in Request,
         NEW label \in RefreshPlaces \union {"idle", "call", "denied", "error"},
         Goto(r, label)
  PROVE  /\ req' \in [Request -> Call]
         /\ req'[r].pc = label /\ req'[r].sent = req[r].sent
         /\ req'[r].kind = req[r].kind
         /\ \A q \in Request : q # r => req'[q] = req[q]
  BY DEF Goto, Call

\* Sessions that are disturbed have been issued.
LEMMA DisturbType ==
  ASSUME TypeOK, IssuedInv, NEW tokens, Disturb(tokens),
         \A t \in tokens : t \in TokenOrNone /\ t <= issued
  PROVE  disturbed' \subseteq Token
<1>1. ASSUME NEW t \in tokens, t # NoToken
      PROVE  session[t] \in Token
  <2>1. t \in Token /\ t <= issued /\ issued \in 0 .. MaxTokens
    BY <1>1 DEF TypeOK, TokenOrNone
  <2>2. session[t] \in 1 .. issued
    BY <2>1 DEF IssuedInv
  <2> QED
    BY <2>1, <2>2, SessionsAssumption DEF Token
<1> QED
  BY <1>1 DEF TypeOK, Disturb, SessionsOf

\* Every step keeps the requests requests.
LEMMA RequestStep == SessionsInv /\ [Next]_vars => req' \in [Request -> Call]
<1> SUFFICES ASSUME SessionsInv, [Next]_vars
             PROVE  req' \in [Request -> Call]
  OBVIOUS
<1> USE SessionsAssumption
        DEF SessionsInv, TypeOK, TokenOrNone, NoToken, RefreshPlaces
<1>1. Idle \in Call
  BY DEF Idle, Call
<1>2. \A kind \in {"data", "me", "login"}, t \in TokenOrNone :
        Sent(kind, t) \in Call
  BY DEF Sent, Call
<1>3. ASSUME NEW r \in Request, StartData(r) \/ StartLogin(r)
      PROVE  req' \in [Request -> Call]
  BY <1>2, <1>3 DEF StartData, StartLogin
<1>4. ASSUME NEW b \in Tab
      PROVE  Orphaned(b) \in [Request -> Call]
  BY ZenonT(60) DEF Orphaned, Call
<1>5. ASSUME NEW r \in Request, Load(r)
      PROVE  req' \in [Request -> Call]
  <2>1. Sent("me", store) \in Call /\ TabOf[r] \in Tab
    BY <1>2
  <2> QED
    BY <1>4, <1>5, <2>1 DEF Load
<1>6. ASSUME NEW b \in Tab, SignOut(b) \/ LoadLoginPage(b)
      PROVE  req' \in [Request -> Call]
  BY <1>4, <1>6 DEF SignOut, LoadLoginPage
<1>7. ASSUME NEW r \in Request, HandleCall(r)
      PROVE  req' \in [Request -> Call]
  BY <1>1, <1>7, GotoType DEF HandleCall
<1>8. ASSUME NEW r \in Request,
             HandleLogin(r) \/ FindToken(r) \/ DeleteToken(r)
               \/ ResolveUser(r) \/ InsertFails(r) \/ Rejects(r)
      PROVE  req' \in [Request -> Call]
  BY <1>8, GotoType
     DEF HandleLogin, FindToken, DeleteToken, ResolveUser, Resolved, InsertFails, Rejects
<1>9. ASSUME NEW r \in Request, InsertToken(r)
      PROVE  req' \in [Request -> Call]
  <2>1. New \in TokenOrNone
    BY <1>9 DEF InsertToken, New, Token
  <2>2. [req[r] EXCEPT !.sent = New, !.pc = "answer"] \in Call
    BY <2>1, ZenonT(60) DEF Call
  <2> QED
    BY <1>9, <2>2 DEF InsertToken
<1>10. ASSUME NEW r \in Request, HandleDenied(r)
       PROVE  req' \in [Request -> Call]
  <2>1. mem[TabOf[r]] \in TokenOrNone
    OBVIOUS
  <2> QED
    BY <1>1, <1>10, <2>1 DEF HandleDenied, Call
<1>11. ASSUME NEW r \in Request,
              HandleRefused(r) \/ HandleError(r) \/ HandleLost(r)
       PROVE  req' \in [Request -> Call]
  BY <1>1, <1>11 DEF HandleRefused, HandleError, HandleLost
<1>12. ASSUME NEW r \in Request, HandleAnswer(r)
       PROVE  req' \in [Request -> Call]
  <2>1. CASE LoginAnswered(r)
    BY <1>1, <2>1 DEF LoginAnswered
  <2>2. CASE RefreshAnswered(r)
    <3> DEFINE t == IF req[r].kind = "login" THEN NoToken ELSE req[r].sent
    <3>1. req[r] \in Call
      OBVIOUS
    <3>2. t \in TokenOrNone
      BY <3>1 DEF Call
    <3>3. [req[r] EXCEPT !.pc = "call", !.retried = TRUE, !.sent = t] \in Call
      BY <3>1, <3>2 DEF Call
    <3> QED
      BY <2>2, <3>3 DEF RefreshAnswered
  <2> QED
    BY <1>12, <2>1, <2>2 DEF HandleAnswer
<1>13. ASSUME NEW r \in Request, Break(r)
       PROVE  req' \in [Request -> Call]
  <2>1. [req[r] EXCEPT !.lost = TRUE] \in Call
    BY DEF Call
  <2> QED
    BY <1>13, <2>1 DEF Break
<1>14. ASSUME UNCHANGED req
       PROVE  req' \in [Request -> Call]
  BY <1>14
<1> QED
  BY <1>3, <1>5, <1>6, <1>7, <1>8, <1>9, <1>10, <1>11, <1>12, <1>13, <1>14
     DEF Next, Step, Age, Revoke, Toggle, vars

\* Every step keeps the tokens that anybody holds among those handed out, and
\* the account of sessions.
LEMMA IssuedStep == SessionsInv /\ [Next]_vars => IssuedInv' /\ SentInv'
<1> DEFINE Goal == IssuedInv' /\ SentInv'
<1> SUFFICES ASSUME SessionsInv, [Next]_vars
             PROVE  Goal
  OBVIOUS
<1> req' \in [Request -> Call]
  BY RequestStep
<1> USE SessionsAssumption DEF SessionsInv, TypeOK, TokenOrNone, NoToken
<1> DEFINE
      Database == UNCHANGED <<issued, session>> /\ rows' \subseteq rows
      Browser == /\ \A b \in Tab : mem'[b] <= issued
                 /\ store' <= issued
      Carried(r) ==
        /\ req'[r].sent <= issued
        /\ req'[r].pc \in {"find", "delete"} => req'[r].sent # NoToken
        /\ At(r, "call")' /\ req'[r].kind = "login" => req'[r].sent = NoToken
<1>1. ASSUME Database, Browser, revoked' = revoked, \A r \in Request : Carried(r)
      PROVE  Goal
  BY <1>1 DEF IssuedInv, SentInv
<1>2. ASSUME NEW r \in Request, req'[r] = req[r]
      PROVE  Carried(r)
  BY <1>2 DEF IssuedInv, SentInv, At
<1>3. ASSUME NEW r \in Request, req'[r] = Idle
      PROVE  Carried(r)
  BY <1>3 DEF IssuedInv, Idle, At
<1>4. ASSUME UNCHANGED <<mem, store>>
      PROVE  Browser
  BY <1>4 DEF IssuedInv
<1>5. ASSUME NEW b \in Tab, NEW t \in TokenOrNone, t <= issued, SetTokens(b, t)
      PROVE  Browser
  BY <1>5 DEF SetTokens, IssuedInv
<1>6. ASSUME NEW r \in Request, Throw(r)
      PROVE  Browser
  <2>1. TabOf[r] \in Tab /\ NoToken \in TokenOrNone /\ NoToken <= issued
    OBVIOUS
  <2> QED
    BY <1>4, <1>5, <1>6, <2>1 DEF Throw
<1>7. ASSUME NEW r \in Request, StartData(r) \/ StartLogin(r)
      PROVE  Goal
  <2>1. Database /\ Browser /\ revoked' = revoked
    BY <1>4, <1>7 DEF StartData, StartLogin, database, browser, history
  <2>2. Carried(r)
    BY <1>7 DEF StartData, StartLogin, Sent, IssuedInv, At
  <2>3. \A q \in Request \ {r} : req'[q] = req[q]
    BY <1>7 DEF StartData, StartLogin
  <2> QED
    BY <1>1, <1>2, <2>1, <2>2, <2>3
<1>8. ASSUME NEW b \in Tab, NEW q \in Request
      PROVE  /\ Orphaned(b)[q].pc = req[q].pc
             /\ Orphaned(b)[q].sent = req[q].sent
             /\ Orphaned(b)[q].kind = req[q].kind
  BY DEF Orphaned, Call
<1>9. ASSUME NEW b \in Tab, NewPage(b)
      PROVE  Database /\ Browser /\ revoked' = revoked
  BY <1>9 DEF NewPage, database, IssuedInv
<1>10. ASSUME NEW r \in Request, Load(r)
       PROVE  Goal
  <2>1. TabOf[r] \in Tab
    OBVIOUS
  <2>2. Database /\ Browser /\ revoked' = revoked
    BY <1>9, <1>10, <2>1 DEF Load
  <2>3. Carried(r)
    BY <1>10 DEF Load, Orphaned, Sent, IssuedInv, At
  <2>4. ASSUME NEW q \in Request \ {r}
        PROVE  Carried(q)
    <3>1. req'[q] = Orphaned(TabOf[r])[q]
      BY <1>10 DEF Load, Orphaned
    <3> QED
      BY <1>8, <2>1, <3>1 DEF IssuedInv, SentInv, At
  <2> QED
    BY <1>1, <2>2, <2>3, <2>4
<1>11. ASSUME NEW b \in Tab, LoadLoginPage(b)
       PROVE  Goal
  <2>1. Database /\ Browser /\ revoked' = revoked
    BY <1>9, <1>11 DEF LoadLoginPage
  <2>2. \A q \in Request : Carried(q)
    BY <1>8, <1>11 DEF LoadLoginPage, IssuedInv, SentInv, At
  <2> QED
    BY <1>1, <2>1, <2>2
<1>12. ASSUME NEW b \in Tab, SignOut(b)
       PROVE  Goal
  <2>1. Database /\ Browser /\ revoked' = revoked /\ req' = req
    BY <1>12 DEF SignOut, database, IssuedInv
  <2> QED
    BY <1>1, <1>2, <2>1
<1>13. ASSUME NEW r \in Request, NEW label \in {"denied", "issue", "delete",
                "refused", "insert", "error"},
              Goto(r, label), label = "delete" => req[r].sent # NoToken
       PROVE  \A q \in Request : Carried(q)
  <2>1. Carried(r)
    BY <1>13, GotoType DEF IssuedInv, At, RefreshPlaces
  <2>2. \A q \in Request \ {r} : req'[q] = req[q]
    BY <1>13 DEF Goto
  <2> QED
    BY <1>2, <2>1, <2>2
<1>14. ASSUME NEW r \in Request, req' = [req EXCEPT ![r] = Idle]
       PROVE  \A q \in Request : Carried(q)
  <2>1. req'[r] = Idle /\ \A q \in Request \ {r} : req'[q] = req[q]
    BY <1>14
  <2> QED
    BY <1>2, <1>3, <2>1
<1>15. ASSUME NEW r \in Request, HandleCall(r)
       PROVE  Goal
  <2>1. Database /\ Browser /\ revoked' = revoked
    BY <1>4, <1>15 DEF HandleCall, database, history
  <2>2. req' = [req EXCEPT ![r] = Idle] \/ Goto(r, "denied")
    BY <1>15 DEF HandleCall
  <2> QED
    BY <1>1, <1>13, <1>14, <2>1, <2>2
<1>16. ASSUME NEW r \in Request,
              \/ HandleLogin(r) \/ FindToken(r) \/ DeleteToken(r)
              \/ ResolveUser(r) \/ InsertFails(r) \/ Rejects(r)
       PROVE  Goal
  <2>1. Database /\ Browser /\ revoked' = revoked
    BY <1>4, <1>16 DEF HandleLogin, FindToken, DeleteToken, ResolveUser,
                       InsertFails, Rejects, database, browser, history
  <2>2. \E label \in {"denied", "issue", "delete", "refused", "insert", "error"} :
          Goto(r, label) /\ (label = "delete" => At(r, "find"))
    BY <1>16 DEF HandleLogin, FindToken, DeleteToken, ResolveUser, Resolved,
                 InsertFails, Rejects
  <2>3. At(r, "find") => req[r].sent # NoToken
    BY DEF At, SentInv
  <2> QED
    BY <1>1, <1>13, <2>1, <2>2, <2>3
<1>17. ASSUME NEW r \in Request, InsertToken(r)
       PROVE  Goal
  <2>1. New \in Token /\ New = issued + 1 /\ issued' = New
    BY <1>17 DEF InsertToken, New, Token
  <2>2. req'[r].sent = New /\ req'[r].pc = "answer"
    BY <1>17 DEF InsertToken, Call
  <2>3. \A q \in Request \ {r} : req'[q] = req[q]
    BY <1>17 DEF InsertToken
  <2>4. \A q \in Request : req[q].sent \in TokenOrNone
    BY DEF Call
  <2>5. /\ session'[New] \in 1 .. New
        /\ \A t \in Token : t # New => session'[t] = session[t]
    <3>1. req[r].sent # NoToken => session[req[r].sent] \in 1 .. issued
      BY <2>4 DEF IssuedInv, Token
    <3> QED
      BY <1>17, <2>1, <3>1 DEF InsertToken, IsLogin
  <2>6. rows' = rows \union {New} /\ UNCHANGED <<mem, store, revoked>>
    BY <1>17 DEF InsertToken, browser, history
  <2>7. IssuedInv'
    <3>1. \A t \in Token : t <= issued' => session'[t] \in 1 .. issued'
      BY <2>1, <2>5 DEF IssuedInv, Token
    <3>2. /\ \A t \in rows' : t <= issued'
          /\ \A t \in revoked' : t <= issued'
      BY <2>1, <2>6 DEF IssuedInv, Token
    <3>3. \A q \in Request : req'[q].sent <= issued'
      BY <2>1, <2>2, <2>3, <2>4, SMTT(30) DEF IssuedInv, Token
    <3>4. (\A b \in Tab : mem'[b] <= issued') /\ store' <= issued'
      BY <2>1, <2>6 DEF IssuedInv, Token
    <3> QED
      BY <3>1, <3>2, <3>3, <3>4 DEF IssuedInv
  <2>8. SentInv'
    BY <2>2, <2>3 DEF SentInv, At
  <2> QED
    BY <2>7, <2>8
<1>18. ASSUME NEW r \in Request, HandleDenied(r)
       PROVE  Goal
  <2> DEFINE t == mem[TabOf[r]]
  <2>1. Database /\ revoked' = revoked
    BY <1>18 DEF HandleDenied, database
  <2>2. CASE req[r].retried \/ t = NoToken
    BY <1>1, <1>6, <1>14, <1>18, <2>1, <2>2 DEF HandleDenied
  <2>3. CASE ~(req[r].retried \/ t = NoToken)
    <3>1. /\ req' = [req EXCEPT ![r].pc = "find", ![r].sent = t]
          /\ UNCHANGED <<mem, store>>
      BY <1>18, <2>3 DEF HandleDenied
    <3>2. req'[r].pc = "find" /\ req'[r].sent = t
      BY <3>1 DEF Call
    <3>3. Carried(r)
      BY <2>3, <3>2 DEF IssuedInv, At
    <3>4. \A q \in Request \ {r} : req'[q] = req[q]
      BY <3>1
    <3> QED
      BY <1>1, <1>2, <1>4, <2>1, <3>1, <3>3, <3>4
  <2> QED
    BY <2>2, <2>3
<1>19. ASSUME NEW r \in Request,
              HandleRefused(r) \/ HandleError(r) \/ HandleLost(r)
       PROVE  Goal
  <2>1. Database /\ revoked' = revoked /\ req' = [req EXCEPT ![r] = Idle]
    BY <1>19 DEF HandleRefused, HandleError, HandleLost, database, history
  <2>2. TabOf[r] \in Tab /\ NoToken \in TokenOrNone /\ NoToken <= issued
    OBVIOUS
  <2>3. Browser
    BY <1>4, <1>5, <1>6, <1>19, <2>2
       DEF HandleRefused, HandleError, HandleLost, browser
  <2> QED
    BY <1>1, <1>14, <2>1, <2>3
<1>20. ASSUME NEW r \in Request, HandleAnswer(r)
       PROVE  Goal
  <2>1. Database /\ revoked' = revoked
    BY <1>20 DEF HandleAnswer, database
  <2>2. TabOf[r] \in Tab /\ req[r].sent \in TokenOrNone /\ req[r].sent <= issued
    BY DEF IssuedInv, Call
  <2>3. Browser
    BY <1>5, <1>20, <2>2 DEF HandleAnswer, Received
  <2>4. CASE LoginAnswered(r)
    BY <1>1, <1>14, <2>1, <2>3, <2>4 DEF LoginAnswered
  <2>5. CASE RefreshAnswered(r)
    <3> DEFINE t == IF req[r].kind = "login" THEN NoToken ELSE req[r].sent
    <3>1. /\ req'[r].pc = "call" /\ req'[r].sent = t
          /\ req'[r].kind = req[r].kind
      BY <2>5 DEF RefreshAnswered, Call
    <3>2. Carried(r)
      BY <2>2, <3>1 DEF At
    <3>3. \A q \in Request \ {r} : req'[q] = req[q]
      BY <2>5 DEF RefreshAnswered
    <3> QED
      BY <1>1, <1>2, <2>1, <2>3, <3>2, <3>3
  <2> QED
    BY <1>20, <2>4, <2>5 DEF HandleAnswer
<1>21. ASSUME NEW r \in Request, Break(r)
       PROVE  Goal
  <2>1. Database /\ Browser /\ revoked' = revoked
    BY <1>6, <1>21 DEF Break, database
  <2>2. /\ req'[r].pc = req[r].pc /\ req'[r].sent = req[r].sent
        /\ req'[r].kind = req[r].kind
    BY <1>21 DEF Break, Call
  <2>3. \A q \in Request \ {r} : req'[q] = req[q]
    BY <1>21 DEF Break
  <2>4. Carried(r)
    BY <2>2 DEF IssuedInv, SentInv, At
  <2> QED
    BY <1>1, <1>2, <2>1, <2>3, <2>4
<1>22. ASSUME UNCHANGED <<mem, store, req>>, Database, revoked' = revoked
       PROVE  Goal
  BY <1>1, <1>2, <1>4, <1>22
<1>23. CASE Revoke
  <2>1. Database /\ UNCHANGED <<mem, store, req>>
    BY <1>23 DEF Revoke, browser
  <2>2. \A s \in revoked' : s \in revoked \/ s \in SessionsOf(rows)
    BY <1>23 DEF Revoke, SessionsOf
  <2>3. \A s \in SessionsOf(rows) : s <= issued
    BY DEF SessionsOf, IssuedInv, Token
  <2> QED
    BY <1>2, <1>4, <2>1, <2>2, <2>3 DEF IssuedInv, SentInv
<1>24. ASSUME (\E t \in Token : Age(t)) \/ Toggle
       PROVE  Goal
  BY <1>22, <1>24 DEF Age, Toggle, browser
<1>25. CASE UNCHANGED vars
  BY <1>22, <1>25 DEF vars, database, browser, history
<1> QED
  BY <1>7, <1>10, <1>11, <1>12, <1>15, <1>16, <1>17, <1>18, <1>19, <1>20,
     <1>21, <1>23, <1>24, <1>25 DEF Next, Step

\* Every step keeps the disturbed sessions among those handed out.
LEMMA DisturbedStep == SessionsInv /\ [Next]_vars => disturbed' \subseteq Token
<1> SUFFICES ASSUME SessionsInv, [Next]_vars
             PROVE  disturbed' \subseteq Token
  OBVIOUS
<1> USE SessionsAssumption DEF SessionsInv
<1>1. ASSUME disturbed' = disturbed
      PROVE  disturbed' \subseteq Token
  BY <1>1 DEF TypeOK
<1>2. /\ \A b \in Tab : mem[b] \in TokenOrNone /\ mem[b] <= issued
      /\ store \in TokenOrNone /\ store <= issued
      /\ \A r \in Request : /\ req[r].sent \in TokenOrNone
                             /\ req[r].sent <= issued
                             /\ TabOf[r] \in Tab
      /\ \A t \in rows : t \in TokenOrNone /\ t <= issued
  BY DEF TypeOK, Call, IssuedInv, TokenOrNone
<1>3. ASSUME NEW b \in Tab, NewPage(b) \/ SignOut(b)
      PROVE  disturbed' \subseteq Token
  BY <1>2, <1>3, DisturbType DEF NewPage, SignOut
<1>4. ASSUME NEW r \in Request, InsertFails(r) \/ Rejects(r)
      PROVE  disturbed' \subseteq Token
  BY <1>2, <1>4, DisturbType DEF InsertFails, Rejects
<1>5. ASSUME NEW r \in Request, HandleDenied(r)
      PROVE  disturbed' \subseteq Token
  <2>1. CASE disturbed' = disturbed
    BY <1>1, <2>1
  <2>2. CASE Disturb({x \in {mem[TabOf[r]]} : OtherHolders(r, session[x])})
    BY <1>2, <2>2, DisturbType
  <2> QED
    BY <1>5, <2>1, <2>2 DEF HandleDenied
<1>6. ASSUME NEW r \in Request, HandleAnswer(r)
      PROVE  disturbed' \subseteq Token
  BY <1>1, <1>2, <1>6, DisturbType
     DEF HandleAnswer, LoginAnswered, RefreshAnswered
<1>7. ASSUME NEW r \in Request, Break(r) \/ HandleError(r)
      PROVE  disturbed' \subseteq Token
  BY <1>2, <1>7, DisturbType DEF Break, HandleError
<1>8. ASSUME NEW t \in Token, Age(t)
      PROVE  disturbed' \subseteq Token
  BY <1>1, <1>8, DisturbType DEF Age, TokenOrNone
<1>9. CASE Revoke
  BY <1>2, <1>9, DisturbType DEF Revoke
<1>10. CASE Toggle
  BY <1>10 DEF Toggle
<1>11. ASSUME NEW r \in Request,
              \/ StartData(r) \/ StartLogin(r) \/ HandleCall(r)
              \/ HandleLogin(r) \/ FindToken(r) \/ DeleteToken(r)
              \/ ResolveUser(r) \/ InsertToken(r) \/ HandleRefused(r)
              \/ HandleLost(r)
       PROVE  disturbed' \subseteq Token
  BY <1>1, <1>11
     DEF StartData, StartLogin, HandleCall, HandleLogin, FindToken,
         DeleteToken, ResolveUser, InsertToken, HandleRefused, HandleLost, history
<1>12. CASE UNCHANGED vars
  BY <1>1, <1>12 DEF vars, history
<1> QED
  BY <1>2, <1>3, <1>4, <1>5, <1>6, <1>7, <1>8, <1>9, <1>10, <1>11, <1>12
     DEF Next, Step, Load, LoadLoginPage

\* Every step keeps every variable in its type.
LEMMA SessionsTypeStep == SessionsInv /\ [Next]_vars => TypeOK'
<1> SUFFICES ASSUME SessionsInv, [Next]_vars
             PROVE  TypeOK'
  OBVIOUS
<1> USE SessionsAssumption DEF SessionsInv, TypeOK, TokenOrNone, NoToken
<1>1. req' \in [Request -> Call] /\ disturbed' \subseteq Token
  BY RequestStep, DisturbedStep
<1>2. \A r \in Request : req[r].sent \in TokenOrNone /\ TabOf[r] \in Tab
  BY DEF Call
<1> DEFINE Rest ==
      /\ active' \in BOOLEAN
      /\ rows' \subseteq Token
      /\ age' \in [Token -> {"new", "old", "expired"}]
      /\ issued' \in 0 .. MaxTokens
      /\ session' \in [Token -> TokenOrNone]
      /\ mem' \in [Tab -> TokenOrNone]
      /\ store' \in TokenOrNone
      /\ signedIn' \subseteq Tab
      /\ faults' \in 0 .. MaxFaults
      /\ revoked' \subseteq Token
<1> SUFFICES Rest
  BY <1>1
<1> USE DEF database, browser, history
<1>3. ASSUME NEW r \in Request,
             \/ StartData(r) \/ StartLogin(r) \/ HandleCall(r)
             \/ HandleLogin(r) \/ FindToken(r) \/ DeleteToken(r)
             \/ ResolveUser(r) \/ HandleLost(r)
      PROVE  Rest
  BY <1>2, <1>3
     DEF StartData, StartLogin, HandleCall, HandleLogin, FindToken,
         DeleteToken, ResolveUser, HandleLost
<1>4. ASSUME NEW b \in Tab, NewPage(b) \/ SignOut(b)
      PROVE  Rest
  BY <1>4 DEF NewPage, SignOut
<1>5. ASSUME Fault
      PROVE  faults' \in 0 .. MaxFaults
  BY <1>5 DEF Fault
<1>6. ASSUME NEW r \in Request, InsertFails(r) \/ Rejects(r)
      PROVE  Rest
  BY <1>5, <1>6 DEF InsertFails, Rejects
<1>7. ASSUME NEW r \in Request, InsertToken(r)
      PROVE  Rest
  <2>1. New \in Token /\ issued' \in 0 .. MaxTokens
    BY <1>7 DEF InsertToken, New, Token
  <2>2. session' \in [Token -> TokenOrNone]
    BY <1>2, <1>7, <2>1 DEF InsertToken, IsLogin
  <2> QED
    BY <1>7, <2>1, <2>2 DEF InsertToken
<1>8. ASSUME NEW r \in Request, Throw(r) \/ SetTokens(TabOf[r], NoToken)
      PROVE  mem' \in [Tab -> TokenOrNone] /\ store' \in TokenOrNone
  BY <1>2, <1>8 DEF Throw, SetTokens
<1>9. ASSUME NEW r \in Request,
             HandleDenied(r) \/ HandleRefused(r) \/ HandleError(r)
      PROVE  Rest
  BY <1>8, <1>9 DEF HandleDenied, HandleRefused, HandleError
<1>10. ASSUME NEW r \in Request, HandleAnswer(r)
       PROVE  Rest
  BY <1>2, <1>10
     DEF HandleAnswer, SetTokens, Received, LoginAnswered, RefreshAnswered
<1>11. ASSUME NEW r \in Request, Break(r)
       PROVE  Rest
  BY <1>5, <1>8, <1>11 DEF Break
<1>12. ASSUME NEW t \in Token, Age(t)
       PROVE  Rest
  BY <1>5, <1>12 DEF Age
<1>13. CASE Revoke
  <2>1. SessionsOf(rows) \subseteq Token
    BY DEF SessionsOf, IssuedInv, Token
  <2>2. revoked' \subseteq revoked \union SessionsOf(rows)
    BY <1>13 DEF Revoke, SessionsOf
  <2> QED
    BY <1>5, <1>13, <2>1, <2>2 DEF Revoke
<1>14. CASE Toggle
  BY <1>5, <1>14 DEF Toggle
<1>15. CASE UNCHANGED vars
  BY <1>15 DEF vars
<1> QED
  BY <1>2, <1>3, <1>4, <1>6, <1>7, <1>9, <1>10, <1>11, <1>12, <1>13, <1>14,
     <1>15 DEF Next, Step, Load, LoadLoginPage

\* Who has the turn of a session got it by deleting its row, or has had it
\* before.
LEMMA TurnTaken ==
  ASSUME SessionsInv, Next, NEW q \in Request, ~DeleteToken(q),
         req'[q].pc \in {"issue", "insert"}, req'[q].sent # NoToken
  PROVE  req[q].pc \in {"issue", "insert"} /\ req'[q].sent = req[q].sent
<1> DEFINE Had == req[q].pc \in {"issue", "insert"} /\ req'[q].sent = req[q].sent
<1> SUFFICES Had
  OBVIOUS
<1> USE SessionsAssumption DEF SessionsInv
<1> req \in [Request -> Call] /\ req' \in [Request -> Call]
  BY RequestStep DEF TypeOK
<1>1. ASSUME req'[q] = req[q] \/ req'[q] = Idle
      PROVE  Had
  BY <1>1 DEF Idle
<1>2. ASSUME NEW b \in Tab
      PROVE  Orphaned(b)[q].pc = req[q].pc /\ Orphaned(b)[q].sent = req[q].sent
  BY DEF Orphaned, Call
<1>3. ASSUME NEW r \in Request, StartData(r) \/ StartLogin(r)
      PROVE  Had
  BY <1>1, <1>3 DEF StartData, StartLogin, Sent
<1>4. ASSUME NEW r \in Request, Load(r)
      PROVE  Had
  <2>1. TabOf[r] \in Tab
    OBVIOUS
  <2>2. CASE q = r
    BY <1>4, <2>2 DEF Load, Orphaned, Sent
  <2>3. CASE q # r
    <3>1. req'[q] = Orphaned(TabOf[r])[q]
      BY <1>4, <2>3 DEF Load, Orphaned
    <3> QED
      BY <1>2, <2>1, <3>1
  <2> QED
    BY <2>2, <2>3
<1>5. ASSUME NEW b \in Tab, SignOut(b) \/ LoadLoginPage(b)
      PROVE  Had
  BY <1>1, <1>2, <1>5 DEF SignOut, LoadLoginPage
<1>6. ASSUME NEW r \in Request, NEW label \in RefreshPlaces \union
               {"idle", "call", "denied", "error"}, Goto(r, label),
             q = r => label \notin {"issue", "insert"} \/ Had
      PROVE  Had
  BY <1>1, <1>6, GotoType
<1>7. ASSUME NEW r \in Request, HandleCall(r)
      PROVE  Had
  <2>1. CASE req' = [req EXCEPT ![r] = Idle]
    BY <1>1, <2>1
  <2>2. CASE Goto(r, "denied")
    BY <1>6, <2>2
  <2> QED
    BY <1>7, <2>1, <2>2 DEF HandleCall
<1>8. ASSUME NEW r \in Request, HandleLogin(r)
      PROVE  Had
  <2>1. req[r].sent = NoToken
    BY <1>8 DEF HandleLogin, SentInv
  <2>2. Goto(r, "issue") \/ Goto(r, "denied")
    BY <1>8 DEF HandleLogin
  <2>3. req'[r].sent = NoToken
    BY <2>1, <2>2, GotoType DEF RefreshPlaces
  <2>4. q # r
    BY <2>3
  <2>5. req'[q] = req[q]
    BY <2>2, <2>4 DEF Goto
  <2> QED
    BY <1>1, <2>5
<1>9. ASSUME NEW r \in Request, ResolveUser(r)
      PROVE  Had
  <2>1. Goto(r, "insert") \/ Goto(r, "denied") \/ Goto(r, "refused")
    BY <1>9 DEF ResolveUser, Resolved
  <2>2. req'[r].sent = req[r].sent
    BY <2>1, GotoType DEF RefreshPlaces
  <2>3. CASE q = r
    BY <1>9, <2>2, <2>3 DEF ResolveUser, At
  <2>4. CASE q # r
    BY <1>1, <2>1, <2>4 DEF Goto
  <2> QED
    BY <2>3, <2>4
<1>10. ASSUME NEW r \in Request, FindToken(r) \/ InsertFails(r) \/ Rejects(r)
       PROVE  Had
  <2>1. \E label \in {"delete", "refused", "error"} : Goto(r, label)
    BY <1>10 DEF FindToken, InsertFails, Rejects
  <2> QED
    BY <1>6, <2>1 DEF RefreshPlaces
<1>11. ASSUME NEW r \in Request, DeleteToken(r)
       PROVE  Had
  <2>1. q # r
    BY <1>11
  <2>2. req'[q] = req[q]
    BY <1>11, <2>1 DEF DeleteToken, Goto
  <2> QED
    BY <1>1, <2>2
<1>12. ASSUME NEW r \in Request, InsertToken(r)
       PROVE  Had
  <2>1. req'[r].pc = "answer" /\ (q # r => req'[q] = req[q])
    BY <1>12 DEF InsertToken, Call
  <2> QED
    BY <1>1, <2>1
<1>13. ASSUME NEW r \in Request, HandleDenied(r)
       PROVE  Had
  <2>1. req' = [req EXCEPT ![r] = Idle] \/ req'[r].pc = "find"
    BY <1>13 DEF HandleDenied, Call
  <2>2. q # r => req'[q] = req[q]
    BY <1>13 DEF HandleDenied
  <2> QED
    BY <1>1, <2>1, <2>2
<1>14. ASSUME NEW r \in Request,
              HandleRefused(r) \/ HandleError(r) \/ HandleLost(r)
       PROVE  Had
  BY <1>1, <1>14 DEF HandleRefused, HandleError, HandleLost
<1>15. ASSUME NEW r \in Request, HandleAnswer(r)
       PROVE  Had
  <2>1. req' = [req EXCEPT ![r] = Idle] \/ req'[r].pc = "call"
    BY <1>15 DEF HandleAnswer, LoginAnswered, RefreshAnswered, Call
  <2>2. q # r => req'[q] = req[q]
    BY <1>15 DEF HandleAnswer, LoginAnswered, RefreshAnswered
  <2> QED
    BY <1>1, <2>1, <2>2
<1>16. ASSUME NEW r \in Request, Break(r)
       PROVE  Had
  <2>1. req'[r].pc = req[r].pc /\ req'[r].sent = req[r].sent
    BY <1>16 DEF Break, Call
  <2>2. q # r => req'[q] = req[q]
    BY <1>16 DEF Break
  <2> QED
    BY <1>1, <2>1, <2>2
<1>17. ASSUME UNCHANGED req
       PROVE  Had
  BY <1>1, <1>17
<1> QED
  BY <1>3, <1>4, <1>5, <1>7, <1>8, <1>9, <1>10, <1>11, <1>12, <1>13, <1>14,
     <1>15, <1>16, <1>17 DEF Next, Step, Age, Revoke, Toggle

\* Every step leaves the turn of a session with one row or one request.
LEMMA TurnStep ==
  SessionsInv /\ [Next]_vars => TurnInv' /\ OneRowPerLogin' /\ RevokedStaysRevoked'
<1> DEFINE Goal == TurnInv' /\ OneRowPerLogin' /\ RevokedStaysRevoked'
<1> SUFFICES ASSUME SessionsInv, [Next]_vars
             PROVE  Goal
  OBVIOUS
<1> USE SessionsAssumption DEF SessionsInv
<1>1. ASSUME \A q \in Request, s \in Token : Owns(q, s)' => Owns(q, s),
             session' = session, rows' \subseteq rows, revoked' = revoked
      PROVE  Goal
  <2>1. \A t \in rows : session[t] \in Token /\ t \in Token
    BY DEF TypeOK, IssuedInv, Token
  <2>2. \A t \in rows', r \in Request : ~Owns(r, session[t])'
    BY <1>1, <2>1 DEF TurnInv
  <2>3. \A r \in Request, s \in revoked' : ~Owns(r, s)'
    BY <1>1 DEF TurnInv, TypeOK
  <2>4. \A q, r \in Request, s \in Token : Owns(q, s)' /\ Owns(r, s)' => q = r
    BY <1>1 DEF TurnInv
  <2>5. OneRowPerLogin' /\ RevokedStaysRevoked'
    BY <1>1 DEF OneRowPerLogin, RevokedStaysRevoked
  <2> QED
    BY <1>1, <2>2, <2>3, <2>4, <2>5 DEF TurnInv
<1>2. ASSUME Next, NEW q \in Request, ~DeleteToken(q), NEW s,
             session' = session, Owns(q, s)'
      PROVE  Owns(q, s)
  <2>1. /\ req'[q].pc \in {"issue", "insert"} /\ req'[q].sent # NoToken
        /\ session[req'[q].sent] = s
    BY <1>2 DEF Owns, Refreshes
  <2>2. req[q].pc \in {"issue", "insert"} /\ req'[q].sent = req[q].sent
    BY <1>2, <2>1, TurnTaken
  <2> QED
    BY <2>1, <2>2 DEF Owns, Refreshes, InRefresh, RefreshPlaces
<1>3. ASSUME NEW r \in Request, DeleteToken(r)
      PROVE  Goal
  <2> DEFINE t == req[r].sent
             own == session[t]
  <2>1. t \in Token /\ own \in Token /\ t <= issued
    BY <1>3 DEF DeleteToken, SentInv, At, TypeOK, Call, TokenOrNone, IssuedInv,
                Token
  <2>2. session' = session /\ revoked' = revoked /\ rows' = rows \ {t}
    BY <1>3 DEF DeleteToken, history
  <2>3. ASSUME NEW q \in Request, q # r, NEW s, Owns(q, s)'
        PROVE  Owns(q, s)
    <3>1. req'[q] = req[q]
      BY <1>3, <2>3 DEF DeleteToken, Goto
    <3> QED
      BY <2>2, <2>3, <3>1 DEF Owns, Refreshes, InRefresh
  <2>4. CASE Deletes(r)
    <3>1. \A s : Owns(r, s)' => s = own
      BY <1>3, <2>2 DEF DeleteToken, Goto, Owns, Refreshes, TypeOK, Call
    <3>2. t \in rows
      BY <2>4 DEF Deletes
    <3>3. \A u \in rows' : session[u] # own
      BY <2>2, <3>2 DEF OneRowPerLogin
    <3>4. ASSUME NEW q \in Request, q # r, NEW s, Owns(q, s)'
          PROVE  s # own
      <4>1. Owns(q, s)
        BY <2>3, <3>4
      <4> QED
        BY <3>2, <4>1 DEF TurnInv
    <3>5. own \notin revoked
      BY <3>2 DEF RevokedStaysRevoked
    <3>6. \A u \in rows', q \in Request : ~Owns(q, session[u])'
      BY <2>2, <2>3, <3>1, <3>3 DEF TurnInv
    <3>7. ASSUME NEW p \in Request, NEW q \in Request, NEW s \in Token,
                 Owns(p, s)', Owns(q, s)'
          PROVE  p = q
      <4>1. CASE p = r \/ q = r
        BY <3>1, <3>4, <3>7, <4>1
      <4>2. CASE p # r /\ q # r
        <5>1. Owns(p, s) /\ Owns(q, s)
          BY <2>3, <3>7, <4>2
        <5> QED
          BY <5>1 DEF TurnInv
      <4> QED
        BY <4>1, <4>2
    <3>8. \A q \in Request, s \in revoked' : ~Owns(q, s)'
      BY <2>2, <2>3, <3>1, <3>5 DEF TurnInv
    <3>9. OneRowPerLogin' /\ RevokedStaysRevoked'
      BY <2>2 DEF OneRowPerLogin, RevokedStaysRevoked
    <3> QED
      BY <2>2, <3>6, <3>7, <3>8, <3>9 DEF TurnInv
  <2>5. CASE ~Deletes(r)
    <3>1. \A s : ~Owns(r, s)'
      BY <1>3, <2>5 DEF DeleteToken, Goto, Owns, TypeOK, Call
    <3> QED
      BY <1>1, <2>2, <2>3, <3>1
  <2> QED
    BY <2>4, <2>5
<1>4. ASSUME NEW r \in Request, InsertToken(r)
      PROVE  Goal
  <2> DEFINE own == session'[New]
  <2>1. /\ New \in Token /\ New > issued
        /\ rows' = rows \union {New} /\ revoked' = revoked
        /\ \A t \in Token : t # New => session'[t] = session[t]
        /\ own = IF IsLogin(r) THEN New ELSE session[req[r].sent]
    BY <1>4 DEF InsertToken, New, Token, history, TypeOK
  <2>2. \A t \in rows : t # New /\ session'[t] = session[t]
    BY <2>1 DEF IssuedInv, TypeOK, Token
  <2>3. \A q \in Request : req[q].sent \in TokenOrNone /\ req[q].sent # New
    BY <2>1 DEF IssuedInv, TypeOK, Token, Call, TokenOrNone, NoToken
  <2>4. \A s : ~Owns(r, s)'
    BY <1>4 DEF InsertToken, Owns, TypeOK, Call
  <2>5. ASSUME NEW q \in Request, q # r, NEW s, Owns(q, s)'
        PROVE  Owns(q, s)
    <3>1. req'[q] = req[q]
      BY <1>4, <2>5 DEF InsertToken, TypeOK
    <3>2. req[q].pc \in {"issue", "insert"} /\ req[q].sent # NoToken
            /\ session'[req[q].sent] = s
      BY <2>5, <3>1 DEF Owns, Refreshes
    <3>3. session'[req[q].sent] = session[req[q].sent]
      BY <2>1, <2>3, <3>2 DEF TokenOrNone
    <3> QED
      BY <3>2, <3>3 DEF Owns, Refreshes, InRefresh, RefreshPlaces
  <2>6. CASE IsLogin(r)
    <3>1. \A t \in rows : session[t] # New
      BY <2>1 DEF IssuedInv, TypeOK, Token
    <3>2. New \notin revoked
      BY <2>1 DEF IssuedInv, TypeOK, Token
    <3>3. \A q \in Request : ~Owns(q, New)
      <4>1. ASSUME NEW q \in Request, Owns(q, New)
            PROVE  FALSE
        <5>1. req[q].sent \in Token /\ req[q].sent <= issued
                /\ session[req[q].sent] = New
          BY <2>3, <4>1 DEF Owns, Refreshes, TokenOrNone, IssuedInv
        <5> QED
          BY <2>1, <5>1 DEF IssuedInv, TypeOK, Token
      <4> QED
        BY <4>1
    <3> QED
      BY <2>1, <2>2, <2>4, <2>5, <2>6, <3>1, <3>2, <3>3
         DEF TurnInv, OneRowPerLogin, RevokedStaysRevoked
  <2>7. CASE ~IsLogin(r)
    <3>1. Owns(r, own) /\ own \in Token
      BY <1>4, <2>1, <2>3, <2>7
         DEF InsertToken, IsLogin, At, Owns, Refreshes, InRefresh,
             RefreshPlaces, IssuedInv, TokenOrNone, TypeOK, Token
    <3>2. (\A t \in rows : session[t] # own) /\ own \notin revoked
      BY <3>1 DEF TurnInv
    <3>3. \A q \in Request : q # r => ~Owns(q, own)
      BY <3>1 DEF TurnInv
    <3> QED
      BY <2>1, <2>2, <2>4, <2>5, <3>2, <3>3
         DEF TurnInv, OneRowPerLogin, RevokedStaysRevoked
  <2> QED
    BY <2>6, <2>7
<1>5. CASE Revoke
  <2>1. PICK gone \in {rows} \union {{t} : t \in rows} :
          /\ rows' = rows \ gone
          /\ revoked' = revoked \union {s \in SessionsOf(gone) : ~Between(s)}
    BY <1>5 DEF Revoke
  <2>2. gone \subseteq rows
    BY <2>1
  <2>3. session' = session /\ req' = req
    BY <1>5 DEF Revoke
  <2>4. \A q \in Request : \A s : Owns(q, s)' <=> Owns(q, s)
    BY <2>3 DEF Owns, Refreshes, InRefresh
  <2>5. \A s : Between(s) <=> \E q \in Request : Owns(q, s)
    BY DEF Between, Owns
  <2>6. \A s \in SessionsOf(gone), t \in rows' : session[t] # s
    BY <2>1, <2>2 DEF SessionsOf, OneRowPerLogin
  <2>7. RevokedStaysRevoked'
    BY <2>1, <2>3, <2>6 DEF RevokedStaysRevoked
  <2>8. \A q \in Request, s \in revoked' : ~Owns(q, s)'
    BY <2>1, <2>4, <2>5 DEF TurnInv
  <2>9. OneRowPerLogin'
    BY <2>1, <2>3 DEF OneRowPerLogin
  <2> QED
    BY <2>1, <2>3, <2>4, <2>7, <2>8, <2>9 DEF TurnInv
<1>6. ASSUME Next, UNCHANGED <<rows, session, revoked>>,
             \A r \in Request : ~DeleteToken(r)
      PROVE  Goal
  BY <1>1, <1>2, <1>6
<1>7. ASSUME Next, ~Revoke,
             \A r \in Request : ~DeleteToken(r) /\ ~InsertToken(r)
      PROVE  UNCHANGED <<rows, session, revoked>>
  BY <1>7
     DEF Next, StartData, StartLogin, Load, LoadLoginPage, NewPage, SignOut,
         Step, HandleCall, HandleLogin, FindToken, ResolveUser, InsertFails, Rejects,
         HandleDenied, HandleRefused, HandleError, HandleAnswer, HandleLost,
         Break, Age, Toggle, database, history
<1>8. CASE UNCHANGED vars
  <2>1. UNCHANGED <<rows, session, revoked, req>>
    BY <1>8 DEF vars, database, history
  <2>2. \A q \in Request, s \in Token : Owns(q, s)' => Owns(q, s)
    BY <2>1 DEF Owns, Refreshes, InRefresh
  <2> QED
    BY <1>1, <2>1, <2>2
<1> QED
  BY <1>3, <1>4, <1>5, <1>6, <1>7, <1>8

\* The invariant is inductive.
THEOREM SessionsInductive == Spec => []SessionsInv
<1>1. SessionsInv /\ [Next]_vars => SessionsInv'
  BY SessionsTypeStep, IssuedStep, TurnStep DEF SessionsInv
<1> QED
  BY InitSessions, <1>1, PTL DEF Spec

\* Every variable keeps its type.
THEOREM SessionsTypeCorrect == Spec => []TypeOK
<1>1. SessionsInv => TypeOK
  BY DEF SessionsInv
<1> QED
  BY SessionsInductive, <1>1, PTL

\* Rotation leaves a login one refresh token, however many refreshes of it
\* overlap.
THEOREM LoginHasOneRow == Spec => []OneRowPerLogin
<1>1. SessionsInv => OneRowPerLogin
  BY DEF SessionsInv
<1> QED
  BY SessionsInductive, <1>1, PTL

\* A revoked session never has a row again, whatever refreshes were under way
\* that had found it.
THEOREM RevocationIsFinal == Spec => []RevokedStaysRevoked
<1>1. SessionsInv => RevokedStaysRevoked
  BY DEF SessionsInv
<1> QED
  BY SessionsInductive, <1>1, PTL

-----------------------------------------------------------------------------
\* The answer to a login, with a token that nobody else has seen.
LoginAnswer(r) == At(r, "answer") /\ session[req[r].sent] = req[r].sent

StoreHolds(s) == store # NoToken /\ session[store] = s

\* What holds of a session that nothing has disturbed: one request at most refreshes
\* it, for the only tab that holds it; that request finds the row, and somebody waits
\* for it; the token of a login is nobody's until it is answered; and whoever holds a
\* token of the session holds the one with the row, or the session is being refreshed.
LiveSession(s) ==
  /\ \A q, r \in Request : Refreshes(q, s) /\ Refreshes(r, s) => q = r
  /\ \A r \in Request, b \in Tab : Refreshes(r, s) /\ Holds(b, s) => b = TabOf[r]
  /\ \A r \in Request : Refreshes(r, s) =>
       /\ req[r].pc # "refused"
       /\ req[r].pc \in {"find", "delete", "answer"} => req[r].sent \in rows
       /\ req[r].lost => LoginAnswer(r)
       /\ LoginAnswer(r) => ~StoreHolds(s) /\ \A b \in Tab : ~Holds(b, s)
  /\ \A b \in Tab : Holds(b, s) => mem[b] \in rows \/ \E r \in Request : Refreshes(r, s)
  /\ StoreHolds(s) => store \in rows \/ \E r \in Request : Refreshes(r, s)

\* What makes a refresh fail has disturbed the session: an inactive user, a token that
\* has expired.  An answer carries a token.
ExcuseInv ==
  /\ active \/ disturbed = Token
  /\ \A t \in Token : t > issued => age[t] = "new"
  /\ \A t \in Token : age[t] = "expired" => session[t] \in disturbed
  /\ \A r \in Request : At(r, "answer") => req[r].sent # NoToken

LiveInv == ExcuseInv /\ \A s \in Token \ disturbed : LiveSession(s)

\* Of a session, tokens are forgotten only,
Forgets(s) ==
  /\ \A b \in Tab : Holds(b, s)' => mem'[b] = mem[b]
  /\ StoreHolds(s)' => store' = store

\* and its request goes on, or ends where nobody waits for a login.
GoesOn(s) ==
  /\ \A r \in Request : Refreshes(r, s) => Refreshes(r, s)' \/ LoginAnswer(r)
  /\ \A r \in Request : Refreshes(r, s)' =>
       /\ Refreshes(r, s)
       /\ req'[r].sent = req[r].sent
       /\ req'[r].lost = req[r].lost
       /\ \/ req'[r].pc = req[r].pc
          \/ req'[r].pc \in {"issue", "insert"} /\ req[r].pc # "answer"
          \/ req'[r].pc = "delete" /\ req[r].pc = "find"

Unconcerned(s) ==
  /\ session' = session
  /\ \A t \in rows : session[t] = s => t \in rows'
  /\ Forgets(s)
  /\ GoesOn(s)

\* Then it stays as it is.
LEMMA LiveFrame ==
  ASSUME NEW s, LiveSession(s), Unconcerned(s)
  PROVE  LiveSession(s)'
<1>1. \A q, r \in Request : Refreshes(q, s)' /\ Refreshes(r, s)' => q = r
  BY DEF LiveSession, Unconcerned, Forgets, GoesOn
<1>2. \A b \in Tab : Holds(b, s)' => Holds(b, s)
  BY DEF Unconcerned, Forgets, GoesOn, Holds
<1>3. StoreHolds(s)' => StoreHolds(s) /\ store' = store
  BY DEF Unconcerned, Forgets, GoesOn, StoreHolds
<1>4. \A r \in Request, b \in Tab : Refreshes(r, s)' /\ Holds(b, s)' => b = TabOf[r]
  BY <1>2 DEF LiveSession, Unconcerned, Forgets, GoesOn
<1>5. ASSUME NEW r \in Request, Refreshes(r, s)'
      PROVE  /\ req'[r].pc # "refused"
             /\ req'[r].pc \in {"find", "delete", "answer"} => req'[r].sent \in rows'
             /\ req'[r].lost => LoginAnswer(r)'
             /\ LoginAnswer(r)' => ~StoreHolds(s)' /\ \A b \in Tab : ~Holds(b, s)'
  <2>1. /\ Refreshes(r, s) /\ req'[r].sent = req[r].sent /\ req'[r].lost = req[r].lost
        /\ \/ req'[r].pc = req[r].pc
           \/ req'[r].pc \in {"issue", "insert"} /\ req[r].pc # "answer"
           \/ req'[r].pc = "delete" /\ req[r].pc = "find"
    BY <1>5 DEF Unconcerned, Forgets, GoesOn
  <2>2. session[req[r].sent] = s /\ session' = session
    BY <2>1 DEF Refreshes, Unconcerned, Forgets
  <2>3. /\ req[r].pc # "refused"
        /\ req[r].pc \in {"find", "delete", "answer"} => req[r].sent \in rows
        /\ req[r].lost => LoginAnswer(r)
        /\ LoginAnswer(r) => ~StoreHolds(s) /\ \A b \in Tab : ~Holds(b, s)
    BY <2>1 DEF LiveSession
  <2>4. req[r].sent \in rows => req'[r].sent \in rows'
    BY <2>1, <2>2 DEF Unconcerned, Forgets, GoesOn
  <2>5. LoginAnswer(r)' => LoginAnswer(r)
    BY <2>1, <2>2 DEF LoginAnswer, At
  <2>6. LoginAnswer(r) => LoginAnswer(r)'
    BY <2>1, <2>2 DEF LoginAnswer, At
  <2> QED
    BY <1>2, <1>3, <2>1, <2>3, <2>4, <2>5, <2>6
<1>6. ASSUME NEW b \in Tab, Holds(b, s)'
      PROVE  mem'[b] \in rows' \/ \E r \in Request : Refreshes(r, s)'
  <2>1. Holds(b, s) /\ mem'[b] = mem[b] /\ session[mem[b]] = s
    BY <1>2, <1>6 DEF Unconcerned, Forgets, GoesOn, Holds
  <2> QED
    BY <2>1 DEF LiveSession, Unconcerned, Forgets, GoesOn
<1>7. ASSUME StoreHolds(s)'
      PROVE  store' \in rows' \/ \E r \in Request : Refreshes(r, s)'
  <2>1. StoreHolds(s) /\ store' = store /\ session[store] = s
    BY <1>3, <1>7 DEF StoreHolds
  <2> QED
    BY <2>1 DEF LiveSession, Unconcerned, Forgets, GoesOn
<1> QED
  BY <1>1, <1>4, <1>5, <1>6, <1>7 DEF LiveSession

\* What has been disturbed stays so.
LEMMA DisturbedStays == SessionsInv /\ [Next]_vars => disturbed \subseteq disturbed'
<1> SUFFICES ASSUME SessionsInv, [Next]_vars
             PROVE  disturbed \subseteq disturbed'
  OBVIOUS
<1>1. disturbed \subseteq Token
  BY DEF SessionsInv, TypeOK
<1>2. ASSUME NEW tokens, Disturb(tokens)
      PROVE  disturbed \subseteq disturbed'
  BY <1>2 DEF Disturb
<1>3. ASSUME NEW r \in Request,
             \/ StartData(r) \/ StartLogin(r) \/ HandleCall(r) \/ HandleLogin(r)
             \/ FindToken(r) \/ DeleteToken(r) \/ ResolveUser(r) \/ InsertToken(r)
             \/ HandleRefused(r) \/ HandleLost(r)
      PROVE  disturbed \subseteq disturbed'
  BY <1>3 DEF StartData, StartLogin, HandleCall, HandleLogin, FindToken, DeleteToken,
              ResolveUser, InsertToken, HandleRefused, HandleLost, history
<1>4. ASSUME NEW r \in Request,
             \/ InsertFails(r) \/ Rejects(r) \/ HandleDenied(r) \/ HandleAnswer(r)
             \/ HandleError(r) \/ Break(r) \/ Load(r)
      PROVE  disturbed \subseteq disturbed'
  BY <1>2, <1>4 DEF InsertFails, Rejects, HandleDenied, HandleAnswer, LoginAnswered,
                    RefreshAnswered, HandleError, Break, Load, NewPage
<1>5. ASSUME NEW b \in Tab, SignOut(b) \/ LoadLoginPage(b)
      PROVE  disturbed \subseteq disturbed'
  BY <1>2, <1>5 DEF SignOut, LoadLoginPage, NewPage
<1>6. ASSUME NEW t \in Token, Age(t)
      PROVE  disturbed \subseteq disturbed'
  BY <1>2, <1>6 DEF Age
<1>7. Revoke \/ Toggle => disturbed \subseteq disturbed'
  BY <1>1, <1>2 DEF Revoke, Toggle
<1> QED
  BY <1>3, <1>4, <1>5, <1>6, <1>7 DEF Next, Step, vars, history

\* Whoever fails has an excuse.
LEMMA ExcuseStep == SessionsInv /\ ExcuseInv /\ [Next]_vars => ExcuseInv'
<1> SUFFICES ASSUME SessionsInv, ExcuseInv, [Next]_vars
             PROVE  ExcuseInv'
  OBVIOUS
<1> USE SessionsAssumption DEF SessionsInv
<1>1. disturbed \subseteq disturbed' /\ disturbed' \subseteq Token
  BY DisturbedStays, SessionsTypeStep DEF TypeOK
<1>2. req \in [Request -> Call] /\ req' \in [Request -> Call]
  BY RequestStep DEF TypeOK
<1> DEFINE Times == /\ \A t \in Token : t > issued' => age'[t] = "new"
                    /\ \A t \in Token : age'[t] = "expired" => session'[t] \in disturbed'
           Carried(r) == req'[r].pc = "answer" => req'[r].sent # NoToken
<1>3. active' \/ disturbed' = Token
  <2>1. CASE Toggle
    BY <2>1 DEF Toggle
  <2>2. CASE ~Toggle
    <3>1. UNCHANGED active
      BY <2>2
         DEF Next, Step, vars, database, StartData, StartLogin, Load, LoadLoginPage, NewPage,
             SignOut, HandleCall, HandleLogin, FindToken, DeleteToken, ResolveUser,
             InsertToken, InsertFails, Rejects, HandleDenied, HandleRefused, HandleError,
             HandleAnswer, HandleLost, Break, Age, Revoke
    <3> QED
      BY <1>1, <3>1 DEF ExcuseInv
  <2> QED
    BY <2>1, <2>2
<1>4. Times
  <2>1. CASE UNCHANGED <<issued, age, session>>
    BY <1>1, <2>1 DEF ExcuseInv
  <2>2. ASSUME NEW r \in Request, InsertToken(r)
        PROVE  Times
    <3>1. /\ New \in Token /\ New = issued + 1 /\ issued' = New /\ age' = age
          /\ \A t \in Token : t # New => session'[t] = session[t]
      BY <2>2 DEF InsertToken, New, Token, TypeOK
    <3>2. age[New] = "new"
      BY <3>1 DEF ExcuseInv, TypeOK
    <3>3. ASSUME NEW t \in Token
          PROVE  /\ t > issued' => age'[t] = "new"
                 /\ age'[t] = "expired" => session'[t] \in disturbed'
      <4>1. CASE t = New
        BY <3>1, <3>2, <4>1
      <4>2. CASE t # New
        <5>1. session'[t] = session[t] /\ age'[t] = age[t]
          BY <3>1, <4>2
        <5>2. t > issued' => t > issued
          BY <3>1 DEF TypeOK, Token
        <5> QED
          BY <1>1, <5>1, <5>2 DEF ExcuseInv
      <4> QED
        BY <4>1, <4>2
    <3> QED
      BY <3>3
  <2>3. ASSUME NEW t \in Token, Age(t)
        PROVE  Times
    <3>1. t <= issued /\ UNCHANGED <<issued, session>>
      BY <2>3 DEF Age
    <3>2. \A u \in Token \ {t} : age'[u] = age[u]
      BY <2>3 DEF Age, TypeOK
    <3>3. age'[t] = "expired" => session[t] \in disturbed'
      <4>1. CASE age' = [age EXCEPT ![t] = "old"]
        BY <4>1 DEF TypeOK
      <4>2. CASE Disturb({t})
        BY <4>2 DEF Disturb, SessionsOf, Token, NoToken
      <4> QED
        BY <2>3, <4>1, <4>2 DEF Age
    <3>4. ASSUME NEW u \in Token \ {t}
          PROVE  /\ u > issued' => age'[u] = "new"
                 /\ age'[u] = "expired" => session'[u] \in disturbed'
      BY <1>1, <3>1, <3>2 DEF ExcuseInv
    <3>5. ~(t > issued')
      BY <3>1 DEF Token, TypeOK
    <3> QED
      BY <3>1, <3>3, <3>4, <3>5
  <2>4. CASE ~UNCHANGED <<issued, age, session>>
    <3>1. (\E r \in Request : InsertToken(r)) \/ (\E t \in Token : Age(t))
      BY <2>4
         DEF Next, Step, vars, database, StartData, StartLogin, Load, LoadLoginPage, NewPage,
             SignOut, HandleCall, HandleLogin, FindToken, DeleteToken, ResolveUser,
             InsertFails, Rejects, HandleDenied, HandleRefused, HandleError,
             HandleAnswer, HandleLost, Break, Revoke, Toggle
    <3> QED
      BY <2>2, <2>3, <3>1
  <2> QED
    BY <2>1, <2>4
<1>5. ASSUME NEW q \in Request
      PROVE  Carried(q)
  <2>1. CASE req'[q].pc = req[q].pc /\ req'[q].sent = req[q].sent
    BY <2>1 DEF ExcuseInv, At
  <2>2. CASE req'[q].pc # "answer"
    BY <2>2
  <2>3. ASSUME NEW r \in Request, InsertToken(r)
        PROVE  Carried(q)
    <3>1. New # NoToken
      BY <2>3 DEF New, NoToken, TypeOK
    <3>2. q # r => req'[q] = req[q]
      BY <1>2, <2>3 DEF InsertToken
    <3>3. req'[r].sent = New
      BY <1>2, <2>3 DEF InsertToken, Call
    <3> QED
      BY <2>1, <3>1, <3>2, <3>3
  <2>4. ASSUME NEW r \in Request, NEW c, c.pc # "answer", req' = [req EXCEPT ![r] = c]
        PROVE  Carried(q)
    BY <1>2, <2>1, <2>4
  <2>5. ASSUME NEW r \in Request, NEW label, Goto(r, label), label # "answer"
        PROVE  Carried(q)
    <3>1. q = r => req'[q].pc = label
      BY <1>2, <2>5 DEF Goto, Call
    <3>2. q # r => req'[q] = req[q]
      BY <2>5 DEF Goto
    <3> QED
      BY <2>1, <2>5, <3>1, <3>2
  <2>6. Idle.pc # "answer" /\ \A kind, t : Sent(kind, t).pc # "answer"
    BY DEF Idle, Sent
  <2>7. ASSUME NEW r \in Request, StartData(r) \/ StartLogin(r)
        PROVE  Carried(q)
    BY <2>4, <2>6, <2>7 DEF StartData, StartLogin
  <2>8. ASSUME NEW r \in Request, \/ HandleCall(r) \/ HandleLogin(r) \/ FindToken(r)
                                  \/ DeleteToken(r) \/ ResolveUser(r) \/ InsertFails(r) \/ Rejects(r)
        PROVE  Carried(q)
    <3>1. \/ req' = [req EXCEPT ![r] = Idle]
          \/ \E label \in {"denied", "issue", "delete", "refused", "insert", "error"} :
               Goto(r, label)
      BY <2>8 DEF HandleCall, HandleLogin, FindToken, DeleteToken, ResolveUser, Resolved,
                  InsertFails, Rejects
    <3> QED
      BY <2>4, <2>5, <2>6, <3>1
  <2>9. ASSUME NEW r \in Request, HandleRefused(r) \/ HandleError(r) \/ HandleLost(r)
        PROVE  Carried(q)
    BY <2>4, <2>6, <2>9 DEF HandleRefused, HandleError, HandleLost
  <2>10. ASSUME NEW r \in Request, HandleDenied(r) \/ HandleAnswer(r)
         PROVE  Carried(q)
    <3>1. \/ req' = [req EXCEPT ![r] = Idle]
          \/ req'[r].pc \in {"find", "call"} /\ \A p \in Request \ {r} : req'[p] = req[p]
      BY <1>2, <2>10 DEF HandleDenied, HandleAnswer, LoginAnswered, RefreshAnswered, Call
    <3> QED
      BY <2>1, <2>2, <2>4, <2>6, <3>1
  <2>11. ASSUME NEW r \in Request, Break(r)
         PROVE  Carried(q)
    <3>1. req'[q].pc = req[q].pc /\ req'[q].sent = req[q].sent
      BY <1>2, <2>11 DEF Break, Call
    <3> QED
      BY <2>1, <3>1
  <2>12. \A b \in Tab : Orphaned(b)[q].pc = req[q].pc /\ Orphaned(b)[q].sent = req[q].sent
    BY <1>2 DEF Orphaned, Call
  <2>13. ASSUME NEW r \in Request, Load(r)
         PROVE  Carried(q)
    <3>1. q = r => req'[q].pc = "call"
      BY <2>13 DEF Load, Orphaned, Sent
    <3>2. q # r => req'[q] = Orphaned(TabOf[r])[q]
      BY <2>13 DEF Load, Orphaned
    <3> QED
      BY <2>1, <2>2, <2>12, <3>1, <3>2
  <2>14. ASSUME NEW b \in Tab, LoadLoginPage(b) \/ SignOut(b)
         PROVE  Carried(q)
    BY <2>1, <2>12, <2>14 DEF LoadLoginPage, SignOut
  <2>15. CASE UNCHANGED req
    BY <2>1, <2>15
  <2> QED
    BY <2>3, <2>7, <2>8, <2>9, <2>10, <2>11, <2>13, <2>14, <2>15
       DEF Next, Step, Age, Revoke, Toggle, vars
<1> QED
  BY <1>3, <1>4, <1>5 DEF ExcuseInv, At
\* A step leaves every session as it is promised, or disturbs it.
LEMMA LiveStep ==
  ASSUME SessionsInv, LiveInv, [Next]_vars, NEW s \in Token \ disturbed'
  PROVE  LiveSession(s)'
<1> USE SessionsAssumption DEF SessionsInv
<1>1. req \in [Request -> Call] /\ req' \in [Request -> Call] /\ mem \in [Tab -> TokenOrNone]
  BY RequestStep DEF TypeOK
<1>2. s \notin disturbed /\ LiveSession(s) /\ active
  BY DisturbedStays DEF LiveInv, ExcuseInv, TypeOK
<1>3. /\ \A r \in Request : TabOf[r] \in Tab
      /\ \A r \in Request : req[r].sent \in TokenOrNone
      /\ store \in TokenOrNone
  BY <1>1 DEF TypeOK, Call
<1>4. ASSUME NEW tokens, Disturb(tokens)
      PROVE  \A t \in tokens : t # NoToken => session[t] # s
  BY <1>4 DEF Disturb, SessionsOf
\* The parts of what leaves a session alone.
<1>5. UNCHANGED <<mem, store, session>> => Forgets(s)
  BY DEF Forgets
<1>6. ASSUME NEW b \in Tab, SetTokens(b, NoToken)
      PROVE  Forgets(s)
  BY <1>1, <1>6 DEF Forgets, SetTokens, Holds, StoreHolds
<1>7. ASSUME NEW r \in Request, Throw(r), session' = session
      PROVE  Forgets(s)
  BY <1>3, <1>5, <1>6, <1>7 DEF Throw
<1>8. req' = req /\ session' = session => GoesOn(s)
  BY DEF GoesOn, Refreshes, InRefresh
<1>9. ASSUME NEW r \in Request, session' = session, \A q \in Request \ {r} : req'[q] = req[q],
             Refreshes(r, s) => LoginAnswer(r), ~Refreshes(r, s)'
      PROVE  GoesOn(s)
  BY <1>9 DEF GoesOn, Refreshes, InRefresh
<1>10. ASSUME NEW r \in Request, NEW c, req' = [req EXCEPT ![r] = c], session' = session,
              c.pc \notin RefreshPlaces, Refreshes(r, s) => LoginAnswer(r)
       PROVE  GoesOn(s)
  <2>1. ~Refreshes(r, s)'
    BY <1>1, <1>10 DEF Refreshes, InRefresh
  <2> QED
    BY <1>9, <1>10, <2>1
<1>11. Idle.pc \notin RefreshPlaces /\ \A kind, t : Sent(kind, t).pc \notin RefreshPlaces
  BY DEF Idle, Sent, RefreshPlaces
<1>12. ASSUME NEW r \in Request, session' = session, req[r].sent # NoToken => session[req[r].sent] # s,
              \A q \in Request \ {r} : req'[q] = req[q], req'[r].sent = req[r].sent
       PROVE  GoesOn(s)
  <2>1. ~Refreshes(r, s) /\ ~Refreshes(r, s)'
    BY <1>12 DEF Refreshes
  <2> QED
    BY <1>9, <1>12, <2>1
<1>13. ASSUME NEW r \in Request, NEW label \in {"delete", "issue", "insert"}, Goto(r, label),
              session' = session, ~At(r, "answer"), label = "delete" => At(r, "find")
       PROVE  InRefresh(r) => GoesOn(s)
  <2>1. /\ req'[r].pc = label /\ req'[r].sent = req[r].sent /\ req'[r].lost = req[r].lost
        /\ \A q \in Request \ {r} : req'[q] = req[q]
    BY <1>1, <1>13 DEF Goto, Call
  <2> QED
    BY <1>13, <2>1 DEF GoesOn, Refreshes, InRefresh, At, RefreshPlaces
<1>14. UNCHANGED <<rows, session>> /\ Forgets(s) /\ GoesOn(s) => LiveSession(s)'
  BY <1>2, LiveFrame DEF Unconcerned
<1>15. ASSUME NEW r \in Request, Refreshes(r, s)
       PROVE  /\ session[req[r].sent] = s /\ req[r].sent # NoToken /\ req[r].pc # "refused"
              /\ \A q \in Request : Refreshes(q, s) => q = r
              /\ req[r].pc \in {"find", "delete", "answer"} => req[r].sent \in rows
              /\ req[r].lost => LoginAnswer(r)
  BY <1>2, <1>15 DEF LiveSession, Refreshes
\* The browser sends a request.
<1>20. ASSUME NEW r \in Request, StartData(r) \/ StartLogin(r)
       PROVE  LiveSession(s)'
  <2>1. UNCHANGED <<rows, session, mem, store>>
    BY <1>20 DEF StartData, StartLogin, database, browser
  <2>2. ~Refreshes(r, s)
    BY <1>20 DEF StartData, StartLogin, Refreshes, InRefresh, RefreshPlaces, At
  <2>3. GoesOn(s)
    BY <1>10, <1>11, <1>20, <2>1, <2>2 DEF StartData, StartLogin
  <2> QED
    BY <1>5, <1>14, <2>1, <2>3
<1>21. ASSUME NEW b \in Tab, NewPage(b), \A q \in Request : TabOf[q] # b => req'[q] = req[q],
              \A q \in Request : TabOf[q] = b =>
                \/ req'[q].sent = req[q].sent /\ req'[q].pc = req[q].pc
                \/ ~InRefresh(q) /\ req'[q].pc \notin RefreshPlaces
       PROVE  LiveSession(s)'
  <2>1. UNCHANGED <<rows, session, store>> /\ mem' = [mem EXCEPT ![b] = store]
    BY <1>21 DEF NewPage, database
  <2> DEFINE Refreshing == {q \in Request : InRefresh(q)}
             mine == {req[q].sent : q \in {q \in Refreshing : TabOf[q] = b}}
             stored == {t \in {store} \ {NoToken} :
                          \E q \in Refreshing : Refreshes(q, session[t])}
  <2>2. Disturb(mine \union stored)
    BY <1>21 DEF NewPage
  <2>3. \A q \in Request : TabOf[q] = b => ~Refreshes(q, s)
    BY <1>4, <2>2 DEF Refreshes
  <2>4. StoreHolds(s) => \A q \in Request : ~Refreshes(q, s)
    BY <1>4, <2>2 DEF StoreHolds, Refreshes
  <2>5. \A q \in Request : TabOf[q] = b => ~Refreshes(q, s)'
    BY <1>21, <2>1, <2>3 DEF Refreshes, InRefresh
  <2>6. GoesOn(s)
    BY <1>21, <2>1, <2>3, <2>5 DEF GoesOn, Refreshes, InRefresh
  <2>7. CASE ~StoreHolds(s)
    <3>1. Forgets(s)
      BY <1>1, <2>1, <2>7 DEF Forgets, Holds, StoreHolds
    <3> QED
      BY <1>14, <2>1, <2>6, <3>1
  <2>8. CASE StoreHolds(s)
    <3>1. \A q \in Request : ~Refreshes(q, s)'
      BY <2>4, <2>6, <2>8 DEF GoesOn
    <3>2. store \in rows
      BY <1>2, <2>4, <2>8 DEF LiveSession
    <3>3. \A c \in Tab : Holds(c, s)' => mem'[c] \in rows'
      BY <1>1, <1>2, <2>1, <2>4, <2>8, <3>2 DEF LiveSession, Holds
    <3> QED
      BY <2>1, <3>1, <3>2, <3>3 DEF LiveSession
  <2> QED
    BY <2>7, <2>8
<1>22. ASSUME NEW b \in Tab, NEW q \in Request
       PROVE  /\ TabOf[q] # b => Orphaned(b)[q] = req[q]
              /\ Orphaned(b)[q].sent = req[q].sent /\ Orphaned(b)[q].pc = req[q].pc
  BY <1>1 DEF Orphaned, Call
<1>23. ASSUME NEW r \in Request, Load(r)
       PROVE  LiveSession(s)'
  <2>1. NewPage(TabOf[r]) /\ ~InRefresh(r)
    BY <1>23 DEF Load, InRefresh, RefreshPlaces, At
  <2>2. req'[r].pc \notin RefreshPlaces
    BY <1>11, <1>23 DEF Load, Orphaned
  <2>3. \A q \in Request \ {r} : req'[q] = Orphaned(TabOf[r])[q]
    BY <1>23 DEF Load, Orphaned
  <2>4. \A q \in Request : TabOf[q] # TabOf[r] => req'[q] = req[q]
    BY <1>3, <1>22, <2>3
  <2>5. \A q \in Request : TabOf[q] = TabOf[r] =>
          \/ req'[q].sent = req[q].sent /\ req'[q].pc = req[q].pc
          \/ ~InRefresh(q) /\ req'[q].pc \notin RefreshPlaces
    <3>1. \A q \in Request \ {r} : req'[q].sent = req[q].sent /\ req'[q].pc = req[q].pc
      BY <1>3, <1>22, <2>3
    <3> QED
      BY <2>1, <2>2, <3>1
  <2> QED
    BY <1>3, <1>21, <2>1, <2>4, <2>5
<1>24. ASSUME NEW b \in Tab, LoadLoginPage(b)
       PROVE  LiveSession(s)'
  <2>1. NewPage(b) /\ \A q \in Request : req'[q] = Orphaned(b)[q]
    BY <1>24 DEF LoadLoginPage
  <2>2. \A q \in Request : TabOf[q] # b => req'[q] = req[q]
    BY <1>22, <2>1
  <2>3. \A q \in Request : req'[q].sent = req[q].sent /\ req'[q].pc = req[q].pc
    BY <1>22, <2>1
  <2> QED
    BY <1>21, <2>1, <2>2, <2>3
<1>25. ASSUME NEW b \in Tab, SignOut(b)
       PROVE  LiveSession(s)'
  <2>1. UNCHANGED <<rows, session, req>> /\ SetTokens(b, NoToken)
    BY <1>25 DEF SignOut, database, SetTokens
  <2> QED
    BY <1>6, <1>8, <1>14, <2>1
\* The server handles it.
<1>30. ASSUME NEW r \in Request, HandleCall(r)
       PROVE  LiveSession(s)'
  <2>1. UNCHANGED <<rows, session, mem, store>> /\ ~InRefresh(r)
    BY <1>30 DEF HandleCall, database, At, InRefresh, RefreshPlaces
  <2>2. CASE req' = [req EXCEPT ![r] = Idle]
    <3>1. GoesOn(s)
      BY <1>10, <1>11, <2>1, <2>2 DEF Refreshes
    <3> QED
      BY <1>5, <1>14, <2>1, <3>1
  <2>3. CASE Goto(r, "denied")
    <3>1. ~Refreshes(r, s)'
      BY <1>1, <2>3 DEF Goto, Refreshes, InRefresh, RefreshPlaces, Call
    <3>2. \A q \in Request \ {r} : req'[q] = req[q]
      BY <2>3 DEF Goto
    <3>3. GoesOn(s)
      BY <1>9, <2>1, <3>1, <3>2 DEF Refreshes
    <3> QED
      BY <1>5, <1>14, <2>1, <3>3
  <2> QED
    BY <1>30, <2>2, <2>3 DEF HandleCall
<1>31. ASSUME NEW r \in Request, HandleLogin(r) \/ ResolveUser(r) \/ FindToken(r)
       PROVE  LiveSession(s)'
  <2>1. UNCHANGED <<rows, session, mem, store>>
    BY <1>31 DEF HandleLogin, ResolveUser, FindToken, database, browser
  <2>2. \E label \in {"issue", "denied", "insert", "refused", "delete"} : Goto(r, label)
    BY <1>31 DEF HandleLogin, ResolveUser, Resolved, FindToken
  <2>3. req'[r].sent = req[r].sent /\ \A q \in Request \ {r} : req'[q] = req[q]
    BY <1>1, <2>2 DEF Goto, Call
  <2>4. CASE ~Refreshes(r, s) /\ InRefresh(r)
    <3>1. GoesOn(s)
      BY <1>12, <2>1, <2>3, <2>4 DEF Refreshes
    <3> QED
      BY <1>5, <1>14, <2>1, <3>1
  <2>5. CASE ~InRefresh(r)
    <3>1. req[r].sent = NoToken
      BY <1>31, <2>5
         DEF HandleLogin, ResolveUser, FindToken, InRefresh, RefreshPlaces, At, SentInv
    <3>2. GoesOn(s)
      BY <1>12, <2>1, <2>3, <3>1
    <3> QED
      BY <1>5, <1>14, <2>1, <3>2
  <2>6. CASE Refreshes(r, s)
    <3>1. InRefresh(r) /\ ~HandleLogin(r)
      BY <2>6 DEF Refreshes, InRefresh, RefreshPlaces, HandleLogin, At
    <3>2. ASSUME FindToken(r)
          PROVE  Goto(r, "delete") /\ At(r, "find")
      <4>1. req[r].sent \in rows /\ req[r].sent \in Token /\ session[req[r].sent] = s
        BY <1>15, <2>6, <3>2 DEF FindToken, At, TypeOK
      <4>2. Valid(req[r].sent)
        BY <1>2, <4>1 DEF Valid, LiveInv, ExcuseInv
      <4> QED
        BY <3>2, <4>2 DEF FindToken
    <3>3. ASSUME ResolveUser(r)
          PROVE  Goto(r, "insert") /\ At(r, "issue")
      BY <1>2, <3>3 DEF ResolveUser, Resolved
    <3>4. GoesOn(s)
      BY <1>13, <1>31, <2>1, <3>1, <3>2, <3>3 DEF At
    <3> QED
      BY <1>5, <1>14, <2>1, <3>4
  <2> QED
    BY <2>4, <2>5, <2>6
<1>32. ASSUME NEW r \in Request, DeleteToken(r)
       PROVE  LiveSession(s)'
  <2> DEFINE t == req[r].sent
  <2>1. /\ UNCHANGED <<session, mem, store>> /\ rows' = rows \ {t} /\ t # NoToken
        /\ InRefresh(r) /\ At(r, "delete")
    BY <1>32 DEF DeleteToken, browser, SentInv, At, InRefresh, RefreshPlaces
  <2>2. /\ req'[r].sent = t /\ req'[r].lost = req[r].lost
        /\ \A q \in Request \ {r} : req'[q] = req[q]
    BY <1>1, <1>32 DEF DeleteToken, Goto, Call
  <2>3. CASE ~Refreshes(r, s)
    <3>1. session[t] # s
      BY <2>1, <2>3 DEF Refreshes
    <3>2. GoesOn(s)
      BY <1>12, <2>1, <2>2, <3>1
    <3> QED
      BY <1>2, <1>5, <2>1, <3>1, <3>2, LiveFrame DEF Unconcerned
  <2>4. CASE Refreshes(r, s)
    <3>1. Deletes(r)
      BY <1>15, <2>1, <2>4 DEF Deletes, At
    <3>2. Goto(r, "issue")
      BY <1>32, <3>1 DEF DeleteToken
    <3>3. GoesOn(s)
      BY <1>13, <2>1, <3>2 DEF At
    <3>4. req'[r].pc = "issue"
      BY <1>1, <3>2 DEF Goto, Call
    <3>5. Refreshes(r, s)' /\ session[t] = s
      BY <2>1, <2>2, <2>4, <3>4 DEF Refreshes, InRefresh, RefreshPlaces
    <3>6. \A q \in Request : Refreshes(q, s)' => q = r
      BY <1>15, <2>4, <3>3 DEF GoesOn
    <3>7. \A b \in Tab : Holds(b, s)' => Holds(b, s)
      BY <2>1 DEF Holds
    <3>8. ~req'[r].lost
      BY <1>15, <2>1, <2>2, <2>4 DEF LoginAnswer, At
    <3>9. ~LoginAnswer(r)'
      BY <3>4 DEF LoginAnswer, At
    <3> QED
      BY <1>2, <2>4, <3>4, <3>5, <3>6, <3>7, <3>8, <3>9 DEF LiveSession
  <2> QED
    BY <2>3, <2>4
<1>33. ASSUME NEW r \in Request, InsertToken(r)
       PROVE  LiveSession(s)'
  <2>1. /\ New \in Token /\ New > issued /\ UNCHANGED <<mem, store>>
        /\ rows' = rows \union {New} /\ InRefresh(r) /\ At(r, "insert")
        /\ \A t \in Token : t # New => session'[t] = session[t]
        /\ session'[New] = IF IsLogin(r) THEN New ELSE session[req[r].sent]
    BY <1>33 DEF InsertToken, New, Token, browser, TypeOK, InRefresh, RefreshPlaces, At
  <2>2. /\ req'[r].sent = New /\ req'[r].pc = "answer" /\ req'[r].lost = req[r].lost
        /\ \A q \in Request \ {r} : req'[q] = req[q]
    BY <1>1, <1>33 DEF InsertToken, Call
  <2>3. ASSUME NEW t \in TokenOrNone, t # NoToken, t <= issued
        PROVE  /\ t \in Token /\ t # New /\ session'[t] = session[t]
               /\ session[t] \in Token /\ session[t] # New
    <3>1. t \in Token /\ t # New
      BY <2>1, <2>3 DEF TokenOrNone, Token, TypeOK
    <3>2. session[t] \in 1 .. issued
      BY <2>3, <3>1 DEF IssuedInv
    <3> QED
      BY <2>1, <3>1, <3>2 DEF TypeOK, Token
  <2>4. \A b \in Tab : Holds(b, s)' <=> Holds(b, s)
    BY <1>1, <2>1, <2>3 DEF Holds, IssuedInv
  <2>5. StoreHolds(s)' <=> StoreHolds(s)
    BY <1>3, <2>1, <2>3 DEF StoreHolds, IssuedInv
  <2>6. \A q \in Request \ {r} : Refreshes(q, s)' <=> Refreshes(q, s)
    BY <1>3, <2>2, <2>3 DEF Refreshes, InRefresh, IssuedInv
  <2>7. Refreshes(r, s)' <=> session'[New] = s
    BY <2>1, <2>2 DEF Refreshes, InRefresh, RefreshPlaces, NoToken, Token
  <2>8. ASSUME s # New
        PROVE  Refreshes(r, s)' <=> Refreshes(r, s)
    BY <1>3, <2>1, <2>3, <2>7, <2>8 DEF Refreshes, IsLogin, IssuedInv
  <2>9. CASE s = New
    <3>1. ~StoreHolds(s)
      BY <1>3, <2>3, <2>9 DEF StoreHolds, IssuedInv
    <3>2. \A b \in Tab : ~Holds(b, s)
      BY <1>1, <2>3, <2>9 DEF Holds, IssuedInv
    <3>3. \A q \in Request \ {r} : ~Refreshes(q, s)
      BY <1>3, <2>3, <2>9 DEF Refreshes, IssuedInv
    <3>4. ASSUME Refreshes(r, s)'
          PROVE  LoginAnswer(r)'
      BY <2>2, <2>7, <2>9, <3>4 DEF LoginAnswer, At
    <3> QED
      BY <2>1, <2>2, <2>4, <2>5, <2>6, <3>1, <3>2, <3>3, <3>4 DEF LiveSession
  <2>10. CASE s # New
    <3>1. \A q \in Request : Refreshes(q, s)' <=> Refreshes(q, s)
      BY <2>6, <2>8, <2>10
    <3>2. \A q, p \in Request : Refreshes(q, s)' /\ Refreshes(p, s)' => q = p
      BY <1>2, <3>1 DEF LiveSession
    <3>3. \A q \in Request, b \in Tab : Refreshes(q, s)' /\ Holds(b, s)' => b = TabOf[q]
      BY <1>2, <2>4, <3>1 DEF LiveSession
    <3>4. (\A b \in Tab : Holds(b, s)' => mem'[b] \in rows' \/ \E q \in Request : Refreshes(q, s)')
          /\ (StoreHolds(s)' => store' \in rows' \/ \E q \in Request : Refreshes(q, s)')
      BY <1>2, <2>1, <2>4, <2>5, <3>1 DEF LiveSession
    <3>5. ASSUME NEW q \in Request, Refreshes(q, s)'
          PROVE  /\ req'[q].pc # "refused"
                 /\ req'[q].pc \in {"find", "delete", "answer"} => req'[q].sent \in rows'
                 /\ req'[q].lost => LoginAnswer(q)'
                 /\ LoginAnswer(q)' => ~StoreHolds(s)' /\ \A b \in Tab : ~Holds(b, s)'
      <4>1. Refreshes(q, s)
        BY <3>1, <3>5
      <4>2. CASE q = r
        <5>1. session'[New] = s
          BY <2>7, <3>5, <4>2
        <5>2. ~LoginAnswer(q)'
          BY <2>2, <2>10, <4>2, <5>1 DEF LoginAnswer
        <5>3. ~req'[q].lost
          BY <1>15, <2>1, <2>2, <4>1, <4>2 DEF LoginAnswer, At
        <5> QED
          BY <2>1, <2>2, <4>2, <5>2, <5>3
      <4>3. CASE q # r
        <5>1. req'[q] = req[q] /\ session'[req[q].sent] = session[req[q].sent]
          BY <1>3, <2>2, <2>3, <4>1, <4>3 DEF Refreshes, IssuedInv
        <5>2. LoginAnswer(q)' <=> LoginAnswer(q)
          BY <5>1 DEF LoginAnswer, At
        <5> QED
          BY <1>2, <2>1, <2>4, <2>5, <4>1, <5>1, <5>2 DEF LiveSession
      <4> QED
        BY <4>2, <4>3
    <3> QED
      BY <3>2, <3>3, <3>4, <3>5 DEF LiveSession
  <2> QED
    BY <2>9, <2>10
<1>34. ASSUME NEW r \in Request, InsertFails(r) \/ Rejects(r)
       PROVE  LiveSession(s)'
  <2>1. /\ UNCHANGED <<rows, session, mem, store>>
        /\ Disturb({t \in {req[r].sent} : InRefresh(r)})
    <3>1. CASE InsertFails(r)
      <4>1. InRefresh(r)
        BY <3>1 DEF InsertFails, InRefresh, RefreshPlaces, At
      <4> QED
        BY <3>1, <4>1 DEF InsertFails, Disturb, SessionsOf, database, browser
    <3>2. CASE Rejects(r)
      BY <3>2 DEF Rejects, database, browser
    <3> QED
      BY <1>34, <3>1, <3>2
  <2>2. /\ req'[r].sent = req[r].sent /\ req'[r].lost = req[r].lost
        /\ \A q \in Request \ {r} : req'[q] = req[q]
    BY <1>1, <1>34 DEF InsertFails, Rejects, Goto, Call
  <2>3. ~Refreshes(r, s)
    BY <1>4, <2>1 DEF Refreshes
  <2>4. ~Refreshes(r, s)'
    <3>1. CASE InRefresh(r)
      BY <2>1, <2>2, <2>3, <3>1 DEF Refreshes
    <3>2. CASE ~InRefresh(r)
      <4>1. Rejects(r) /\ Goto(r, "error")
        BY <1>34, <3>2 DEF InsertFails, Rejects, InRefresh, RefreshPlaces, At
      <4>2. req'[r].pc = "error"
        BY <1>1, <4>1 DEF Goto, Call
      <4> QED
        BY <4>2 DEF Refreshes, InRefresh, RefreshPlaces
    <3> QED
      BY <3>1, <3>2
  <2>5. GoesOn(s)
    BY <1>9, <2>1, <2>2, <2>3, <2>4 DEF Refreshes
  <2> QED
    BY <1>5, <1>14, <2>1, <2>5
\* The browser handles the answer.
<1>40. ASSUME NEW r \in Request, HandleDenied(r)
       PROVE  LiveSession(s)'
  <2> DEFINE b == TabOf[r]
             t == mem[b]
  <2>1. UNCHANGED <<rows, session>> /\ ~InRefresh(r) /\ ~req[r].lost
    BY <1>40 DEF HandleDenied, database, At, InRefresh, RefreshPlaces
  <2>2. CASE req[r].retried \/ t = NoToken
    <3>1. req' = [req EXCEPT ![r] = Idle] /\ Throw(r)
      BY <1>40, <2>2 DEF HandleDenied
    <3>2. GoesOn(s)
      BY <1>10, <1>11, <2>1, <3>1 DEF Refreshes
    <3> QED
      BY <1>7, <1>14, <2>1, <3>1, <3>2
  <2>3. CASE ~(req[r].retried \/ t = NoToken)
    <3>1. /\ req' = [req EXCEPT ![r].pc = "find", ![r].sent = t] /\ t # NoToken
          /\ Disturb({x \in {t} : OtherHolders(r, session[x])})
          /\ UNCHANGED <<mem, store>>
      BY <1>40, <2>3 DEF HandleDenied
    <3>2. /\ req'[r].pc = "find" /\ req'[r].sent = t /\ ~req'[r].lost
          /\ \A q \in Request \ {r} : req'[q] = req[q]
      BY <1>1, <2>1, <3>1 DEF Call
    <3>3. CASE session[t] # s
      <4>1. ~Refreshes(r, s)'
        BY <2>1, <3>2, <3>3 DEF Refreshes
      <4>2. GoesOn(s)
        BY <1>9, <2>1, <3>2, <4>1 DEF Refreshes
      <4> QED
        BY <1>5, <1>14, <2>1, <3>1, <4>2
    <3>4. CASE session[t] = s
      <4>1. ~OtherHolders(r, s)
        BY <1>4, <3>1, <3>4
      <4>2. /\ \A c \in Tab : Holds(c, s) => c = b
            /\ \A q \in Request : ~Refreshes(q, s)
        BY <2>1, <4>1 DEF OtherHolders, Refreshes
      <4>3. Holds(b, s) /\ b \in Tab
        BY <1>3, <3>1, <3>4 DEF Holds
      <4>4. t \in rows
        BY <1>2, <4>2, <4>3 DEF LiveSession
      <4>5. Refreshes(r, s)' /\ ~LoginAnswer(r)'
        BY <2>1, <3>1, <3>2, <3>4
           DEF Refreshes, InRefresh, RefreshPlaces, LoginAnswer, At
      <4>6. \A q \in Request : Refreshes(q, s)' => q = r
        BY <2>1, <3>2, <4>2 DEF Refreshes, InRefresh
      <4>7. \A c \in Tab : Holds(c, s)' => c = b
        BY <2>1, <3>1, <4>2 DEF Holds
      <4> QED
        BY <2>1, <3>2, <4>4, <4>5, <4>6, <4>7 DEF LiveSession
    <3> QED
      BY <3>3, <3>4
  <2> QED
    BY <2>2, <2>3
<1>41. ASSUME NEW r \in Request, HandleRefused(r)
       PROVE  LiveSession(s)'
  <2>1. /\ UNCHANGED <<rows, session>> /\ SetTokens(TabOf[r], NoToken)
        /\ req' = [req EXCEPT ![r] = Idle] /\ At(r, "refused")
    BY <1>41 DEF HandleRefused, database
  <2>2. ~Refreshes(r, s)
    BY <1>15, <2>1 DEF At
  <2>3. GoesOn(s)
    BY <1>10, <1>11, <2>1, <2>2
  <2> QED
    BY <1>3, <1>6, <1>14, <2>1, <2>3
<1>42. ASSUME NEW r \in Request, HandleError(r)
       PROVE  LiveSession(s)'
  <2>1. /\ UNCHANGED <<rows, session>> /\ Throw(r)
        /\ req' = [req EXCEPT ![r] = Idle] /\ ~InRefresh(r)
    BY <1>42 DEF HandleError, database, At, InRefresh, RefreshPlaces
  <2>2. GoesOn(s)
    BY <1>10, <1>11, <2>1 DEF Refreshes
  <2> QED
    BY <1>7, <1>14, <2>1, <2>2
<1>43. ASSUME NEW r \in Request, HandleLost(r)
       PROVE  LiveSession(s)'
  <2>1. /\ UNCHANGED <<rows, session, mem, store>>
        /\ req' = [req EXCEPT ![r] = Idle] /\ req[r].lost
    BY <1>43 DEF HandleLost, database, browser
  <2>2. Refreshes(r, s) => LoginAnswer(r)
    BY <1>15, <2>1
  <2>3. GoesOn(s)
    BY <1>10, <1>11, <2>1, <2>2
  <2> QED
    BY <1>5, <1>14, <2>1, <2>3
<1>44. ASSUME NEW r \in Request, HandleAnswer(r)
       PROVE  LiveSession(s)'
  <2> DEFINE b == TabOf[r]
             t == req[r].sent
  <2>1. /\ UNCHANGED <<rows, session>> /\ At(r, "answer")
        /\ mem' = [mem EXCEPT ![b] = t] /\ store' = t
        /\ InRefresh(r) /\ t # NoToken /\ b \in Tab
    BY <1>2, <1>3, <1>44
       DEF HandleAnswer, database, SetTokens, Received, LiveInv, ExcuseInv, At, InRefresh,
           RefreshPlaces
  <2>2. /\ req'[r].pc \notin RefreshPlaces
        /\ \A q \in Request \ {r} : req'[q] = req[q]
    BY <1>1, <1>44
       DEF HandleAnswer, LoginAnswered, RefreshAnswered, Idle, RefreshPlaces, Call
  <2>3. ~Refreshes(r, s)'
    BY <2>2 DEF Refreshes, InRefresh
  <2>4. CASE session[t] # s
    <3>1. Forgets(s)
      BY <1>1, <2>1, <2>4 DEF Forgets, Holds, StoreHolds
    <3>2. GoesOn(s)
      BY <1>9, <2>1, <2>2, <2>3, <2>4 DEF Refreshes
    <3> QED
      BY <1>14, <2>1, <3>1, <3>2
  <2>5. CASE session[t] = s
    <3>1. Refreshes(r, s)
      BY <2>1, <2>5 DEF Refreshes
    <3>2. \A q \in Request : ~Refreshes(q, s)'
      BY <1>15, <2>1, <2>2, <2>3, <3>1 DEF Refreshes, InRefresh
    <3>3. t \in rows /\ \A c \in Tab : Holds(c, s) => c = b
      BY <1>2, <1>15, <2>1, <3>1 DEF LiveSession, At
    <3>4. \A c \in Tab : Holds(c, s)' => mem'[c] \in rows'
      BY <1>1, <2>1, <3>3 DEF Holds
    <3> QED
      BY <2>1, <3>2, <3>3, <3>4 DEF LiveSession
  <2> QED
    BY <2>4, <2>5
\* What happens around them.
<1>50. ASSUME NEW r \in Request, Break(r)
       PROVE  LiveSession(s)'
  <2> DEFINE going == {t \in {req[r].sent} : InRefresh(r)}
  <2>1. /\ UNCHANGED <<rows, session>> /\ Throw(r)
        /\ Disturb(going \union {t \in {mem[TabOf[r]]} : req[r].kind = "me"})
    BY <1>50 DEF Break, database
  <2>2. /\ req'[r].pc = req[r].pc /\ req'[r].sent = req[r].sent
        /\ \A q \in Request \ {r} : req'[q] = req[q]
    BY <1>1, <1>50 DEF Break, Call
  <2>3. ~Refreshes(r, s)
    BY <1>4, <2>1 DEF Refreshes
  <2>4. ~Refreshes(r, s)'
    BY <2>1, <2>2, <2>3 DEF Refreshes, InRefresh
  <2>5. GoesOn(s)
    BY <1>9, <2>1, <2>2, <2>3, <2>4
  <2> QED
    BY <1>7, <1>14, <2>1, <2>5
<1>51. ASSUME NEW t \in Token, Age(t)
       PROVE  LiveSession(s)'
  BY <1>5, <1>8, <1>14, <1>51 DEF Age, browser
<1>52. CASE Revoke
  <2>1. PICK gone \in {rows} \union {{t} : t \in rows} : rows' = rows \ gone /\ Disturb(gone)
    BY <1>52 DEF Revoke
  <2>2. UNCHANGED <<session, mem, store, req>>
    BY <1>52 DEF Revoke, browser
  <2>3. \A t \in rows : session[t] = s => t \in rows'
    BY <1>4, <2>1 DEF TypeOK, Token, NoToken
  <2> QED
    BY <1>2, <1>5, <1>8, <2>2, <2>3, LiveFrame DEF Unconcerned
<1>53. ~Toggle
  BY DEF Toggle
<1>54. CASE UNCHANGED vars
  BY <1>5, <1>8, <1>14, <1>54 DEF vars, database, browser
<1> QED
  BY <1>20, <1>23, <1>24, <1>25, <1>30, <1>31, <1>32, <1>33, <1>34, <1>40, <1>41, <1>42,
     <1>43, <1>44, <1>50, <1>51, <1>52, <1>53, <1>54 DEF Next, Step

\* It is an invariant.
LEMMA LiveSessions == Spec => []LiveInv
<1>1. Init => LiveInv
  <2> SUFFICES ASSUME Init
               PROVE  LiveInv
    OBVIOUS
  <2>1. ExcuseInv
    BY DEF Init, ExcuseInv, Idle, At
  <2>2. ASSUME NEW s \in Token
        PROVE  LiveSession(s)
    BY <2>2 DEF Init, LiveSession, Refreshes, InRefresh, RefreshPlaces, Holds, StoreHolds, Idle
  <2> QED
    BY <2>1, <2>2 DEF LiveInv
<1>2. SessionsInv /\ LiveInv /\ [Next]_vars => LiveInv'
  <2> SUFFICES ASSUME SessionsInv, LiveInv, [Next]_vars
               PROVE  LiveInv'
    OBVIOUS
  <2>1. ExcuseInv'
    BY ExcuseStep DEF LiveInv
  <2>2. \A s \in Token \ disturbed' : LiveSession(s)'
    BY LiveStep
  <2> QED
    BY <2>1, <2>2 DEF LiveInv, Token
<1> QED
  BY <1>1, <1>2, SessionsInductive, PTL DEF Spec

\* A token that a tab holds is the one that the server accepts, or the tab waits for
\* its successor, for any number of tabs, requests and tokens.
THEOREM HeldTokensAreLive == Spec => []HeldTokenIsLive
<1>1. SessionsInv /\ LiveInv => HeldTokenIsLive
  <2> SUFFICES ASSUME SessionsInv, LiveInv, NEW b \in Tab,
                      mem[b] # NoToken, session[mem[b]] \notin disturbed
               PROVE  \/ mem[b] \in rows
                      \/ \E r \in Request : TabOf[r] = b /\ InRefresh(r) /\ ~req[r].lost
    BY DEF HeldTokenIsLive
  <2> DEFINE s == session[mem[b]]
  <2>1. s \in Token /\ Holds(b, s)
    <3>1. mem[b] \in Token /\ mem[b] <= issued
      BY DEF SessionsInv, IssuedInv, TypeOK, TokenOrNone
    <3>2. s \in 1 .. issued
      BY <3>1 DEF SessionsInv, IssuedInv
    <3> QED
      BY <3>2, SessionsAssumption DEF Holds, Token, SessionsInv, TypeOK
  <2>2. LiveSession(s)
    BY <2>1 DEF LiveInv
  <2>3. CASE mem[b] \notin rows
    <3>1. PICK r \in Request : Refreshes(r, s)
      BY <2>1, <2>2, <2>3 DEF LiveSession
    <3>2. b = TabOf[r] /\ ~req[r].lost
      BY <2>1, <2>2, <3>1 DEF LiveSession
    <3> QED
      BY <3>1, <3>2 DEF Refreshes
  <2> QED
    BY <2>3
<1> QED
  BY <1>1, SessionsInductive, LiveSessions, PTL

-----------------------------------------------------------------------------
\* Tokens that are kept.

Keeps(q) ==
  /\ req'[q].kind = req[q].kind
  /\ req'[q].sent = req[q].sent
  /\ req'[q].retried = req[q].retried

\* How a step moves a request on.
Moves(q) ==
  \/ Keeps(q) /\ req'[q].pc = req[q].pc
  \/ req'[q].pc = "idle"
  \/ req'[q].pc = "call" /\ ~req'[q].retried
  \/ /\ At(q, "call") /\ req[q].kind # "login" /\ Keeps(q)
     /\ req'[q].pc = "denied" /\ ~Authorized(req[q].sent)
  \/ At(q, "call") /\ req[q].kind = "login" /\ Keeps(q) /\ req'[q].pc \in {"issue", "denied"}
  \/ /\ req[q].pc \in {"find", "delete"} /\ Keeps(q)
     /\ req'[q].pc \in {"delete", "issue", "refused"}
  \/ At(q, "issue") /\ Keeps(q) /\ req'[q].pc = Resolved(q)
  \/ /\ req[q].pc \in {"call", "find", "delete", "issue", "insert"} /\ Keeps(q)
     /\ req'[q].pc = IF InRefresh(q) /\ ~IsLogin(q) THEN "refused" ELSE "error"
  \/ InsertToken(q)
  \/ req'[q].pc = "find" /\ req'[q].sent # NoToken
  \/ /\ At(q, "answer") /\ req'[q].pc = "call" /\ req'[q].kind = req[q].kind
     /\ req[q].kind # "login" => req'[q].sent = req[q].sent

\* Every step moves it on in one of these ways.
LEMMA RequestMoves ==
  ASSUME SessionsInv, [Next]_vars, NEW q \in Request
  PROVE  Moves(q)
<1> USE SessionsAssumption DEF SessionsInv
<1>1. req \in [Request -> Call] /\ req' \in [Request -> Call]
  BY RequestStep DEF TypeOK
<1>2. req'[q] = req[q] => Moves(q)
  BY DEF Moves, Keeps
<1>3. ASSUME NEW r \in Request, req' = [req EXCEPT ![r] = Idle]
      PROVE  Moves(q)
  <2>1. q = r => req'[q].pc = "idle"
    BY <1>1, <1>3 DEF Idle
  <2>2. q # r => req'[q] = req[q]
    BY <1>1, <1>3
  <2> QED
    BY <1>2, <2>1, <2>2 DEF Moves
<1>4. ASSUME NEW r \in Request, NEW kind, NEW t, req' = [req EXCEPT ![r] = Sent(kind, t)]
      PROVE  Moves(q)
  <2>1. q = r => req'[q].pc = "call" /\ ~req'[q].retried
    BY <1>1, <1>4 DEF Sent
  <2>2. q # r => req'[q] = req[q]
    BY <1>1, <1>4
  <2> QED
    BY <1>2, <2>1, <2>2 DEF Moves
<1>5. ASSUME NEW r \in Request,
             \/ StartData(r) \/ StartLogin(r) \/ HandleRefused(r) \/ HandleError(r)
             \/ HandleLost(r)
      PROVE  Moves(q)
  BY <1>3, <1>4, <1>5 DEF StartData, StartLogin, HandleRefused, HandleError, HandleLost
<1>6. ASSUME NEW r \in Request, NEW label, Goto(r, label), q # r
      PROVE  Moves(q)
  BY <1>2, <1>6 DEF Goto
<1>7. ASSUME NEW label, Goto(q, label)
      PROVE  Keeps(q) /\ req'[q].pc = label
  BY <1>1, <1>7 DEF Goto, Keeps, Call
<1>8. ASSUME NEW r \in Request, HandleCall(r)
      PROVE  Moves(q)
  <2>1. CASE req' = [req EXCEPT ![r] = Idle]
    BY <1>3, <2>1
  <2>2. CASE Goto(r, "denied") /\ ~Authorized(req[r].sent)
    <3>1. CASE q = r
      BY <1>7, <1>8, <2>2, <3>1 DEF HandleCall, Moves
    <3>2. CASE q # r
      BY <1>6, <2>2, <3>2
    <3> QED
      BY <3>1, <3>2
  <2> QED
    BY <1>8, <2>1, <2>2 DEF HandleCall
<1>9. ASSUME NEW r \in Request,
             \/ HandleLogin(r) \/ FindToken(r) \/ DeleteToken(r) \/ ResolveUser(r)
             \/ InsertFails(r) \/ Rejects(r)
      PROVE  Moves(q)
  <2>1. \E label : Goto(r, label)
    BY <1>9 DEF HandleLogin, FindToken, DeleteToken, ResolveUser, InsertFails, Rejects
  <2>2. CASE q # r
    BY <1>6, <2>1, <2>2
  <2>3. CASE q = r
    <3>1. HandleLogin(q) => Moves(q)
      BY <1>7 DEF HandleLogin, Moves
    <3>2. FindToken(q) => Moves(q)
      BY <1>7 DEF FindToken, Moves, At
    <3>3. DeleteToken(q) => Moves(q)
      BY <1>7 DEF DeleteToken, Moves, At
    <3>4. ResolveUser(q) => Moves(q)
      BY <1>7 DEF ResolveUser, Moves
    <3>5. InsertFails(q) => Moves(q)
      BY <1>7 DEF InsertFails, Moves, At, InRefresh, RefreshPlaces
    <3>6. Rejects(q) => Moves(q)
      BY <1>7 DEF Rejects, Moves
    <3> QED
      BY <1>9, <2>3, <3>1, <3>2, <3>3, <3>4, <3>5, <3>6
  <2> QED
    BY <2>2, <2>3
<1>10. ASSUME NEW r \in Request, InsertToken(r)
       PROVE  Moves(q)
  <2>1. q # r => req'[q] = req[q]
    BY <1>1, <1>10 DEF InsertToken
  <2> QED
    BY <1>2, <1>10, <2>1 DEF Moves
<1>11. ASSUME NEW r \in Request, HandleDenied(r)
       PROVE  Moves(q)
  <2>1. CASE req' = [req EXCEPT ![r] = Idle]
    BY <1>3, <2>1
  <2>2. CASE req' # [req EXCEPT ![r] = Idle]
    <3>1. /\ mem[TabOf[r]] # NoToken
          /\ req' = [req EXCEPT ![r].pc = "find", ![r].sent = mem[TabOf[r]]]
      BY <1>11, <2>2 DEF HandleDenied
    <3>2. req'[r].pc = "find" /\ req'[r].sent # NoToken
      BY <1>1, <3>1 DEF Call
    <3>3. q # r => req'[q] = req[q]
      BY <1>1, <3>1
    <3> QED
      BY <1>2, <3>2, <3>3 DEF Moves
  <2> QED
    BY <2>1, <2>2
<1>12. ASSUME NEW r \in Request, HandleAnswer(r)
       PROVE  Moves(q)
  <2>1. CASE LoginAnswered(r)
    BY <1>3, <2>1 DEF LoginAnswered
  <2>2. CASE RefreshAnswered(r)
    <3>1. /\ req'[r].pc = "call" /\ req'[r].kind = req[r].kind
          /\ req[r].kind # "login" => req'[r].sent = req[r].sent
      BY <1>1, <2>2 DEF RefreshAnswered, Call
    <3>2. q # r => req'[q] = req[q]
      BY <1>1, <2>2 DEF RefreshAnswered
    <3> QED
      BY <1>2, <1>12, <3>1, <3>2 DEF Moves, HandleAnswer
  <2> QED
    BY <1>12, <2>1, <2>2 DEF HandleAnswer
<1>13. ASSUME NEW r \in Request, Break(r)
       PROVE  Moves(q)
  <2>1. req'[q].pc = req[q].pc /\ Keeps(q)
    BY <1>1, <1>13 DEF Break, Call, Keeps
  <2> QED
    BY <2>1 DEF Moves
<1>14. ASSUME NEW b \in Tab, req'[q] = Orphaned(b)[q]
       PROVE  Moves(q)
  <2>1. req'[q].pc = req[q].pc /\ Keeps(q)
    BY <1>1, <1>14 DEF Orphaned, Call, Keeps
  <2> QED
    BY <2>1 DEF Moves
<1>15. ASSUME NEW r \in Request, Load(r)
       PROVE  Moves(q)
  <2>1. q = r => req'[q].pc = "call" /\ ~req'[q].retried
    BY <1>15 DEF Load, Orphaned, Sent
  <2>2. q # r => req'[q] = Orphaned(TabOf[r])[q]
    BY <1>15 DEF Load, Orphaned
  <2>3. TabOf[r] \in Tab
    OBVIOUS
  <2> QED
    BY <1>14, <2>1, <2>2, <2>3 DEF Moves
<1>16. ASSUME NEW b \in Tab, LoadLoginPage(b) \/ SignOut(b)
       PROVE  Moves(q)
  BY <1>2, <1>14, <1>16 DEF LoadLoginPage, SignOut
<1>17. UNCHANGED req => Moves(q)
  BY <1>2
<1> QED
  BY <1>5, <1>8, <1>9, <1>10, <1>11, <1>12, <1>13, <1>15, <1>16, <1>17
     DEF Next, Step, Age, Revoke, Toggle, vars

\* What a request carries where it stands: only a login goes without a token; an
\* access token is new while it is answered and when the call is repeated, so that a
\* second refusal is one of an inactive user.
CourseInv ==
  \A r \in Request :
    /\ InRefresh(r) /\ (req[r].sent = NoToken \/ LoginAnswer(r)) => req[r].kind = "login"
    /\ At(r, "refused") => req[r].sent # NoToken
    /\ At(r, "answer") => age[req[r].sent] = "new"
    /\ At(r, "call") /\ req[r].retried /\ req[r].kind # "login" =>
         req[r].sent # NoToken /\ age[req[r].sent] = "new"
    /\ At(r, "denied") /\ req[r].retried /\ req[r].kind = "me" => disturbed = Token

\* Every step keeps that.
LEMMA CourseStep ==
  ASSUME SessionsInv, ExcuseInv, CourseInv, [Next]_vars
  PROVE  CourseInv'
<1> SUFFICES ASSUME NEW q \in Request
             PROVE  /\ InRefresh(q)' /\ (req'[q].sent = NoToken \/ LoginAnswer(q)') =>
                         req'[q].kind = "login"
                    /\ req'[q].pc = "refused" => req'[q].sent # NoToken
                    /\ req'[q].pc = "answer" => age'[req'[q].sent] = "new"
                    /\ req'[q].pc = "call" /\ req'[q].retried /\ req'[q].kind # "login" =>
                         req'[q].sent # NoToken /\ age'[req'[q].sent] = "new"
                    /\ req'[q].pc = "denied" /\ req'[q].retried /\ req'[q].kind = "me" =>
                         disturbed' = Token
  BY DEF CourseInv, At
<1> USE SessionsAssumption DEF SessionsInv
<1>1. Moves(q)
  BY RequestMoves
<1>2. disturbed = Token => disturbed' = Token
  BY DisturbedStays, SessionsTypeStep DEF TypeOK
<1>3. req[q].sent \in TokenOrNone /\ req[q].sent <= issued
  BY DEF IssuedInv, TypeOK, Call
<1>4. /\ InRefresh(q) /\ (req[q].sent = NoToken \/ LoginAnswer(q)) => req[q].kind = "login"
      /\ At(q, "refused") => req[q].sent # NoToken
      /\ At(q, "answer") => age[req[q].sent] = "new" /\ req[q].sent # NoToken
      /\ At(q, "call") /\ req[q].retried /\ req[q].kind # "login" =>
           req[q].sent # NoToken /\ age[req[q].sent] = "new"
      /\ At(q, "denied") /\ req[q].retried /\ req[q].kind = "me" => disturbed = Token
  BY DEF CourseInv, ExcuseInv
<1>5. req[q].sent # NoToken => session'[req[q].sent] = session[req[q].sent]
  <2>1. CASE UNCHANGED session
    BY <2>1
  <2>2. CASE ~UNCHANGED session
    <3>1. PICK r \in Request : InsertToken(r)
      BY <2>2
         DEF Next, Step, vars, database, StartData, StartLogin, Load, LoadLoginPage, NewPage,
             SignOut, HandleCall, HandleLogin, FindToken, DeleteToken, ResolveUser, Age,
             InsertFails, Rejects, HandleDenied, HandleRefused, HandleError,
             HandleAnswer, HandleLost, Break, Revoke, Toggle
    <3>2. req[q].sent # New
      BY <1>3, <3>1 DEF New, TypeOK, TokenOrNone, Token, NoToken
    <3> QED
      BY <3>1, <3>2 DEF InsertToken, TypeOK
  <2> QED
    BY <2>1, <2>2
<1>6. req[q].pc \in {"call", "answer"} /\ req[q].sent # NoToken =>
        age'[req[q].sent] = age[req[q].sent]
  <2>1. CASE UNCHANGED age
    BY <2>1
  <2>2. CASE ~UNCHANGED age
    <3>1. PICK t \in Token : Age(t)
      BY <2>2
         DEF Next, Step, vars, database, StartData, StartLogin, Load, LoadLoginPage, NewPage,
             SignOut, HandleCall, HandleLogin, FindToken, DeleteToken, ResolveUser, InsertToken,
             InsertFails, Rejects, HandleDenied, HandleRefused, HandleError,
             HandleAnswer, HandleLost, Break, Revoke, Toggle
    <3>2. req[q].pc \in {"call", "answer"} => req[q].sent # t
      BY <3>1 DEF Age
    <3> QED
      BY <1>3, <3>1, <3>2 DEF Age, TypeOK, TokenOrNone
  <2> QED
    BY <2>1, <2>2
<1>7. CASE Keeps(q) /\ req'[q].pc = req[q].pc
  <2>1. LoginAnswer(q)' /\ req[q].sent # NoToken => LoginAnswer(q)
    BY <1>5, <1>7 DEF LoginAnswer, At, Keeps
  <2> QED
    BY <1>2, <1>4, <1>6, <1>7, <2>1 DEF InRefresh, At, Keeps
<1>8. CASE \/ req'[q].pc = "idle"
           \/ req'[q].pc = "call" /\ ~req'[q].retried
           \/ req'[q].pc = "find" /\ req'[q].sent # NoToken
  BY <1>8 DEF InRefresh, RefreshPlaces, LoginAnswer, At
<1>9. CASE /\ At(q, "call") /\ req[q].kind # "login" /\ Keeps(q)
           /\ req'[q].pc = "denied" /\ ~Authorized(req[q].sent)
  <2>1. req[q].retried => disturbed = Token
    BY <1>4, <1>9 DEF Authorized, ExcuseInv
  <2> QED
    BY <1>2, <1>9, <2>1 DEF InRefresh, RefreshPlaces, Keeps
<1>10. CASE /\ At(q, "call") /\ req[q].kind = "login" /\ Keeps(q)
            /\ req'[q].pc \in {"issue", "denied"}
  BY <1>10 DEF Keeps
<1>11. CASE /\ req[q].pc \in {"find", "delete"} /\ Keeps(q)
            /\ req'[q].pc \in {"delete", "issue", "refused"}
  BY <1>11 DEF Keeps, SentInv, LoginAnswer, At
<1>12. CASE At(q, "issue") /\ Keeps(q) /\ req'[q].pc = Resolved(q)
  BY <1>4, <1>12 DEF Keeps, Resolved, IsLogin, LoginAnswer, At, InRefresh, RefreshPlaces
<1>13. CASE /\ req[q].pc \in {"call", "find", "delete", "issue", "insert"} /\ Keeps(q)
            /\ req'[q].pc = IF InRefresh(q) /\ ~IsLogin(q) THEN "refused" ELSE "error"
  BY <1>4, <1>13 DEF Keeps, IsLogin, LoginAnswer, At, InRefresh, RefreshPlaces
<1>14. CASE InsertToken(q)
  <2>1. /\ New \in Token /\ New > issued /\ New # NoToken /\ age' = age
        /\ session'[New] = IF IsLogin(q) THEN New ELSE session[req[q].sent]
        /\ InRefresh(q)
    BY <1>14 DEF InsertToken, New, Token, NoToken, TypeOK, InRefresh, RefreshPlaces, At
  <2>2. req'[q].sent = New /\ req'[q].pc = "answer" /\ req'[q].kind = req[q].kind
    BY <1>14 DEF InsertToken, Call, TypeOK
  <2>3. age[New] = "new"
    BY <2>1 DEF ExcuseInv
  <2>4. LoginAnswer(q)' => IsLogin(q)
    <3>1. SUFFICES ASSUME ~IsLogin(q)
                   PROVE  session'[New] # New
      BY <2>2 DEF LoginAnswer
    <3>2. req[q].sent \in Token
      BY <1>3, <3>1 DEF IsLogin, TokenOrNone
    <3>3. session[req[q].sent] \in 1 .. issued
      BY <1>3, <3>2 DEF IssuedInv
    <3> QED
      BY <2>1, <3>1, <3>3 DEF TypeOK
  <2> QED
    BY <1>4, <2>1, <2>2, <2>3, <2>4 DEF IsLogin
<1>15. CASE /\ At(q, "answer") /\ req'[q].pc = "call" /\ req'[q].kind = req[q].kind
            /\ req[q].kind # "login" => req'[q].sent = req[q].sent
  BY <1>4, <1>6, <1>15 DEF InRefresh, RefreshPlaces, At
<1> QED
  BY <1>1, <1>7, <1>8, <1>9, <1>10, <1>11, <1>12, <1>13, <1>14, <1>15 DEF Moves
\* A session that is disturbed, or none.
Excused(t) == t = NoToken \/ session[t] \in disturbed

\* A request that refreshes a token its tab has held.
RefreshesFor(r) ==
  InRefresh(r) /\ ~req[r].lost /\ req[r].sent # NoToken /\ ~LoginAnswer(r)

\* Its tab still holds a token of that session, or the session is disturbed and so is
\* that of the token which the tab holds now.
OwnOrExcused(r) ==
  RefreshesFor(r) =>
    \/ Holds(TabOf[r], session[req[r].sent])
    \/ Excused(req[r].sent) /\ Excused(mem[TabOf[r]])

\* A tab that shows nobody while it holds a token waits for who that is.
ShownOrLoading(b) ==
  \/ b \in signedIn
  \/ Excused(mem[b])
  \/ \E r \in Request : TabOf[r] = b /\ Waiting(r, "me")

\* Nobody is signed in where a login waits, and nothing else asks who that is.
LoginAlone(q) ==
  Waiting(q, "login") =>
    /\ TabOf[q] \notin signedIn
    /\ \A r \in Request : TabOf[r] = TabOf[q] =>
         ~Waiting(r, "me") /\ (Waiting(r, "login") => r = q)

PageInv ==
  /\ \A r \in Request : OwnOrExcused(r) /\ LoginAlone(r)
  /\ \A b \in Tab : ShownOrLoading(b)

\* Every step keeps that.
LEMMA PageStep ==
  ASSUME SessionsInv, LiveInv, CourseInv, PageInv, Next
  PROVE  PageInv'
<1> USE SessionsAssumption DEF SessionsInv
<1>1. req \in [Request -> Call] /\ req' \in [Request -> Call] /\ mem \in [Tab -> TokenOrNone]
  BY RequestStep DEF TypeOK
<1>2. disturbed \subseteq disturbed' /\ disturbed' \subseteq Token /\ ExcuseInv
  BY DisturbedStays, SessionsTypeStep DEF TypeOK, LiveInv
<1>3. /\ \A r \in Request : TabOf[r] \in Tab
      /\ \A r \in Request : req[r].sent \in TokenOrNone /\ req[r].sent <= issued
      /\ \A b \in Tab : mem[b] \in TokenOrNone /\ mem[b] <= issued
      /\ store \in TokenOrNone /\ store <= issued
  BY <1>1 DEF TypeOK, Call, IssuedInv
<1>4. ASSUME NEW t \in TokenOrNone, t # NoToken, t <= issued
      PROVE  session'[t] = session[t] /\ session[t] \in Token
  <2>1. t \in Token /\ session[t] \in 1 .. issued
    BY <1>4 DEF TokenOrNone, IssuedInv
  <2>2. CASE UNCHANGED session
    BY <2>1, <2>2 DEF Token, TypeOK
  <2>3. CASE ~UNCHANGED session
    <3>1. PICK r \in Request : InsertToken(r)
      BY <2>3
         DEF Next, Step, database, StartData, StartLogin, Load, LoadLoginPage, NewPage,
             SignOut, HandleCall, HandleLogin, FindToken, DeleteToken, ResolveUser, Age,
             InsertFails, Rejects, HandleDenied, HandleRefused, HandleError,
             HandleAnswer, HandleLost, Break, Revoke, Toggle
    <3>2. t # New
      BY <1>4, <3>1 DEF New, TypeOK
    <3> QED
      BY <2>1, <3>1, <3>2 DEF InsertToken, Token, TypeOK
  <2> QED
    BY <2>2, <2>3
<1>5. ASSUME NEW t \in TokenOrNone, t <= issued, Excused(t)
      PROVE  Excused(t)'
  BY <1>2, <1>4, <1>5 DEF Excused
<1>6. ASSUME NEW r \in Request
      PROVE  OwnOrExcused(r) /\ LoginAlone(r)
  BY DEF PageInv
<1>7. ASSUME NEW b \in Tab
      PROVE  ShownOrLoading(b)
  BY DEF PageInv
\* Where nothing changes.
<1>10. ASSUME NEW r \in Request, RefreshesFor(r)' => RefreshesFor(r) /\ req'[r].sent = req[r].sent,
              mem'[TabOf[r]] = mem[TabOf[r]]
       PROVE  OwnOrExcused(r)'
  <2>1. SUFFICES ASSUME RefreshesFor(r)'
                 PROVE  \/ Holds(TabOf[r], session[req[r].sent])'
                        \/ Excused(req[r].sent)' /\ Excused(mem[TabOf[r]])'
    BY DEF OwnOrExcused
  <2>2. RefreshesFor(r) /\ req'[r].sent = req[r].sent
    BY <1>10, <2>1
  <2>3. req[r].sent # NoToken /\ session'[req[r].sent] = session[req[r].sent]
    BY <1>3, <1>4, <2>2 DEF RefreshesFor
  <2>4. CASE Holds(TabOf[r], session[req[r].sent])
    BY <1>3, <1>4, <1>10, <2>2, <2>3, <2>4 DEF Holds
  <2>5. CASE Excused(req[r].sent) /\ Excused(mem[TabOf[r]])
    BY <1>3, <1>5, <1>10, <2>2, <2>5 DEF Excused
  <2> QED
    BY <1>6, <2>2, <2>4, <2>5 DEF OwnOrExcused
<1>11. ASSUME NEW b \in Tab, mem'[b] = mem[b], b \in signedIn => b \in signedIn',
              \A r \in Request : TabOf[r] = b /\ Waiting(r, "me") => Waiting(r, "me")'
       PROVE  ShownOrLoading(b)'
  <2>1. Excused(mem[b]) => Excused(mem[b])'
    BY <1>3, <1>5, <1>11 DEF Excused
  <2> QED
    BY <1>7, <1>11, <2>1 DEF ShownOrLoading
<1>12. ASSUME NEW q \in Request, TabOf[q] \in signedIn' => TabOf[q] \in signedIn,
              \A r \in Request : TabOf[r] = TabOf[q] =>
                /\ Waiting(r, "me")' => Waiting(r, "me")
                /\ Waiting(r, "login")' => Waiting(r, "login")
       PROVE  LoginAlone(q)'
  BY <1>6, <1>12 DEF LoginAlone
<1>13. ASSUME NEW r \in Request, req'[r].pc = req[r].pc, req'[r].kind = req[r].kind,
              req'[r].sent = req[r].sent, req[r].lost => req'[r].lost
       PROVE  /\ RefreshesFor(r)' => RefreshesFor(r) /\ req'[r].sent = req[r].sent
              /\ \A kind : Waiting(r, kind)' => Waiting(r, kind)
              /\ req'[r].lost = req[r].lost => \A kind : Waiting(r, kind)' <=> Waiting(r, kind)
  <2>1. req[r].sent # NoToken => (LoginAnswer(r)' <=> LoginAnswer(r))
    BY <1>3, <1>4, <1>13 DEF LoginAnswer, At
  <2>2. RefreshesFor(r)' => RefreshesFor(r)
    BY <1>13, <2>1 DEF RefreshesFor, InRefresh
  <2>3. \A kind : Waiting(r, kind)' => Waiting(r, kind)
    BY <1>13 DEF Waiting, Busy, At
  <2>4. req'[r].lost = req[r].lost => \A kind : Waiting(r, kind)' <=> Waiting(r, kind)
    BY <1>13 DEF Waiting, Busy, At
  <2> QED
    BY <1>13, <2>2, <2>3, <2>4
<1>14. ASSUME NEW r \in Request, req'[r] = req[r]
       PROVE  /\ RefreshesFor(r)' => RefreshesFor(r) /\ req'[r].sent = req[r].sent
              /\ \A kind : Waiting(r, kind)' <=> Waiting(r, kind)
  BY <1>13, <1>14
\* A request goes on, alone.
<1>15. ASSUME NEW r \in Request, UNCHANGED <<mem, signedIn>>,
              \A q \in Request \ {r} : req'[q] = req[q],
              (RefreshesFor(r)' => RefreshesFor(r) /\ req'[r].sent = req[r].sent)
                \/ OwnOrExcused(r)',
              Waiting(r, "me")' <=> Waiting(r, "me"), Waiting(r, "login")' => Waiting(r, "login")
       PROVE  PageInv'
  <2>1. \A q \in Request : OwnOrExcused(q)'
    BY <1>10, <1>14, <1>15 DEF OwnOrExcused
  <2>2. \A q \in Request : LoginAlone(q)'
    BY <1>12, <1>14, <1>15
  <2>3. \A b \in Tab : ShownOrLoading(b)'
    BY <1>11, <1>14, <1>15
  <2> QED
    BY <2>1, <2>2, <2>3 DEF PageInv
<1>16. ASSUME UNCHANGED <<mem, signedIn, req>>
       PROVE  PageInv'
  <2>1. \A q \in Request : OwnOrExcused(q)'
    BY <1>10, <1>14, <1>16
  <2>2. \A q \in Request : LoginAlone(q)'
    BY <1>12, <1>14, <1>16
  <2>3. \A b \in Tab : ShownOrLoading(b)'
    BY <1>11, <1>14, <1>16
  <2> QED
    BY <2>1, <2>2, <2>3 DEF PageInv
<1>20. ASSUME NEW r \in Request, StartData(r)
       PROVE  PageInv'
  <2>1. /\ UNCHANGED <<mem, signedIn>> /\ ~Busy(r)
        /\ \A q \in Request \ {r} : req'[q] = req[q]
        /\ req'[r].pc = "call" /\ req'[r].kind = "data"
    BY <1>1, <1>20 DEF StartData, browser, Sent, Busy, At
  <2>2. ~RefreshesFor(r)' /\ ~Waiting(r, "me")' /\ ~Waiting(r, "login")' /\ ~Waiting(r, "me")
    BY <2>1 DEF RefreshesFor, InRefresh, RefreshPlaces, Waiting
  <2> QED
    BY <1>15, <2>1, <2>2
<1>21. ASSUME NEW r \in Request, StartLogin(r)
       PROVE  PageInv'
  <2>1. /\ UNCHANGED <<mem, signedIn>> /\ ~Busy(r) /\ TabOf[r] \notin signedIn
        /\ \A q \in Request : TabOf[q] = TabOf[r] => ~Waiting(q, "me") /\ ~Waiting(q, "login")
        /\ \A q \in Request \ {r} : req'[q] = req[q]
        /\ req'[r].pc = "call" /\ req'[r].kind = "login"
    BY <1>1, <1>21 DEF StartLogin, browser, Sent, Busy, At
  <2>2. ~RefreshesFor(r)' /\ ~Waiting(r, "me")'
    BY <2>1 DEF RefreshesFor, InRefresh, RefreshPlaces, Waiting
  <2>3. \A q \in Request : OwnOrExcused(q)'
    BY <1>10, <1>14, <2>1, <2>2
  <2>4. \A b \in Tab : ShownOrLoading(b)'
    BY <1>11, <1>14, <2>1
  <2>5. ASSUME NEW q \in Request
        PROVE  LoginAlone(q)'
    <3>1. CASE TabOf[q] # TabOf[r]
      BY <1>12, <1>14, <2>1, <3>1
    <3>2. CASE TabOf[q] = TabOf[r]
      <4>1. \A p \in Request \ {r} : TabOf[p] = TabOf[r] =>
              ~Waiting(p, "me")' /\ ~Waiting(p, "login")'
        BY <1>14, <2>1
      <4> QED
        BY <2>1, <2>2, <3>2, <4>1 DEF LoginAlone
    <3> QED
      BY <3>1, <3>2
  <2> QED
    BY <2>3, <2>4, <2>5 DEF PageInv
<1>22. ASSUME NEW r \in Request, NEW label, Goto(r, label), UNCHANGED <<mem, signedIn>>,
              Busy(r), label # "idle",
              label \in RefreshPlaces => InRefresh(r) \/ req[r].sent = NoToken,
              label = "answer" => At(r, "answer"), ~At(r, "answer")
       PROVE  PageInv'
  <2>1. /\ req'[r].pc = label /\ req'[r].kind = req[r].kind /\ req'[r].sent = req[r].sent
        /\ req'[r].lost = req[r].lost /\ \A q \in Request \ {r} : req'[q] = req[q]
    BY <1>1, <1>22 DEF Goto, Call
  <2>2. RefreshesFor(r)' => RefreshesFor(r)
    BY <1>22, <2>1 DEF RefreshesFor, InRefresh, LoginAnswer, At
  <2>3. \A kind : Waiting(r, kind)' <=> Waiting(r, kind)
    BY <1>22, <2>1 DEF Waiting, Busy, At
  <2> QED
    BY <1>15, <1>22, <2>1, <2>2, <2>3
<1>23. ASSUME NEW r \in Request,
              \/ HandleLogin(r) \/ FindToken(r) \/ DeleteToken(r) \/ ResolveUser(r)
              \/ InsertFails(r) \/ Rejects(r)
       PROVE  PageInv'
  <2>1. UNCHANGED <<mem, signedIn>> /\ Busy(r) /\ ~At(r, "answer")
    BY <1>23 DEF HandleLogin, FindToken, DeleteToken, ResolveUser, InsertFails, Rejects,
                 browser, Busy, At
  <2>2. InRefresh(r) \/ req[r].sent = NoToken \/ Goto(r, "error")
    BY <1>23 DEF HandleLogin, FindToken, DeleteToken, ResolveUser, InsertFails, Rejects,
                 InRefresh, RefreshPlaces, At, SentInv
  <2>3. \E label \in {"issue", "denied", "delete", "refused", "insert", "error"} : Goto(r, label)
    BY <1>23 DEF HandleLogin, FindToken, DeleteToken, ResolveUser, Resolved, InsertFails, Rejects
  <2> QED
    BY <1>22, <2>1, <2>2, <2>3 DEF RefreshPlaces
<1>24. ASSUME NEW r \in Request, InsertToken(r)
       PROVE  PageInv'
  <2>1. /\ UNCHANGED <<mem, signedIn>> /\ New \in Token /\ New > issued
        /\ session'[New] = IF IsLogin(r) THEN New ELSE session[req[r].sent]
        /\ req[r].pc = "insert"
    BY <1>24 DEF InsertToken, New, Token, browser, TypeOK, At
  <2>2. /\ req'[r].sent = New /\ req'[r].pc = "answer" /\ req'[r].lost = req[r].lost
        /\ req'[r].kind = req[r].kind /\ \A q \in Request \ {r} : req'[q] = req[q]
    BY <1>1, <1>24 DEF InsertToken, Call
  <2>3. \A kind : Waiting(r, kind)' <=> Waiting(r, kind)
    BY <2>1, <2>2 DEF Waiting, Busy, At
  <2>4. OwnOrExcused(r)'
    <3>1. CASE IsLogin(r)
      BY <2>1, <2>2, <3>1 DEF OwnOrExcused, RefreshesFor, LoginAnswer, At
    <3>2. CASE ~IsLogin(r) /\ ~req[r].lost
      <4>1. RefreshesFor(r)
        BY <2>1, <3>2 DEF RefreshesFor, InRefresh, RefreshPlaces, LoginAnswer, At, IsLogin
      <4>2. session'[New] = session[req[r].sent] /\ req[r].sent # NoToken
        BY <2>1, <3>2 DEF IsLogin
      <4>3. CASE Holds(TabOf[r], session[req[r].sent])
        BY <1>3, <1>4, <2>1, <2>2, <4>2, <4>3 DEF OwnOrExcused, Holds
      <4>4. CASE Excused(req[r].sent) /\ Excused(mem[TabOf[r]])
        <5>1. Excused(mem[TabOf[r]])'
          BY <1>3, <1>5, <2>1, <4>4 DEF Excused
        <5>2. session'[New] \in disturbed'
          BY <1>2, <4>2, <4>4 DEF Excused
        <5> QED
          BY <2>2, <5>1, <5>2 DEF OwnOrExcused, Excused
      <4> QED
        BY <1>6, <4>1, <4>3, <4>4 DEF OwnOrExcused
    <3>3. CASE req[r].lost
      BY <2>2, <3>3 DEF OwnOrExcused, RefreshesFor
    <3> QED
      BY <3>1, <3>2, <3>3
  <2> QED
    BY <1>15, <2>1, <2>2, <2>3, <2>4
\* A request ends, and no tab changes.
<1>25. ASSUME NEW r \in Request, req' = [req EXCEPT ![r] = Idle], UNCHANGED <<mem, signedIn>>,
              ~Waiting(r, "me")
       PROVE  PageInv'
  <2>1. req'[r] = Idle /\ \A q \in Request \ {r} : req'[q] = req[q]
    BY <1>1, <1>25
  <2>2. ~RefreshesFor(r)' /\ ~Waiting(r, "me")' /\ ~Waiting(r, "login")'
    BY <2>1 DEF RefreshesFor, InRefresh, RefreshPlaces, Waiting, Idle, Busy, At
  <2> QED
    BY <1>15, <1>25, <2>1, <2>2
<1>26. ASSUME NEW r \in Request, HandleLost(r)
       PROVE  PageInv'
  <2>1. UNCHANGED <<mem, signedIn>> /\ ~Waiting(r, "me") /\ req' = [req EXCEPT ![r] = Idle]
    BY <1>26 DEF HandleLost, browser, Waiting
  <2> QED
    BY <1>25, <2>1
<1>27. ASSUME NEW r \in Request, HandleCall(r)
       PROVE  PageInv'
  <2>1. mem' = mem
    BY <1>27 DEF HandleCall
  <2>2. CASE Goto(r, "denied") /\ UNCHANGED signedIn
    <3>1. Busy(r) /\ ~At(r, "answer") /\ "denied" \notin RefreshPlaces
      BY <1>27 DEF HandleCall, Busy, At, RefreshPlaces
    <3> QED
      BY <1>22, <2>1, <2>2, <3>1
  <2>3. CASE /\ req' = [req EXCEPT ![r] = Idle]
             /\ signedIn' = IF Waiting(r, "me") THEN signedIn \union {TabOf[r]} ELSE signedIn
    <3>1. CASE ~Waiting(r, "me")
      BY <1>25, <2>1, <2>3, <3>1
    <3>2. CASE Waiting(r, "me")
      <4>1. /\ signedIn' = signedIn \union {TabOf[r]} /\ req'[r] = Idle
            /\ \A q \in Request \ {r} : req'[q] = req[q]
        BY <1>1, <2>3, <3>2
      <4>2. ~RefreshesFor(r)' /\ ~Waiting(r, "me")' /\ ~Waiting(r, "login")'
        BY <4>1 DEF RefreshesFor, InRefresh, RefreshPlaces, Waiting, Idle, Busy, At
      <4>3. \A q \in Request : OwnOrExcused(q)'
        BY <1>10, <1>14, <2>1, <4>1, <4>2
      <4>4. ASSUME NEW b \in Tab
            PROVE  ShownOrLoading(b)'
        <5>1. CASE b = TabOf[r]
          BY <4>1, <5>1 DEF ShownOrLoading
        <5>2. CASE b # TabOf[r]
          BY <1>11, <1>14, <2>1, <4>1, <5>2
        <5> QED
          BY <5>1, <5>2
      <4>5. ASSUME NEW q \in Request
            PROVE  LoginAlone(q)'
        <5>1. CASE TabOf[q] = TabOf[r]
          <6>1. ~Waiting(q, "login")
            BY <1>6, <3>2, <5>1 DEF LoginAlone
          <6>2. ~Waiting(q, "login")'
            BY <1>14, <4>1, <4>2, <6>1
          <6> QED
            BY <6>2 DEF LoginAlone
        <5>2. CASE TabOf[q] # TabOf[r]
          BY <1>12, <1>14, <4>1, <5>2
        <5> QED
          BY <5>1, <5>2
      <4> QED
        BY <4>3, <4>4, <4>5 DEF PageInv
    <3> QED
      BY <3>1, <3>2
  <2> QED
    BY <1>27, <2>2, <2>3 DEF HandleCall
\* A tab forgets its token.
<1>30. ASSUME NEW b \in Tab, mem' = [mem EXCEPT ![b] = NoToken],
              \A c \in Tab \ {b} : c \in signedIn' <=> c \in signedIn, signedIn' \subseteq signedIn,
              \A q \in Request : RefreshesFor(q)' =>
                /\ RefreshesFor(q) /\ req'[q].sent = req[q].sent
                /\ TabOf[q] = b => Excused(req[q].sent)',
              \A q \in Request :
                /\ Waiting(q, "me")' => Waiting(q, "me")
                /\ Waiting(q, "login")' => Waiting(q, "login")
                /\ TabOf[q] # b /\ Waiting(q, "me") => Waiting(q, "me")'
       PROVE  PageInv'
  <2>1. mem'[b] = NoToken /\ \A c \in Tab : c # b => mem'[c] = mem[c]
    BY <1>1, <1>30
  <2>2. Excused(mem[b])'
    BY <2>1 DEF Excused
  <2>3. ASSUME NEW q \in Request
        PROVE  OwnOrExcused(q)'
    <3>1. CASE TabOf[q] = b
      BY <1>30, <2>2, <3>1 DEF OwnOrExcused
    <3>2. CASE TabOf[q] # b
      BY <1>3, <1>10, <1>30, <2>1, <3>2
    <3> QED
      BY <3>1, <3>2
  <2>4. ASSUME NEW c \in Tab
        PROVE  ShownOrLoading(c)'
    <3>1. CASE c = b
      BY <2>2, <3>1 DEF ShownOrLoading
    <3>2. CASE c # b
      BY <1>11, <1>30, <2>1, <3>2
    <3> QED
      BY <3>1, <3>2
  <2>5. \A q \in Request : LoginAlone(q)'
    BY <1>12, <1>30
  <2> QED
    BY <2>3, <2>4, <2>5 DEF PageInv
<1>31. ASSUME NEW q \in Request, RefreshesFor(q), Excused(mem[TabOf[q]])
       PROVE  Excused(req[q].sent)
  BY <1>6, <1>31 DEF OwnOrExcused, Holds, Excused
\* A request ends and its tab forgets its token, and the sessions that the requests of
\* the tab refresh are disturbed.
<1>32. ASSUME NEW r \in Request, SetTokens(TabOf[r], NoToken), req' = [req EXCEPT ![r] = Idle],
              signedIn' = signedIn,
              \A q \in Request : TabOf[q] = TabOf[r] /\ RefreshesFor(q) =>
                Excused(req[q].sent) \/ session[req[q].sent] \in disturbed'
       PROVE  PageInv'
  <2>1. req'[r] = Idle /\ \A q \in Request \ {r} : req'[q] = req[q]
    BY <1>1, <1>32
  <2>2. ~RefreshesFor(r)' /\ ~Waiting(r, "me")' /\ ~Waiting(r, "login")'
    BY <2>1 DEF RefreshesFor, InRefresh, RefreshPlaces, Waiting, Idle, Busy, At
  <2>3. \A q \in Request : RefreshesFor(q)' => RefreshesFor(q) /\ req'[q].sent = req[q].sent
    BY <1>14, <2>1, <2>2
  <2>4. ASSUME NEW q \in Request, RefreshesFor(q)', TabOf[q] = TabOf[r]
        PROVE  Excused(req[q].sent)'
    <3>1. RefreshesFor(q) /\ req'[q].sent = req[q].sent
      BY <2>3, <2>4
    <3>2. Excused(req[q].sent) \/ session[req[q].sent] \in disturbed'
      BY <1>32, <2>4, <3>1
    <3>3. Excused(req[q].sent)'
      BY <1>2, <1>3, <1>4, <3>1, <3>2 DEF Excused
    <3> QED
      BY <3>1, <3>3 DEF Excused
  <2>5. \A q \in Request :
          /\ Waiting(q, "me")' => Waiting(q, "me")
          /\ Waiting(q, "login")' => Waiting(q, "login")
          /\ TabOf[q] # TabOf[r] /\ Waiting(q, "me") => Waiting(q, "me")'
    BY <1>14, <2>1, <2>2
  <2>6. mem' = [mem EXCEPT ![TabOf[r]] = NoToken]
    BY <1>32 DEF SetTokens
  <2> QED
    BY <1>3, <1>30, <1>32, <2>3, <2>4, <2>5, <2>6
<1>33. ASSUME NEW r \in Request, HandleDenied(r)
       PROVE  PageInv'
  <2> DEFINE t == mem[TabOf[r]]
  <2>1. signedIn' = signedIn /\ At(r, "denied") /\ ~req[r].lost
    BY <1>33 DEF HandleDenied
  <2>2. CASE /\ req[r].retried \/ t = NoToken
             /\ req' = [req EXCEPT ![r] = Idle] /\ Throw(r)
    <3>1. CASE req[r].kind # "me"
      BY <1>25, <2>1, <2>2, <3>1 DEF Throw, Waiting
    <3>2. CASE req[r].kind = "me"
      <4>1. SetTokens(TabOf[r], NoToken)
        BY <2>2, <3>2 DEF Throw
      <4>2. req[r].retried => disturbed = Token
        BY <2>1, <3>2 DEF CourseInv
      <4>3. ASSUME NEW q \in Request, TabOf[q] = TabOf[r], RefreshesFor(q)
            PROVE  Excused(req[q].sent)
        <5>1. CASE req[r].retried
          BY <1>3, <1>4, <4>2, <4>3, <5>1 DEF Excused, RefreshesFor
        <5>2. CASE t = NoToken
          BY <1>31, <4>3, <5>2 DEF Excused
        <5> QED
          BY <2>2, <5>1, <5>2
      <4> QED
        BY <1>32, <2>1, <2>2, <4>1, <4>3
    <3> QED
      BY <3>1, <3>2
  <2>3. CASE /\ ~(req[r].retried \/ t = NoToken)
             /\ req' = [req EXCEPT ![r].pc = "find", ![r].sent = t]
             /\ mem' = mem
    <3>1. /\ req'[r].pc = "find" /\ req'[r].sent = t /\ req'[r].kind = req[r].kind
          /\ req'[r].lost = req[r].lost /\ \A q \in Request \ {r} : req'[q] = req[q]
      BY <1>1, <2>3 DEF Call
    <3>2. \A kind : Waiting(r, kind)' <=> Waiting(r, kind)
      BY <2>1, <3>1 DEF Waiting, Busy, At
    <3>3. OwnOrExcused(r)'
      BY <2>3, <3>1 DEF OwnOrExcused, Holds
    <3> QED
      BY <1>15, <2>1, <2>3, <3>1, <3>2, <3>3
  <2> QED
    BY <1>33, <2>2, <2>3 DEF HandleDenied
<1>34. ASSUME NEW r \in Request, HandleRefused(r)
       PROVE  PageInv'
  <2>1. /\ SetTokens(TabOf[r], NoToken) /\ req' = [req EXCEPT ![r] = Idle]
        /\ signedIn' = signedIn /\ At(r, "refused") /\ ~req[r].lost
    BY <1>34 DEF HandleRefused
  <2>2. req[r].sent # NoToken /\ RefreshesFor(r)
    BY <2>1 DEF CourseInv, RefreshesFor, InRefresh, RefreshPlaces, LoginAnswer, At
  <2>3. Excused(req[r].sent)
    <3>1. session[req[r].sent] \in Token /\ Refreshes(r, session[req[r].sent])
      BY <1>3, <1>4, <2>2 DEF Refreshes, RefreshesFor
    <3> QED
      BY <2>1, <3>1 DEF LiveInv, LiveSession, Excused, At
  <2>4. Excused(mem[TabOf[r]])
    BY <1>6, <2>2, <2>3 DEF OwnOrExcused, Holds, Excused
  <2> QED
    BY <1>31, <1>32, <2>1, <2>4
<1>35. ASSUME NEW r \in Request, HandleError(r)
       PROVE  PageInv'
  <2>1. /\ req' = [req EXCEPT ![r] = Idle] /\ Throw(r) /\ signedIn' = signedIn
        /\ Disturb({t \in {mem[TabOf[r]]} : req[r].kind = "me"})
    BY <1>35 DEF HandleError
  <2>2. CASE req[r].kind # "me"
    BY <1>25, <2>1, <2>2 DEF Throw, Waiting
  <2>3. CASE req[r].kind = "me"
    <3>1. SetTokens(TabOf[r], NoToken)
      BY <2>1, <2>3 DEF Throw
    <3>2. mem[TabOf[r]] # NoToken => session[mem[TabOf[r]]] \in disturbed'
      BY <2>1, <2>3 DEF Disturb, SessionsOf
    <3>3. ASSUME NEW q \in Request, TabOf[q] = TabOf[r], RefreshesFor(q)
          PROVE  Excused(req[q].sent) \/ session[req[q].sent] \in disturbed'
      BY <1>6, <3>2, <3>3 DEF OwnOrExcused, Holds
    <3> QED
      BY <1>32, <2>1, <3>1, <3>3
  <2> QED
    BY <2>2, <2>3
<1>36. ASSUME NEW r \in Request, HandleAnswer(r)
       PROVE  PageInv'
  <2> DEFINE b == TabOf[r]
             t == req[r].sent
  <2>1. /\ At(r, "answer") /\ ~req[r].lost /\ mem' = [mem EXCEPT ![b] = t]
        /\ b \in Tab /\ t # NoToken /\ session' = session /\ InRefresh(r)
    BY <1>2, <1>3, <1>36
       DEF HandleAnswer, SetTokens, Received, database, ExcuseInv, InRefresh, RefreshPlaces, At
  <2>2. mem'[b] = t /\ \A c \in Tab : c # b => mem'[c] = mem[c]
    BY <1>1, <2>1
  <2>3. CASE LoginAnswered(r)
    <3>1. /\ LoginAnswer(r) /\ req'[r] = Idle /\ signedIn' = signedIn \union {b}
          /\ \A q \in Request \ {r} : req'[q] = req[q]
          /\ Disturb({u \in {t} : \E q \in Request \ {r} :
                        TabOf[q] = b /\ InRefresh(q) /\ ~req[q].lost})
      BY <1>1, <2>1, <2>3 DEF LoginAnswered, LoginAnswer
    <3>2. ~RefreshesFor(r)' /\ ~Waiting(r, "me")' /\ ~Waiting(r, "login")'
      BY <3>1 DEF RefreshesFor, InRefresh, RefreshPlaces, Waiting, Idle, Busy, At
    <3>3. Waiting(r, "login")
      BY <2>1, <3>1 DEF CourseInv, Waiting, Busy, At
    <3>4. Excused(mem[b])
      BY <1>6, <1>7, <2>1, <3>3 DEF LoginAlone, ShownOrLoading
    <3>5. ASSUME NEW q \in Request
          PROVE  OwnOrExcused(q)'
      <4>1. CASE TabOf[q] # b
        BY <1>3, <1>10, <1>14, <2>2, <3>1, <3>2, <4>1
      <4>2. CASE TabOf[q] = b /\ RefreshesFor(q)'
        <5>1. q # r
          BY <3>2, <4>2
        <5>2. RefreshesFor(q) /\ req'[q].sent = req[q].sent
          BY <1>14, <3>1, <4>2, <5>1
        <5>3. Excused(req[q].sent)
          BY <1>31, <3>4, <4>2, <5>2
        <5>4. Excused(req[q].sent)'
          BY <1>2, <2>1, <5>2, <5>3 DEF Excused
        <5>5. session[t] \in disturbed'
          BY <2>1, <3>1, <4>2, <5>1, <5>2 DEF Disturb, SessionsOf, RefreshesFor
        <5>6. Excused(mem[TabOf[q]])'
          BY <2>1, <2>2, <4>2, <5>5 DEF Excused
        <5> QED
          BY <5>2, <5>4, <5>6 DEF OwnOrExcused, Excused
      <4> QED
        BY <4>1, <4>2 DEF OwnOrExcused
    <3>6. ASSUME NEW c \in Tab
          PROVE  ShownOrLoading(c)'
      <4>1. CASE c = b
        BY <3>1, <4>1 DEF ShownOrLoading
      <4>2. CASE c # b
        BY <1>11, <1>14, <2>2, <3>1, <4>2
      <4> QED
        BY <4>1, <4>2
    <3>7. ASSUME NEW q \in Request
          PROVE  LoginAlone(q)'
      <4>1. CASE TabOf[q] = b
        <5>1. q # r => ~Waiting(q, "login")
          BY <1>6, <3>3, <4>1 DEF LoginAlone
        <5>2. ~Waiting(q, "login")'
          BY <1>14, <3>1, <3>2, <5>1
        <5> QED
          BY <5>2 DEF LoginAlone
      <4>2. CASE TabOf[q] # b
        BY <1>12, <1>14, <3>1, <4>2
      <4> QED
        BY <4>1, <4>2
    <3> QED
      BY <3>5, <3>6, <3>7 DEF PageInv
  <2>4. CASE RefreshAnswered(r)
    <3>1. /\ ~LoginAnswer(r) /\ req'[r].pc = "call" /\ req'[r].kind = req[r].kind
          /\ req'[r].lost = req[r].lost /\ signedIn' = signedIn
          /\ \A q \in Request \ {r} : req'[q] = req[q]
      BY <1>1, <2>1, <2>4 DEF RefreshAnswered, LoginAnswer, Call
    <3>2. ~RefreshesFor(r)' /\ \A kind : Waiting(r, kind)' <=> Waiting(r, kind)
      BY <2>1, <3>1 DEF RefreshesFor, InRefresh, RefreshPlaces, Waiting, Busy, At
    <3>3. RefreshesFor(r)
      BY <2>1, <3>1 DEF RefreshesFor
    <3>4. Holds(b, session[t]) \/ (Excused(t) /\ Excused(mem[b]))
      BY <1>6, <3>3 DEF OwnOrExcused
    <3>5. Excused(mem[b]) => Excused(t)
      BY <3>4 DEF Holds, Excused
    <3>6. Excused(t) => Excused(mem[b])'
      BY <1>2, <2>1, <2>2 DEF Excused
    <3>7. ASSUME NEW q \in Request
          PROVE  OwnOrExcused(q)'
      <4>1. CASE TabOf[q] # b
        BY <1>3, <1>10, <1>14, <2>2, <3>1, <3>2, <4>1
      <4>2. CASE TabOf[q] = b /\ RefreshesFor(q)'
        <5>1. RefreshesFor(q) /\ req'[q].sent = req[q].sent
          BY <1>14, <3>1, <3>2, <4>2
        <5>2. CASE Excused(mem[b])
          <6>1. Excused(req[q].sent)
            BY <1>31, <4>2, <5>1, <5>2
          <6>2. Excused(req[q].sent)'
            BY <1>2, <2>1, <5>1, <6>1 DEF Excused
          <6>3. Excused(mem[TabOf[q]])'
            BY <3>5, <3>6, <4>2, <5>2
          <6> QED
            BY <5>1, <6>2, <6>3 DEF OwnOrExcused, Excused
        <5>3. CASE ~Excused(mem[b])
          <6>1. Holds(b, session[t]) /\ Holds(b, session[req[q].sent])
            BY <1>6, <3>4, <4>2, <5>1, <5>3 DEF OwnOrExcused
          <6>2. session[t] = session[req[q].sent]
            BY <6>1 DEF Holds
          <6>3. Holds(TabOf[q], session[req[q].sent])'
            BY <2>1, <2>2, <4>2, <5>1, <6>2 DEF Holds
          <6> QED
            BY <6>3 DEF OwnOrExcused
        <5> QED
          BY <5>2, <5>3
      <4> QED
        BY <4>1, <4>2 DEF OwnOrExcused
    <3>8. ASSUME NEW c \in Tab
          PROVE  ShownOrLoading(c)'
      <4>1. CASE c = b /\ Excused(mem[b])
        BY <3>5, <3>6, <4>1 DEF ShownOrLoading
      <4>2. CASE c = b /\ ~Excused(mem[b])
        <5>1. b \in signedIn \/ \E q \in Request : TabOf[q] = b /\ Waiting(q, "me")
          BY <1>7, <2>1, <4>2 DEF ShownOrLoading
        <5>2. \A q \in Request : Waiting(q, "me") => Waiting(q, "me")'
          BY <1>14, <3>1, <3>2
        <5> QED
          BY <3>1, <4>2, <5>1, <5>2 DEF ShownOrLoading
      <4>3. CASE c # b
        BY <1>11, <1>14, <2>2, <3>1, <3>2, <4>3
      <4> QED
        BY <4>1, <4>2, <4>3
    <3>9. \A q \in Request : LoginAlone(q)'
      BY <1>12, <1>14, <3>1, <3>2
    <3> QED
      BY <3>7, <3>8, <3>9 DEF PageInv
  <2> QED
    BY <1>36, <2>3, <2>4 DEF HandleAnswer
\* A connection breaks.
<1>40. ASSUME NEW r \in Request, Break(r)
       PROVE  PageInv'
  <2>1. /\ signedIn' = signedIn /\ session' = session /\ Throw(r)
        /\ \A t \in {mem[TabOf[r]]} \ {NoToken} : req[r].kind = "me" => session[t] \in disturbed'
    BY <1>40 DEF Break, Disturb, SessionsOf, database
  <2>2. /\ req'[r].lost /\ req'[r].pc = req[r].pc /\ req'[r].kind = req[r].kind
        /\ req'[r].sent = req[r].sent /\ \A q \in Request \ {r} : req'[q] = req[q]
    BY <1>1, <1>40 DEF Break, Call
  <2>3. ~RefreshesFor(r)' /\ ~Waiting(r, "me")' /\ ~Waiting(r, "login")'
    BY <2>2 DEF RefreshesFor, Waiting
  <2>4. CASE req[r].kind # "me"
    BY <1>15, <2>1, <2>2, <2>3, <2>4 DEF Throw, Waiting
  <2>5. CASE req[r].kind = "me"
    <3>1. mem' = [mem EXCEPT ![TabOf[r]] = NoToken]
      BY <2>1, <2>5 DEF Throw, SetTokens
    <3>2. \A q \in Request : RefreshesFor(q)' => RefreshesFor(q) /\ req'[q].sent = req[q].sent
      BY <1>14, <2>2, <2>3
    <3>3. ASSUME NEW q \in Request, RefreshesFor(q)', TabOf[q] = TabOf[r]
          PROVE  Excused(req[q].sent)'
      <4>1. RefreshesFor(q) /\ req'[q].sent = req[q].sent
        BY <3>2, <3>3
      <4>2. CASE Holds(TabOf[q], session[req[q].sent])
        BY <2>1, <2>5, <3>3, <4>1, <4>2 DEF Holds, Excused
      <4>3. CASE Excused(req[q].sent)
        BY <1>2, <2>1, <4>1, <4>3 DEF Excused
      <4> QED
        BY <1>6, <4>1, <4>2, <4>3 DEF OwnOrExcused
    <3>4. \A q \in Request :
            /\ Waiting(q, "me")' => Waiting(q, "me")
            /\ Waiting(q, "login")' => Waiting(q, "login")
            /\ TabOf[q] # TabOf[r] /\ Waiting(q, "me") => Waiting(q, "me")'
      BY <1>14, <2>2, <2>3
    <3> QED
      BY <1>3, <1>30, <2>1, <3>1, <3>2, <3>3, <3>4
  <2> QED
    BY <2>4, <2>5
\* A page is loaded, or its user signs out.
<1>41. ASSUME NEW b \in Tab, NewPage(b), \A q \in Request : TabOf[q] # b => req'[q] = req[q],
              \A q \in Request : TabOf[q] = b => ~RefreshesFor(q)' /\ ~Waiting(q, "login")',
              store = NoToken \/ \E q \in Request : TabOf[q] = b /\ Waiting(q, "me")'
       PROVE  PageInv'
  <2>1. signedIn' = signedIn \ {b} /\ mem'[b] = store /\ \A c \in Tab : c # b => mem'[c] = mem[c]
    BY <1>1, <1>41 DEF NewPage
  <2>2. ASSUME NEW q \in Request
        PROVE  OwnOrExcused(q)' /\ LoginAlone(q)'
    <3>1. CASE TabOf[q] = b
      BY <1>41, <3>1 DEF OwnOrExcused, LoginAlone
    <3>2. CASE TabOf[q] # b
      <4>1. mem'[TabOf[q]] = mem[TabOf[q]]
        BY <1>3, <2>1, <3>2
      <4>2. OwnOrExcused(q)'
        BY <1>10, <1>14, <1>41, <3>2, <4>1
      <4>3. LoginAlone(q)'
        BY <1>12, <1>14, <1>41, <2>1, <3>2
      <4> QED
        BY <4>2, <4>3
    <3> QED
      BY <3>1, <3>2
  <2>3. ASSUME NEW c \in Tab
        PROVE  ShownOrLoading(c)'
    <3>1. CASE c = b
      BY <1>41, <2>1, <3>1 DEF ShownOrLoading, Excused
    <3>2. CASE c # b
      BY <1>11, <1>14, <1>41, <2>1, <3>2
    <3> QED
      BY <3>1, <3>2
  <2> QED
    BY <2>2, <2>3 DEF PageInv
<1>42. ASSUME NEW b \in Tab, NEW q \in Request
       PROVE  /\ TabOf[q] # b => Orphaned(b)[q] = req[q]
              /\ TabOf[q] = b => Orphaned(b)[q].lost \/ Orphaned(b)[q].pc = "idle"
  BY <1>1 DEF Orphaned, Busy, At, Call
<1>43. ASSUME NEW r \in Request, Load(r)
       PROVE  PageInv'
  <2>1. NewPage(TabOf[r]) /\ \A q \in Request \ {r} : req'[q] = Orphaned(TabOf[r])[q]
    BY <1>43 DEF Load, Orphaned
  <2>2. req'[r].pc = "call" /\ req'[r].kind = "me" /\ ~req'[r].lost
    BY <1>43 DEF Load, Orphaned, Sent
  <2>3. ~RefreshesFor(r)' /\ ~Waiting(r, "login")' /\ Waiting(r, "me")'
    BY <2>2 DEF RefreshesFor, InRefresh, RefreshPlaces, Waiting, Busy, At
  <2>4. ASSUME NEW q \in Request, TabOf[q] = TabOf[r], q # r
        PROVE  ~RefreshesFor(q)' /\ ~Waiting(q, "login")'
    <3>1. req'[q].lost \/ req'[q].pc = "idle"
      BY <1>3, <1>42, <2>1, <2>4
    <3> QED
      BY <3>1 DEF RefreshesFor, InRefresh, RefreshPlaces, Waiting, Busy, At
  <2>5. \A q \in Request : TabOf[q] # TabOf[r] => req'[q] = req[q]
    BY <1>3, <1>42, <2>1
  <2> QED
    BY <1>3, <1>41, <2>1, <2>3, <2>4, <2>5
<1>44. ASSUME NEW b \in Tab, LoadLoginPage(b)
       PROVE  PageInv'
  <2>1. NewPage(b) /\ store = NoToken /\ \A q \in Request : req'[q] = Orphaned(b)[q]
    BY <1>44 DEF LoadLoginPage
  <2>2. ASSUME NEW q \in Request, TabOf[q] = b
        PROVE  ~RefreshesFor(q)' /\ ~Waiting(q, "login")'
    <3>1. req'[q].lost \/ req'[q].pc = "idle"
      BY <1>42, <2>1, <2>2
    <3> QED
      BY <3>1 DEF RefreshesFor, InRefresh, RefreshPlaces, Waiting, Busy, At
  <2>3. \A q \in Request : TabOf[q] # b => req'[q] = req[q]
    BY <1>42, <2>1
  <2> QED
    BY <1>41, <2>1, <2>2, <2>3
<1>45. ASSUME NEW b \in Tab, SignOut(b)
       PROVE  PageInv'
  <2>1. /\ req' = req /\ session' = session /\ signedIn' = signedIn \ {b}
        /\ mem' = [mem EXCEPT ![b] = NoToken]
        /\ Disturb({req[r].sent : r \in {r \in Request : TabOf[r] = b /\ InRefresh(r)}})
    BY <1>45 DEF SignOut, database
  <2>2. \A q \in Request : /\ RefreshesFor(q)' => RefreshesFor(q) /\ req'[q].sent = req[q].sent
                           /\ \A kind : Waiting(q, kind)' <=> Waiting(q, kind)
    BY <1>14, <2>1
  <2>3. \A q \in Request : RefreshesFor(q)' /\ TabOf[q] = b => Excused(req[q].sent)'
    BY <2>1, <2>2 DEF RefreshesFor, Disturb, SessionsOf, Excused
  <2> QED
    BY <1>30, <2>1, <2>2, <2>3
<1>46. ASSUME Revoke \/ Toggle \/ \E t \in Token : Age(t)
       PROVE  PageInv'
  BY <1>16, <1>46 DEF Revoke, Toggle, Age, browser
<1> QED
  BY <1>20, <1>21, <1>23, <1>24, <1>26, <1>27, <1>33, <1>34, <1>35, <1>36, <1>40, <1>43,
     <1>44, <1>45, <1>46 DEF Next, Step

\* They are invariants.
KeptInv == CourseInv /\ PageInv

LEMMA KeptSessions == Spec => []KeptInv
<1>1. Init => KeptInv
  BY DEF Init, KeptInv, CourseInv, PageInv, OwnOrExcused, LoginAlone, ShownOrLoading,
         RefreshesFor, InRefresh, RefreshPlaces, Waiting, Busy, At, Idle, Excused
<1>2. SessionsInv /\ LiveInv /\ KeptInv /\ [Next]_vars => KeptInv'
  <2> SUFFICES ASSUME SessionsInv, LiveInv, KeptInv, [Next]_vars
               PROVE  KeptInv'
    OBVIOUS
  <2>1. CourseInv'
    BY CourseStep DEF LiveInv, KeptInv
  <2>2. CASE Next
    BY <2>1, <2>2, PageStep DEF KeptInv
  <2>3. CASE UNCHANGED vars
    <3>1. PageInv'
      BY <2>3
         DEF KeptInv, PageInv, OwnOrExcused, LoginAlone, ShownOrLoading, RefreshesFor,
             LoginAnswer, Holds, InRefresh, Waiting, Busy, At, Excused, vars, database,
             browser, history
    <3> QED
      BY <2>1, <3>1 DEF KeptInv
  <2> QED
    BY <2>2, <2>3
<1> QED
  BY <1>1, <1>2, SessionsInductive, LiveSessions, PTL DEF Spec

\* A tab that holds a token of an undisturbed session loses it only by signing out or
\* by loading its page with an empty storage.
THEOREM UndisturbedTokensAreKept == Spec => TokensAreKept
<1> DEFINE Kept == \A b \in Tab :
                     mem[b] # NoToken /\ mem'[b] = NoToken =>
                       \/ b \in signedIn /\ b \notin signedIn'
                       \/ store = NoToken
                       \/ session[mem[b]] \in disturbed'
<1>1. SessionsInv /\ LiveInv /\ KeptInv /\ [Next]_vars => Kept
  <2> SUFFICES ASSUME SessionsInv, LiveInv, KeptInv, [Next]_vars,
                      NEW b \in Tab, mem[b] # NoToken, mem'[b] = NoToken
               PROVE  \/ b \in signedIn /\ b \notin signedIn'
                      \/ store = NoToken
                      \/ session[mem[b]] \in disturbed'
    OBVIOUS
  <2> USE SessionsAssumption DEF SessionsInv
  <2>1. /\ disturbed \subseteq disturbed' /\ mem \in [Tab -> TokenOrNone]
        /\ \A r \in Request : TabOf[r] \in Tab
    BY DisturbedStays DEF TypeOK
  <2>2. ASSUME NEW t \in TokenOrNone, t # NoToken, t <= issued
        PROVE  session[t] \in Token
    <3>1. t \in Token /\ session[t] \in 1 .. issued
      BY <2>2 DEF TokenOrNone, IssuedInv
    <3> QED
      BY <3>1 DEF TypeOK, Token
  <2>3. session[mem[b]] \in Token
    BY <2>1, <2>2 DEF IssuedInv
  <2>4. Excused(mem[b]) => session[mem[b]] \in disturbed'
    BY <2>1 DEF Excused
  <2>6. ASSUME NEW r \in Request, HandleDenied(r)
        PROVE  session[mem[b]] \in disturbed'
    <3>1. Throw(r) /\ (req[r].retried \/ mem[TabOf[r]] = NoToken) /\ At(r, "denied")
      BY <2>6 DEF HandleDenied
    <3>2. TabOf[r] = b /\ req[r].kind = "me"
      BY <2>1, <3>1 DEF Throw, SetTokens
    <3>3. disturbed = Token
      BY <3>1, <3>2 DEF KeptInv, CourseInv
    <3> QED
      BY <2>1, <2>3, <3>3
  <2>7. ASSUME NEW r \in Request, HandleRefused(r)
        PROVE  session[mem[b]] \in disturbed'
    <3>1. TabOf[r] = b /\ At(r, "refused") /\ ~req[r].lost
      BY <2>1, <2>7 DEF HandleRefused, SetTokens
    <3>2. req[r].sent # NoToken /\ RefreshesFor(r)
      BY <3>1 DEF KeptInv, CourseInv, RefreshesFor, InRefresh, RefreshPlaces, LoginAnswer, At
    <3>3. session[req[r].sent] \in Token
      BY <2>2, <3>2 DEF IssuedInv, TypeOK, Call
    <3>4. session[req[r].sent] \in disturbed
      BY <3>1, <3>2, <3>3 DEF LiveInv, LiveSession, Refreshes, RefreshesFor, At
    <3>5. Excused(mem[b])
      BY <3>1, <3>2, <3>4 DEF KeptInv, PageInv, OwnOrExcused, Holds, Excused
    <3> QED
      BY <2>4, <3>5
  <2>8. ASSUME NEW r \in Request, HandleError(r)
        PROVE  session[mem[b]] \in disturbed'
    <3>1. TabOf[r] = b /\ req[r].kind = "me"
      BY <2>1, <2>8 DEF HandleError, Throw, SetTokens
    <3> QED
      BY <2>8, <3>1 DEF HandleError, Disturb, SessionsOf
  <2>9. ASSUME NEW r \in Request, Break(r)
        PROVE  session[mem[b]] \in disturbed'
    <3>1. TabOf[r] = b /\ req[r].kind = "me"
      BY <2>1, <2>9 DEF Break, Throw, SetTokens
    <3> QED
      BY <2>9, <3>1 DEF Break, Disturb, SessionsOf
  <2>10. ASSUME NEW c \in Tab, NewPage(c) \/ SignOut(c)
         PROVE  \/ b \in signedIn /\ b \notin signedIn'
                \/ store = NoToken
    BY <2>1, <2>10 DEF NewPage, SignOut
  <2>11. ASSUME NEW r \in Request
         PROVE  ~HandleAnswer(r)
    BY <2>1 DEF HandleAnswer, SetTokens, Received, LiveInv, ExcuseInv
  <2>12. mem' # mem
    OBVIOUS
  <2> QED
    BY <2>1, <2>6, <2>7, <2>8, <2>9, <2>10, <2>11, <2>12
       DEF Next, Step, vars, browser, StartData, StartLogin, Load, LoadLoginPage, HandleCall,
           HandleLogin, FindToken, DeleteToken, ResolveUser, InsertToken, InsertFails, Rejects,
           HandleLost, Age, Revoke, Toggle
<1> QED
  BY <1>1, SessionsInductive, LiveSessions, KeptSessions, PTL DEF Spec, TokensAreKept
=============================================================================
