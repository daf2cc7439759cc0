----------------------------- MODULE EdgeProofs -----------------------------
(***************************************************************************)
(* Proofs about console tokens (Console), the plans of the assistant       *)
(* (Assistant), the form that orders a machine (VmForm) and what the pages *)
(* come to show (Panel), for any number of tokens, requests, plans, steps, *)
(* executions, pools, rows, sockets and changes.                           *)
(***************************************************************************)
EXTENDS Console, Assistant, VmForm, Panel, SequenceTheorems, WellFoundedInduction, TLAPS

-----------------------------------------------------------------------------
(* Console tokens.  An entry whose time is not over belongs to a token that *)
(* has not been taken, and a token that has not been asked for has not been *)
(* taken either.                                                           *)

FreshTokens ==
  \A t \in Tokens : /\ opened[t] \in {0, 1}
                    /\ minted[t].left > 0 => opened[t] = 0 /\ asked[t] # "no"
                    /\ asked[t] = "no" => opened[t] = 0

\* Who asks the agent brings a token that Redis knew.
Bearers == \A u \in Upgrades : upgrade[u].step = "connect" => upgrade[u].token \in Tokens

TokenInv == ConsoleTypeOK /\ FreshTokens /\ Bearers

LEMMA TokenInvInit ==
  ASSUME TokenLife \in Nat
  PROVE  ConsoleInit => TokenInv
BY DEF ConsoleInit, TokenInv, ConsoleTypeOK, FreshTokens, Bearers, NoEntry, NoUpgrade, MetaLife

\* One step of any request, guest, timer or restart keeps the invariant.
LEMMA TokenInvStep ==
  ASSUME TokenLife \in Nat, TokenInv, [ConsoleNext]_consoleVars
  PROVE  TokenInv'
<1> USE DEF ConsoleTypeOK, FreshTokens, Bearers, TokenInv
<1>1. CASE UNCHANGED consoleVars
  BY <1>1 DEF consoleVars
<1>2. ASSUME NEW t \in Tokens, NEW n \in Guests, MintToken(t, n)
      PROVE  TokenInv'
  BY <1>2 DEF MintToken
<1>3. ASSUME NEW t \in Tokens, NoteToken(t)
      PROVE  TokenInv'
  BY <1>3, SMTT(30) DEF NoteToken, MetaLife
<1>4. ASSUME NEW t \in Tokens, NEW u \in Upgrades, Resolve(u, t)
      PROVE  TokenInv'
  BY <1>4 DEF Resolve
<1>5. ASSUME NEW u \in Upgrades, TakeToken(u)
      PROVE  TokenInv'
  <2>0. PICK t \in Tokens : t = upgrade[u].token
    BY <1>5 DEF TakeToken
  <2> DEFINE Entries == [vm : Guests \cup {"none"}, left : 0..TokenLife]
             Requests == [step : {"idle", "connect", "taken", "dial", "open"},
                          token : Tokens \cup {"none"}, vm : Guests \cup {"none"}]
  <2>f. \A s \in Tokens : /\ opened[s] \in {0, 1}
                          /\ minted[s].left > 0 => opened[s] = 0 /\ asked[s] # "no"
                          /\ asked[s] = "no" => opened[s] = 0
    OBVIOUS
  <2>g. /\ minted \in [Tokens -> Entries] /\ opened \in [Tokens -> 0..2]
        /\ upgrade \in [Upgrades -> Requests]
        /\ minted[t].vm \in Guests \cup {"none"}
    OBVIOUS
  <2>1. CASE Valid(t)
    <3>1. /\ minted' = [minted EXCEPT ![t] = NoEntry]
          /\ upgrade' = [upgrade EXCEPT ![u].step = "taken", ![u].vm = minted[t].vm]
          /\ opened' = [opened EXCEPT ![t] = @ + 1]
          /\ UNCHANGED <<meta, asked, vnc>>
      BY <1>5, <2>0, <2>1 DEF TakeToken, Without
    <3>2. opened[t] = 0 /\ asked[t] # "no"
      BY <2>0, <2>f, <2>1 DEF Valid
    <3>3. NoEntry \in Entries /\ NoEntry.left = 0
      BY DEF NoEntry
    <3>4. minted' \in [Tokens -> Entries]
      <4> HIDE DEF Entries
      <4>1. QED
        BY ONLY <2>g, <3>1, <3>3
    <3>5. upgrade' \in [Upgrades -> Requests]
      BY ONLY ZenonT(60), <2>g, <3>1
    <3>6. opened' = [opened EXCEPT ![t] = 1]
      BY ONLY <3>1, <3>2
    <3>7. opened' \in [Tokens -> 0..2]
      BY ONLY <2>g, <3>6
    <3>8. ConsoleTypeOK'
      BY <3>1, <3>4, <3>5, <3>7
    <3>9. ASSUME NEW s \in Tokens
          PROVE  /\ opened'[s] \in {0, 1}
                 /\ minted'[s].left > 0 => opened'[s] = 0 /\ asked'[s] # "no"
                 /\ asked'[s] = "no" => opened'[s] = 0
      <4> HIDE DEF Entries
      <4>1. CASE s = t
        <5>1. opened'[s] = 1 /\ minted'[s] = NoEntry /\ asked'[s] # "no"
          BY ONLY <2>g, <3>1, <3>2, <3>6, <4>1
        <5>2. QED
          BY ONLY <5>1, <3>3
      <4>2. CASE s # t
        <5>1. opened'[s] = opened[s] /\ minted'[s] = minted[s] /\ asked'[s] = asked[s]
          BY ONLY <2>g, <3>1, <3>6, <4>2
        <5>2. QED
          BY ONLY <5>1, <2>f
      <4>3. QED
        BY ONLY <4>1, <4>2
    <3>10. Bearers'
      BY <3>1
    <3>11. QED
      BY <3>8, <3>9, <3>10
  <2>2. CASE ~Valid(t)
    <3>1. /\ UNCHANGED <<minted, opened, meta, asked, vnc>>
          /\ upgrade' = [upgrade EXCEPT ![u] = NoUpgrade]
      BY <1>5, <2>0, <2>2 DEF TakeToken, Ends
    <3>2. QED
      BY <3>1 DEF NoUpgrade
  <2>3. QED
    BY <2>1, <2>2
<1>6. ASSUME NEW u \in Upgrades, ConnectFails(u) \/ FindPort(u) \/ Dial(u) \/ Close(u)
      PROVE  TokenInv'
  <2>1. CASE ConnectFails(u) \/ Close(u)
    <3>1. /\ UNCHANGED <<minted, opened, meta, asked, vnc>>
          /\ upgrade' = [upgrade EXCEPT ![u] = NoUpgrade]
      BY <2>1 DEF ConnectFails, Close, Ends
    <3>2. QED
      BY <3>1 DEF NoUpgrade
  <2>2. CASE FindPort(u)
    <3>1. UNCHANGED <<minted, opened, meta, asked, vnc>>
      BY <2>2 DEF FindPort
    <3>2. CASE upgrade' = [upgrade EXCEPT ![u].step = "dial"]
      BY SMTT(30), <3>1, <3>2
    <3>3. CASE upgrade' = [upgrade EXCEPT ![u] = NoUpgrade]
      BY <3>1, <3>3 DEF NoUpgrade
    <3>4. QED
      BY <2>2, <3>2, <3>3 DEF FindPort, Ends
  <2>3. CASE Dial(u)
    <3>1. UNCHANGED <<minted, opened, meta, asked, vnc>>
      BY <2>3 DEF Dial
    <3>2. CASE upgrade' = [upgrade EXCEPT ![u].step = "open"]
      BY SMTT(30), <3>1, <3>2
    <3>3. CASE upgrade' = [upgrade EXCEPT ![u] = NoUpgrade]
      BY <3>1, <3>3 DEF NoUpgrade
    <3>4. QED
      BY <2>3, <3>2, <3>3 DEF Dial, Ends
  <2>4. QED
    BY <1>6, <2>1, <2>2, <2>3
<1>7. ASSUME NEW n \in Guests, GuestStops(n) \/ GuestStarts(n)
      PROVE  TokenInv'
  <2>1. CASE GuestStops(n)
    BY <2>1 DEF GuestStops, NoUpgrade
  <2>2. CASE GuestStarts(n)
    BY <2>2 DEF GuestStarts
  <2>3. QED
    BY <1>7, <2>1, <2>2
<1>8. CASE Sweep
  BY <1>8 DEF Sweep, NoEntry
<1>9. CASE ThirtySeconds
  BY <1>9, SMTT(30) DEF ThirtySeconds, MetaLife
<1>10. CASE AgentStops
  BY <1>10 DEF AgentStops, NoEntry, NoUpgrade
<1>11. QED
  BY <1>1, <1>2, <1>3, <1>4, <1>5, <1>6, <1>7, <1>8, <1>9, <1>10 DEF ConsoleNext

\* A token opens one console at most, however many requests bring it to the agent's
\* handleConsoleWs at once.
THEOREM TokenOpensOnce ==
  ASSUME TokenLife \in Nat
  PROVE  ConsoleSpec => [](ConsoleTypeOK /\ TokenTakenOnce)
<1>1. ConsoleInit => TokenInv
  BY TokenInvInit
<1>2. TokenInv /\ [ConsoleNext]_consoleVars => TokenInv'
  BY TokenInvStep
<1>3. TokenInv => ConsoleTypeOK /\ TokenTakenOnce
  BY DEF TokenInv, FreshTokens, TokenTakenOnce
<1>4. QED
  BY <1>1, <1>2, <1>3, PTL DEF ConsoleSpec

\* wsReadFrame finds the length that wsWriteFrame has written for every length below
\* 2^32, and for a longer frame what the length leaves modulo 2^32; and it reads as
\* many bytes to find it as were written.
THEOREM FramesAreReadBack ==
  ASSUME NEW n \in Nat
  PROVE  /\ ReadLength(LengthField(n)) = n % (65536 * 65536)
         /\ n < (65536 * 65536) => ReadLength(LengthField(n)) = n
         /\ Extension(LengthField(n).code) = LengthField(n).bytes
<1>0. n < (65536 * 65536) => n % (65536 * 65536) = n
  OBVIOUS
<1>1. CASE n <= 125
  BY <1>0, <1>1 DEF ReadLength, LengthField, Extension
<1>2. CASE n > 125 /\ n <= 65535
  <2>1. n % 65536 = n
    BY <1>2
  <2>2. QED
    BY <1>0, <1>2, <2>1 DEF ReadLength, LengthField, Extension
<1>3. CASE n > 65535
  BY <1>0, <1>3 DEF ReadLength, LengthField, Extension
<1>4. QED
  BY <1>1, <1>2, <1>3

-----------------------------------------------------------------------------
(* Plans of the assistant.  A plan has one execution at a time, because its *)
(* card is pending only as long as nobody has confirmed it, and a card that *)
(* is shown belongs to a plan that has been stored.                        *)

Busy(x) == execution[x].step # "none"
For(x, p) == Busy(x) /\ execution[x].plan = p

ProposalTypes ==
  /\ stored \in [Proposals -> {"new", "stored", "expired"}]
  /\ card \in [Proposals -> {"none", "pending", "executing", "done", "rejected"}]
  /\ execution \in [Executions -> [plan : Proposals \cup {NoProposal}, next : Nat \ {0},
                                   step : {"none", "sent", "running", "answered"}, ok : BOOLEAN,
                                   heard : BOOLEAN]]
  /\ called \in [Proposals -> [1..PlanSteps -> {0, 1}]]
  /\ carriedOut \in [Proposals -> [1..PlanSteps -> {0, 1}]]
  /\ reported \subseteq Proposals

\* A plan that can still be confirmed has not been touched.
Untouched ==
  \A p \in Proposals :
    /\ stored[p] = "new" => card[p] = "none"
    /\ stored[p] = "new" \/ card[p] = "pending" =>
         /\ \A x \in Executions : ~For(x, p)
         /\ \A n \in 1..PlanSteps : called[p][n] = 0

\* One execution of a plan at most, which has carried out the steps before its next.
OneExecution ==
  \A x \in Executions : Busy(x) =>
    /\ execution[x].plan \in Proposals
    /\ execution[x].next <= PlanSteps + 1
    /\ \A y \in Executions : For(y, execution[x].plan) => y = x
    /\ \A n \in 1..PlanSteps :
         called[execution[x].plan][n] = IF n < execution[x].next THEN 1 ELSE 0
    /\ execution[x].step = "answered" /\ execution[x].ok => execution[x].next = PlanSteps + 1

InOrder ==
  \A p \in Proposals, n \in 1..PlanSteps, k \in 1..PlanSteps :
    n < k => called[p][k] <= called[p][n]

ReportedIsDone ==
  \A p \in reported, n \in 1..PlanSteps : called[p][n] = 1

\* What the executor has done has reached a service, but for the backups.
ServicesReached ==
  \A p \in Proposals, n \in 1..PlanSteps :
    carriedOut[p][n] = IF IsBackup(p, n) THEN 0 ELSE called[p][n]

ProposalInv == /\ ProposalTypes /\ Untouched /\ OneExecution /\ InOrder /\ ReportedIsDone
               /\ ServicesReached

LEMMA ProposalInvInit ==
  ASSUME PlanSteps \in Nat
  PROVE  AssistantInit => ProposalInv
<1> SUFFICES ASSUME AssistantInit PROVE ProposalInv
  OBVIOUS
<1> USE DEF AssistantInit, NoExecution, NoProposal, Busy, For
<1>1. ProposalTypes
  BY DEF ProposalTypes
<1>2. Untouched
  BY DEF Untouched
<1>3. OneExecution
  BY DEF OneExecution
<1>4. InOrder
  BY DEF InOrder
<1>5. ReportedIsDone
  BY DEF ReportedIsDone
<1>6. ServicesReached
  BY DEF ServicesReached
<1>7. QED
  BY <1>1, <1>2, <1>3, <1>4, <1>5, <1>6 DEF ProposalInv

\* The conversation, and what becomes of plans and cards without an execution.
LEMMA ConversationStep ==
  ASSUME ProposalInv,
         \/ Send \/ EndStream \/ ClearMessages
         \/ \E p \in Proposals : Propose(p) \/ PlanExpires(p) \/ RejectPlan(p)
  PROVE  ProposalInv'
<1>1. ProposalTypes /\ Untouched /\ UNCHANGED <<execution, called, carriedOut, reported>>
  BY DEF ProposalInv, Send, EndStream, ClearMessages, Propose, PlanExpires, RejectPlan
<1> DEFINE KeepsUntouched ==
      /\ stored' \in [Proposals -> {"new", "stored", "expired"}]
      /\ card' \in [Proposals -> {"none", "pending", "executing", "done", "rejected"}]
      /\ \A q \in Proposals :
           /\ stored'[q] = "new" => stored[q] = "new" /\ card'[q] = "none"
           /\ card'[q] = "pending" => card[q] = "pending" \/ stored[q] = "new"
<1>2. KeepsUntouched
  <2> USE <1>1 DEF ProposalTypes, Untouched
  <2>1. CASE Send \/ EndStream
    BY <2>1 DEF Send, EndStream
  <2>2. CASE ClearMessages
    BY <2>2 DEF ClearMessages
  <2>3. ASSUME NEW p \in Proposals, Propose(p)
        PROVE  KeepsUntouched
    BY <2>3 DEF Propose
  <2>4. ASSUME NEW p \in Proposals, PlanExpires(p)
        PROVE  KeepsUntouched
    BY <2>4 DEF PlanExpires
  <2>5. ASSUME NEW p \in Proposals, RejectPlan(p)
        PROVE  KeepsUntouched
    BY <2>5 DEF RejectPlan
  <2>6. QED
    BY <2>1, <2>2, <2>3, <2>4, <2>5
<1>3. ProposalTypes'
  BY <1>1, <1>2 DEF ProposalTypes
<1>4. Untouched'
  BY <1>1, <1>2 DEF Untouched, Busy, For
<1>5. OneExecution' /\ InOrder' /\ ReportedIsDone' /\ ServicesReached'
  BY <1>1 DEF ProposalInv, OneExecution, InOrder, ReportedIsDone, ServicesReached, Busy, For
<1>6. QED
  BY <1>3, <1>4, <1>5 DEF ProposalInv

\* A plan is confirmed: its card is not pending any more, and its execution is the
\* first one.
LEMMA ConfirmStep ==
  ASSUME PlanSteps \in Nat, ProposalInv, NEW p \in Proposals, NEW x \in Executions,
         ConfirmPlan(p, x)
  PROVE  ProposalInv'
<1>1. /\ card[p] = "pending" /\ ~Busy(x)
      /\ card' = [card EXCEPT ![p] = "executing"]
      /\ UNCHANGED <<stored, called, carriedOut, reported>>
  BY DEF ConfirmPlan, Confirmed, Busy
<1> DEFINE fresh == [NoExecution EXCEPT !.plan = p, !.step = "sent"]
           E == [plan : Proposals \cup {NoProposal}, next : Nat \ {0},
                 step : {"none", "sent", "running", "answered"}, ok : BOOLEAN,
                 heard : BOOLEAN]
<1>2. /\ execution' = [execution EXCEPT ![x] = fresh]
      /\ fresh \in E
      /\ fresh.plan = p /\ fresh.next = 1 /\ fresh.step = "sent"
  <2>1. execution' = [execution EXCEPT ![x] = fresh]
    BY DEF ConfirmPlan
  <2>2. fresh \in E
    <3>1. NoExecution \in E
      BY DEF NoExecution
    <3>2. QED
      BY ONLY <3>1, p \in Proposals
  <2>3. fresh.plan = p /\ fresh.next = 1 /\ fresh.step = "sent"
    BY DEF NoExecution
  <2>4. QED
    BY <2>1, <2>2, <2>3
<1> HIDE DEF fresh
<1>3. /\ stored[p] # "new"
      /\ \A y \in Executions : ~For(y, p)
      /\ \A n \in 1..PlanSteps : called[p][n] = 0
  BY <1>1 DEF ProposalInv, ProposalTypes, Untouched
<1>4. ProposalTypes'
  <2>1. execution' \in [Executions -> E]
    <3> HIDE DEF E
    <3>1. execution \in [Executions -> E]
      BY DEF ProposalInv, ProposalTypes, E
    <3>2. QED
      BY ONLY <1>2, <3>1
  <2>2. QED
    BY <1>1, <2>1 DEF ProposalInv, ProposalTypes
<1>5. /\ \A y \in Executions : y # x => execution'[y] = execution[y]
      /\ execution'[x] = fresh
  BY <1>2 DEF ProposalInv, ProposalTypes
<1>6. Untouched'
  <2> SUFFICES ASSUME NEW q \in Proposals
               PROVE  /\ stored'[q] = "new" => card'[q] = "none"
                      /\ stored'[q] = "new" \/ card'[q] = "pending" =>
                           /\ \A y \in Executions : ~(For(y, q)')
                           /\ \A n \in 1..PlanSteps : called'[q][n] = 0
    BY DEF Untouched
  <2>1. CASE q = p
    BY <1>1, <1>3, <2>1 DEF ProposalInv, ProposalTypes
  <2>2. CASE q # p
    <3>1. stored'[q] = stored[q] /\ card'[q] = card[q] /\ called'[q] = called[q]
      BY <1>1, <2>2 DEF ProposalInv, ProposalTypes
    <3>2. \A y \in Executions : For(y, q)' => For(y, q)
      BY <1>2, <1>5, <2>2 DEF For, Busy
    <3>3. QED
      BY <3>1, <3>2 DEF ProposalInv, Untouched
  <2>3. QED
    BY <2>1, <2>2
<1>7. OneExecution'
  <2> SUFFICES ASSUME NEW y \in Executions, Busy(y)'
               PROVE  /\ execution'[y].plan \in Proposals
                      /\ execution'[y].next <= PlanSteps + 1
                      /\ \A z \in Executions : For(z, execution[y].plan)' => z = y
                      /\ \A n \in 1..PlanSteps :
                           called'[execution'[y].plan][n] = IF n < execution'[y].next THEN 1 ELSE 0
                      /\ execution'[y].step = "answered" /\ execution'[y].ok
                           => execution'[y].next = PlanSteps + 1
    BY DEF OneExecution
  <2>1. CASE y = x
    BY <1>1, <1>2, <1>3, <1>5, <2>1 DEF For, Busy
  <2>2. CASE y # x
    <3>1. Busy(y) /\ execution'[y] = execution[y]
      BY <1>5, <2>2 DEF Busy
    <3>2. execution[y].plan # p
      BY <1>3, <3>1 DEF For
    <3>3. QED
      BY <1>1, <1>2, <1>5, <2>2, <3>1, <3>2 DEF ProposalInv, OneExecution, For, Busy
  <2>3. QED
    BY <2>1, <2>2
<1>8. InOrder' /\ ReportedIsDone' /\ ServicesReached'
  BY <1>1 DEF ProposalInv, InOrder, ReportedIsDone, ServicesReached
<1>9. QED
  BY <1>4, <1>6, <1>7, <1>8 DEF ProposalInv

\* A step of the plan is carried out.
LEMMA ExecuteStepKeeps ==
  ASSUME PlanSteps \in Nat, ProposalInv, NEW x \in Executions, ExecuteStep(x)
  PROVE  ProposalInv'
<1> DEFINE p == execution[x].plan
           k == execution[x].next
<1>1. /\ Busy(x) /\ execution[x].step = "running" /\ k <= PlanSteps
      /\ called' = [called EXCEPT ![p][k] = @ + 1]
      /\ carriedOut' = IF IsBackup(p, k) THEN carriedOut ELSE [carriedOut EXCEPT ![p][k] = @ + 1]
      /\ execution' = [execution EXCEPT ![x].next = @ + 1]
      /\ UNCHANGED <<stored, card, reported>>
  BY DEF ExecuteStep, Busy
<1>2. /\ p \in Proposals /\ k \in 1..PlanSteps
      /\ \A y \in Executions : For(y, p) => y = x
      /\ \A n \in 1..PlanSteps : called[p][n] = IF n < k THEN 1 ELSE 0
  BY <1>1 DEF ProposalInv, ProposalTypes, OneExecution
<1>3. /\ \A q \in Proposals : q # p => called'[q] = called[q]
      /\ \A n \in 1..PlanSteps : called'[p][n] = IF n < k + 1 THEN 1 ELSE 0
      /\ called' \in [Proposals -> [1..PlanSteps -> {0, 1}]]
  <2>1. called \in [Proposals -> [1..PlanSteps -> {0, 1}]]
    BY DEF ProposalInv, ProposalTypes
  <2>2. called[p][k] + 1 = 1
    BY <1>2
  <2>3. called' = [called EXCEPT ![p] = [called[p] EXCEPT ![k] = 1]]
    BY <1>1, <1>2, <2>1, <2>2
  <2>4. QED
    BY <1>2, <2>1, <2>3, SMTT(30)
<1>4. /\ \A y \in Executions : y # x => execution'[y] = execution[y]
      /\ execution'[x] = [execution[x] EXCEPT !.next = k + 1]
  BY <1>1 DEF ProposalInv, ProposalTypes
<1>12. /\ carriedOut' \in [Proposals -> [1..PlanSteps -> {0, 1}]]
       /\ ServicesReached'
  <2>1. /\ carriedOut \in [Proposals -> [1..PlanSteps -> {0, 1}]]
        /\ called \in [Proposals -> [1..PlanSteps -> {0, 1}]]
        /\ \A q \in Proposals, n \in 1..PlanSteps :
             carriedOut[q][n] = IF IsBackup(q, n) THEN 0 ELSE called[q][n]
    BY DEF ProposalInv, ProposalTypes, ServicesReached
  <2>2. called[p][k] = 0 /\ called' = [called EXCEPT ![p][k] = 1]
    <3>1. called[p][k] = 0
      BY <1>2
    <3>2. QED
      BY <1>1, <3>1
  <2>6. ASSUME NEW q \in Proposals, NEW n \in 1..PlanSteps
        PROVE  called'[q][n] = IF q = p /\ n = k THEN 1 ELSE called[q][n]
    BY <1>2, <2>1, <2>2
  <2>3. CASE IsBackup(p, k)
    <3>1. carriedOut' = carriedOut
      BY <1>1, <2>3
    <3>2. QED
      BY <2>1, <2>3, <2>6, <3>1, SMTT(30) DEF ServicesReached
  <2>4. CASE ~IsBackup(p, k)
    <3>1. carriedOut[p][k] = 0
      BY <1>2, <2>1, <2>2, <2>4
    <3>2. carriedOut' = [carriedOut EXCEPT ![p][k] = 1]
      BY <1>1, <2>4, <3>1
    <3>3. carriedOut' \in [Proposals -> [1..PlanSteps -> {0, 1}]]
      BY <1>2, <2>1, <3>2
    <3>4. \A q \in Proposals, n \in 1..PlanSteps :
            /\ carriedOut'[q][n] = IF q = p /\ n = k THEN 1 ELSE carriedOut[q][n]
            /\ called'[q][n] = IF q = p /\ n = k THEN 1 ELSE called[q][n]
      BY <1>2, <2>1, <2>6, <3>2
    <3>5. QED
      BY <2>1, <2>4, <3>3, <3>4, SMTT(30) DEF ServicesReached
  <2>5. QED
    BY <2>3, <2>4
<1>5. ProposalTypes'
  <2> DEFINE E == [plan : Proposals \cup {NoProposal}, next : Nat \ {0},
                   step : {"none", "sent", "running", "answered"}, ok : BOOLEAN,
                   heard : BOOLEAN]
  <2>1. execution \in [Executions -> E] /\ k + 1 \in Nat \ {0}
    BY <1>2 DEF ProposalInv, ProposalTypes
  <2>2. [execution[x] EXCEPT !.next = k + 1] \in E
    BY ONLY <2>1
  <2>3. execution' = [execution EXCEPT ![x] = [execution[x] EXCEPT !.next = k + 1]]
    BY <1>1
  <2>4. execution' \in [Executions -> E]
    <3> HIDE DEF E
    <3>1. QED
      BY ONLY <2>1, <2>2, <2>3
  <2>5. QED
    BY <1>1, <1>3, <1>12, <2>4 DEF ProposalInv, ProposalTypes
<1>6. \A y \in Executions, q \in Proposals : For(y, q)' <=> For(y, q)
  <2> SUFFICES ASSUME NEW y \in Executions
               PROVE  /\ execution'[y].plan = execution[y].plan
                      /\ execution'[y].step = execution[y].step
    BY DEF For, Busy
  <2>1. CASE y = x
    BY <1>4, <2>1 DEF ProposalInv, ProposalTypes
  <2>2. CASE y # x
    BY <1>4, <2>2
  <2>3. QED
    BY <2>1, <2>2
<1>7. Untouched'
  BY <1>1, <1>2, <1>3, <1>6 DEF ProposalInv, Untouched, For
<1>8. OneExecution'
  <2> SUFFICES ASSUME NEW y \in Executions, Busy(y)'
               PROVE  /\ execution'[y].plan \in Proposals
                      /\ execution'[y].next <= PlanSteps + 1
                      /\ \A z \in Executions : For(z, execution[y].plan)' => z = y
                      /\ \A n \in 1..PlanSteps :
                           called'[execution'[y].plan][n] = IF n < execution'[y].next THEN 1 ELSE 0
                      /\ execution'[y].step = "answered" /\ execution'[y].ok
                           => execution'[y].next = PlanSteps + 1
    BY DEF OneExecution
  <2>1. CASE y = x
    <3>1. /\ execution'[y].plan = p /\ execution'[y].next = k + 1
          /\ execution'[y].step = "running"
      BY <1>1, <1>4, <2>1 DEF ProposalInv, ProposalTypes
    <3>2. QED
      BY <1>2, <1>3, <1>6, <2>1, <3>1
  <2>2. CASE y # x
    <3>1. Busy(y) /\ execution'[y] = execution[y] /\ execution[y].plan \in Proposals
      BY <1>4, <2>2 DEF Busy, ProposalInv, OneExecution
    <3>2. execution[y].plan # p
      BY <1>2, <2>2, <3>1 DEF For
    <3>3. QED
      BY <1>3, <1>6, <3>1, <3>2 DEF ProposalInv, OneExecution
  <2>3. QED
    BY <2>1, <2>2
<1>9. InOrder'
  BY <1>2, <1>3 DEF ProposalInv, ProposalTypes, InOrder
<1>10. ReportedIsDone'
  <2>1. reported \subseteq Proposals /\ p \notin reported
    BY <1>2 DEF ProposalInv, ProposalTypes, ReportedIsDone
  <2>2. QED
    BY <1>1, <1>3, <2>1 DEF ProposalInv, ReportedIsDone
<1>11. QED
  BY <1>5, <1>7, <1>8, <1>9, <1>10, <1>12 DEF ProposalInv

\* An execution moves on, is answered or ends, without carrying out anything.
LEMMA ExecutionMoves ==
  ASSUME PlanSteps \in Nat, ProposalInv, NEW x \in Executions,
         \/ ResultsArrive(x) \/ ExecuteFails(x) \/ GetPlan(x)
         \/ StepThrows(x) \/ EndOfPlan(x) \/ AnswerIsLost(x)
  PROVE  ProposalInv'
<1> DEFINE p == execution[x].plan
           E == [plan : Proposals \cup {NoProposal}, next : Nat \ {0},
                 step : {"none", "sent", "running", "answered"}, ok : BOOLEAN,
                 heard : BOOLEAN]
<1>1. /\ Busy(x) /\ UNCHANGED <<stored, called, carriedOut>>
      /\ card' = card \/ card' = [card EXCEPT ![p] = IF @ = "none" THEN "none" ELSE "done"]
  BY DEF ResultsArrive, ExecuteFails, GetPlan, StepThrows, EndOfPlan, AnswerIsLost, Settle, Busy
<1>2. /\ execution \in [Executions -> E] /\ p \in Proposals
      /\ card[p] # "pending" /\ stored[p] # "new"
      /\ card \in [Proposals -> {"none", "pending", "executing", "done", "rejected"}]
  BY <1>1 DEF ProposalInv, ProposalTypes, OneExecution, Untouched, For, Busy
<1>3. \/ execution' = [execution EXCEPT ![x] = NoExecution]
      \/ execution' = [execution EXCEPT ![x].step = "running"] /\ execution[x].step = "sent"
      \/ execution' = [execution EXCEPT ![x].step = "answered", ![x].ok = FALSE]
      \/ /\ execution' = [execution EXCEPT ![x].step = "answered"]
         /\ execution[x].next > PlanSteps
      \/ execution' = [execution EXCEPT ![x].heard = FALSE]
  BY <1>2 DEF ResultsArrive, ExecuteFails, GetPlan, StepThrows, EndOfPlan, AnswerIsLost, AfterFailure
<1>4. /\ execution' \in [Executions -> E]
      /\ \A y \in Executions : y # x => execution'[y] = execution[y]
      /\ \/ execution'[x].step = "none"
         \/ /\ execution'[x].plan = p /\ execution'[x].next = execution[x].next
            /\ execution'[x].step = "answered" /\ execution'[x].ok =>
                 \/ execution[x].step = "answered" /\ execution[x].ok
                 \/ execution[x].next > PlanSteps
  <2>1. CASE execution' = [execution EXCEPT ![x] = NoExecution]
    BY ONLY <1>2, <2>1, x \in Executions DEF NoExecution, NoProposal
  <2>2. CASE execution' = [execution EXCEPT ![x].step = "running"]
    BY ONLY <1>2, <2>2, x \in Executions
  <2>3. CASE execution' = [execution EXCEPT ![x].step = "answered", ![x].ok = FALSE]
    BY ONLY ZenonT(60), <1>2, <2>3, x \in Executions
  <2>4. CASE /\ execution' = [execution EXCEPT ![x].step = "answered"]
             /\ execution[x].next > PlanSteps
    BY ONLY <1>2, <2>4, x \in Executions
  <2>5. CASE execution' = [execution EXCEPT ![x].heard = FALSE]
    BY ONLY <1>2, <2>5, x \in Executions
  <2>6. QED
    BY <1>3, <2>1, <2>2, <2>3, <2>4, <2>5
<1>5. \A y \in Executions, q \in Proposals : For(y, q)' => For(y, q)
  BY <1>1, <1>4 DEF For, Busy
<1>6. \/ reported' = reported
      \/ /\ reported' = reported \cup {p}
         /\ \A n \in 1..PlanSteps : called[p][n] = 1
  <2>1. ASSUME execution[x].step = "answered", execution[x].ok
        PROVE  \A n \in 1..PlanSteps : called[p][n] = 1
    <3>1. Busy(x)
      BY <1>1
    <3>2. /\ execution[x].next = PlanSteps + 1
          /\ \A n \in 1..PlanSteps : called[p][n] = IF n < execution[x].next THEN 1 ELSE 0
      BY <2>1, <3>1 DEF ProposalInv, OneExecution
    <3>3. \A n \in 1..PlanSteps : n < execution[x].next
      BY <3>2
    <3>4. QED
      BY <3>2, <3>3
  <2>2. CASE ResultsArrive(x)
    <3>1. /\ execution[x].step = "answered"
          /\ reported' = IF execution[x].heard /\ execution[x].ok THEN reported \cup {p} ELSE reported
      BY <2>2, Zenon DEF ResultsArrive
    <3>2. CASE execution[x].heard /\ execution[x].ok
      <4>1. reported' = reported \cup {p}
        BY <3>1, <3>2
      <4>2. \A n \in 1..PlanSteps : called[p][n] = 1
        BY <2>1, <3>1, <3>2
      <4>3. QED
        BY <4>1, <4>2
    <3>3. CASE ~(execution[x].heard /\ execution[x].ok)
      BY <3>1, <3>3, Zenon
    <3>4. QED
      BY <3>2, <3>3
  <2>3. CASE ~ResultsArrive(x)
    <3>1. reported' = reported
      BY <2>3 DEF ExecuteFails, GetPlan, StepThrows, EndOfPlan, AnswerIsLost
    <3>2. QED
      BY <3>1
  <2>4. QED
    BY <2>2, <2>3
<1>7. ProposalTypes'
  BY <1>1, <1>2, <1>4, <1>6 DEF ProposalInv, ProposalTypes
<1>8. Untouched'
  <2> SUFFICES ASSUME NEW q \in Proposals
               PROVE  /\ stored'[q] = "new" => card'[q] = "none"
                      /\ stored'[q] = "new" \/ card'[q] = "pending" =>
                           /\ \A y \in Executions : ~(For(y, q)')
                           /\ \A n \in 1..PlanSteps : called'[q][n] = 0
    BY DEF Untouched
  <2>1. /\ card'[q] = "pending" => card[q] = "pending"
        /\ card[q] = "none" => card'[q] = "none"
    BY <1>1, <1>2
  <2>2. QED
    BY <1>1, <1>5, <2>1 DEF ProposalInv, Untouched
<1>9. OneExecution'
  <2> SUFFICES ASSUME NEW y \in Executions, Busy(y)'
               PROVE  /\ execution'[y].plan \in Proposals
                      /\ execution'[y].next <= PlanSteps + 1
                      /\ \A z \in Executions : For(z, execution[y].plan)' => z = y
                      /\ \A n \in 1..PlanSteps :
                           called'[execution'[y].plan][n] = IF n < execution'[y].next THEN 1 ELSE 0
                      /\ execution'[y].step = "answered" /\ execution'[y].ok
                           => execution'[y].next = PlanSteps + 1
    BY DEF OneExecution
  <2>1. Busy(y) /\ execution'[y].plan = execution[y].plan /\ execution'[y].next = execution[y].next
    BY <1>1, <1>4 DEF Busy
  <2>2. /\ execution[y].plan \in Proposals /\ execution[y].next <= PlanSteps + 1
        /\ execution[y].next \in Nat
        /\ \A z \in Executions : For(z, execution[y].plan) => z = y
        /\ \A n \in 1..PlanSteps :
             called[execution[y].plan][n] = IF n < execution[y].next THEN 1 ELSE 0
        /\ execution[y].step = "answered" /\ execution[y].ok => execution[y].next = PlanSteps + 1
    BY <2>1 DEF ProposalInv, ProposalTypes, OneExecution
  <2>3. execution'[y].step = "answered" /\ execution'[y].ok => execution[y].next = PlanSteps + 1
    <3>1. CASE y = x
      BY <1>4, <2>2, <3>1 DEF Busy
    <3>2. CASE y # x
      BY <1>4, <2>2, <3>2
    <3>3. QED
      BY <3>1, <3>2
  <2>4. QED
    BY <1>1, <1>5, <2>1, <2>2, <2>3
<1>10. InOrder' /\ ReportedIsDone' /\ ServicesReached'
  BY <1>1, <1>6 DEF ProposalInv, InOrder, ReportedIsDone, ServicesReached
<1>11. QED
  BY <1>7, <1>8, <1>9, <1>10 DEF ProposalInv

LEMMA ProposalInvStep ==
  ASSUME PlanSteps \in Nat, ProposalInv, [AssistantNext]_assistantVars
  PROVE  ProposalInv'
<1>1. CASE UNCHANGED assistantVars
  BY <1>1 DEF assistantVars, ProposalInv, ProposalTypes, Untouched, OneExecution, InOrder,
              ReportedIsDone, ServicesReached, Busy, For
<1>2. CASE AssistantNext
  BY <1>2, ConversationStep, ConfirmStep, ExecuteStepKeeps, ExecutionMoves DEF AssistantNext
<1>3. QED
  BY <1>1, <1>2

\* The steps of a plan are carried out once at most and in order, and what the panel
\* reports as done is, but for the backups, whose rows nobody carries out, although
\* ActionExecutorService runs a stored plan as often as it is asked: the card asks once.
THEOREM PlanRunsOnce ==
  ASSUME PlanSteps \in Nat
  PROVE  AssistantSpec => []PlanIsCarriedOutOnce
<1>1. AssistantInit => ProposalInv
  BY ProposalInvInit
<1>2. ProposalInv /\ [AssistantNext]_assistantVars => ProposalInv'
  BY ProposalInvStep
<1>3. ProposalInv => PlanIsCarriedOutOnce
  <2>1. ASSUME ProposalInv
        PROVE  /\ called \in [Proposals -> [1..PlanSteps -> {0, 1}]]
               /\ InOrder /\ ReportedIsDone /\ ServicesReached
    BY <2>1 DEF ProposalInv, ProposalTypes
  <2>2. QED
    BY <2>1 DEF InOrder, ReportedIsDone, ServicesReached, PlanIsCarriedOutOnce
<1>4. QED
  BY <1>1, <1>2, <1>3, PTL DEF AssistantSpec

-----------------------------------------------------------------------------
(* The form.  Every row is one that could be chosen now: a disk has a pool of *)
(* the node that is chosen, a NIC one of its own network.                    *)

DiskSize == DiskSizes \cup {20, 40} \cup {MinDiskGb[t] : t \in DOMAIN MinDiskGb}
Disk(n) == [sizeGb : DiskSize, storagePoolId : StoragePools(n) \cup {Nothing}]
Nic ==
  {nic \in [networkId : Network \cup {Nothing}, ipPoolId : DOMAIN NetworkOfPool \cup {Nothing}] :
     nic.ipPoolId \in IpPools(nic.networkId) \cup {Nothing}}

\* What has been created from such rows.
VmFits ==
  vm # Nothing =>
    /\ vm.pools \subseteq StoragePools(vm.node) \cup {Nothing}
    /\ \A nic \in vm.nics : nic.ipPoolId \in IpPools(nic.networkId) \cup {Nothing}

FormInv ==
  /\ disks \in Seq(Disk(nodeId)) /\ Len(disks) > 0
  /\ nics \in Seq(Nic)
  /\ templateId \in DOMAIN MinDiskGb \cup {Nothing}
  /\ VmFits

\* A row that is added, changed or removed leaves rows of the same kind.
LEMMA RowsStay ==
  ASSUME NEW S, NEW rows \in Seq(S), NEW i \in DOMAIN rows
  PROVE  /\ \A row \in S : Append(rows, row) \in Seq(S) /\ [rows EXCEPT ![i] = row] \in Seq(S)
         /\ RemoveAt(rows, i) \in Seq(S)
         /\ Len(RemoveAt(rows, i)) = Len(rows) - 1
<1>1. i \in 1..Len(rows)
  BY LenProperties
<1> DEFINE front == SubSeq(rows, 1, i - 1)
           back == SubSeq(rows, i + 1, Len(rows))
<1>2. /\ front \in Seq(S) /\ Len(front) = i - 1
      /\ back \in Seq(S) /\ Len(back) = Len(rows) - i
  BY <1>1, LenProperties, SubSeqProperties
<1>3. RemoveAt(rows, i) = front \o back
  BY DEF RemoveAt
<1> HIDE DEF front, back
<1>4. front \o back \in Seq(S) /\ Len(front \o back) = Len(front) + Len(back)
  BY <1>2, ConcatProperties
<1>5. RemoveAt(rows, i) \in Seq(S) /\ Len(RemoveAt(rows, i)) = Len(rows) - 1
  BY <1>1, <1>2, <1>3, <1>4, LenProperties
<1>6. ASSUME NEW row \in S
      PROVE  Append(rows, row) \in Seq(S) /\ [rows EXCEPT ![i] = row] \in Seq(S)
  BY <1>1, AppendProperties, ExceptSeq
<1> QED
  BY <1>5, <1>6

\* The effect that makes the first disk large enough keeps its pool.
LEMMA PrefillFits ==
  ASSUME NEW n, NEW rows \in Seq(Disk(n)), Len(rows) > 0, NEW t \in DOMAIN MinDiskGb
  PROVE  Prefilled(rows, t) \in Seq(Disk(n)) /\ Len(Prefilled(rows, t)) > 0
<1> DEFINE row == [rows[1] EXCEPT !.sizeGb = MinDiskGb[t]]
<1>1. 1 \in DOMAIN rows /\ rows[1] \in Disk(n)
  BY ElementOfSeq, LenProperties
<1>2. row \in Disk(n)
  BY <1>1 DEF Disk, DiskSize
<1>3. [rows EXCEPT ![1].sizeGb = MinDiskGb[t]] = [rows EXCEPT ![1] = row]
  OBVIOUS
<1> HIDE DEF row
<1>4. [rows EXCEPT ![1] = row] \in Seq(Disk(n)) /\ Len([rows EXCEPT ![1] = row]) = Len(rows)
  BY <1>1, <1>2, LenProperties, ExceptSeq
<1> QED
  BY <1>3, <1>4 DEF Prefilled

\* What the page starts with fits any node.
LEMMA FirstRowsFit ==
  /\ \A n : FirstDisks \in Seq(Disk(n)) /\ Len(FirstDisks) > 0
  /\ <<NewNic>> \in Seq(Nic)
  BY DEF FirstDisks, NewDisk, Disk, DiskSize, NewNic, Nic, Network

\* Fields that change no row.
LEMMA FormByRows ==
  ASSUME FormInv, disks' \in Seq(Disk(nodeId')), Len(disks') > 0, nics' \in Seq(Nic),
         templateId' \in DOMAIN MinDiskGb \cup {Nothing}, UNCHANGED vm
  PROVE  FormInv'
  BY DEF FormInv, VmFits, Disk, DiskSize, StoragePools, Nic, Network, IpPools

\* Whatever is clicked, sent, answered or read again keeps the rows fitting.
LEMMA FormStep == FormInv /\ [FormNext]_formVars => FormInv'
<1> SUFFICES ASSUME FormInv, [FormNext]_formVars
             PROVE  FormInv'
  OBVIOUS
<1>r. /\ disks \in Seq(Disk(nodeId)) /\ Len(disks) > 0 /\ nics \in Seq(Nic)
      /\ templateId \in DOMAIN MinDiskGb \cup {Nothing}
  BY DEF FormInv
<1>d. DOMAIN disks = 1..Len(disks) /\ \A i \in DOMAIN disks : disks[i] \in Disk(nodeId)
  BY <1>r, ElementOfSeq, LenProperties
<1>1. CASE TemplatesArrive \/ \E t \in DOMAIN MinDiskGb \cup {Nothing} : ChooseTemplate(t)
  <2>1. PICK t \in DOMAIN MinDiskGb \cup {Nothing} : TemplateIs(t)
    BY <1>1, <1>r DEF TemplatesArrive, ChooseTemplate
  <2>2. templateId' \in DOMAIN MinDiskGb /\ disks' = Prefilled(disks, templateId')
    BY <2>1, FormAssumption DEF TemplateIs
  <2>3. disks' \in Seq(Disk(nodeId)) /\ Len(disks') > 0
    BY <2>2, <1>r, PrefillFits
  <2> QED
    BY <1>1, <1>r, <2>2, <2>3, FormByRows DEF TemplatesArrive, ChooseTemplate, world
<1>2. ASSUME NEW n \in Node \cup {Nothing}, ChooseNode(n)
      PROVE  FormInv'
  <2>1. disks' = WithoutPools /\ nodeId' = n
    BY <1>2 DEF ChooseNode
  <2>2. \A i \in 1..Len(disks) : [disks[i] EXCEPT !.storagePoolId = Nothing] \in Disk(n)
    BY <1>d DEF Disk
  <2>3. /\ disks' = [i \in 1..Len(disks) |-> [disks[i] EXCEPT !.storagePoolId = Nothing]]
        /\ Len(disks) \in Nat
    BY <1>d, <1>r, <2>1, LenProperties DEF WithoutPools
  <2>4. disks' \in [1..Len(disks) -> Disk(n)]
    BY <2>2, <2>3
  <2>5. disks' \in Seq(Disk(n)) /\ Len(disks') = Len(disks)
    BY <2>3, <2>4
  <2> QED
    BY <1>2, <1>r, <2>1, <2>5, FormByRows DEF ChooseNode, world
<1>3. CASE AddDisk
  <2>1. NewDisk(20) \in Disk(nodeId)
    BY DEF NewDisk, Disk, DiskSize
  <2> QED
    BY <1>3, <1>r, <2>1, AppendProperties, FormByRows DEF AddDisk, world
<1>4. CASE AddNic
  <2>1. NewNic \in Nic
    BY DEF NewNic, Nic
  <2> QED
    BY <1>4, <1>r, <2>1, AppendProperties, FormByRows DEF AddNic, world
<1>5. ASSUME NEW i \in DOMAIN disks, RemoveDisk(i)
      PROVE  FormInv'
  <2>1. disks' \in Seq(Disk(nodeId)) /\ Len(disks') > 0
    BY <1>5, <1>r, RowsStay DEF RemoveDisk
  <2> QED
    BY <1>5, <1>r, <2>1, FormByRows DEF RemoveDisk, world
<1>6. ASSUME NEW i \in DOMAIN disks, NEW gb \in DiskSizes, SizeDisk(i, gb)
      PROVE  FormInv'
  <2> DEFINE row == [disks[i] EXCEPT !.sizeGb = gb]
  <2>1. row \in Disk(nodeId)
    BY <1>d DEF Disk, DiskSize
  <2>2. disks' = [disks EXCEPT ![i] = row]
    BY <1>6 DEF SizeDisk
  <2> HIDE DEF row
  <2>3. disks' \in Seq(Disk(nodeId)) /\ Len(disks') > 0
    BY <1>d, <1>r, <2>1, <2>2, ExceptSeq
  <2> QED
    BY <1>6, <1>r, <2>3, FormByRows DEF SizeDisk, world
<1>7. ASSUME NEW i \in DOMAIN disks, NEW pool, ChooseStoragePool(i, pool)
      PROVE  FormInv'
  <2> DEFINE row == [disks[i] EXCEPT !.storagePoolId = pool]
  <2>1. row \in Disk(nodeId)
    BY <1>7, <1>d DEF ChooseStoragePool, Disk
  <2>2. disks' = [disks EXCEPT ![i] = row]
    BY <1>7 DEF ChooseStoragePool
  <2> HIDE DEF row
  <2>3. disks' \in Seq(Disk(nodeId)) /\ Len(disks') > 0
    BY <1>d, <1>r, <2>1, <2>2, ExceptSeq
  <2> QED
    BY <1>7, <1>r, <2>3, FormByRows DEF ChooseStoragePool, world
<1>8. ASSUME NEW i \in DOMAIN nics, RemoveNic(i)
      PROVE  FormInv'
  BY <1>8, <1>r, RowsStay, FormByRows DEF RemoveNic, world
<1>9. ASSUME NEW i \in DOMAIN nics, NEW net \in Network \cup {Nothing}, ChooseNetwork(i, net)
      PROVE  FormInv'
  <2>1. OnNetwork(nics[i], net) \in Nic
    BY DEF OnNetwork, Nic
  <2>2. nics' = [nics EXCEPT ![i] = OnNetwork(nics[i], net)]
    BY <1>9 DEF ChooseNetwork
  <2>3. nics' \in Seq(Nic)
    BY <1>r, <2>1, <2>2, RowsStay
  <2> QED
    BY <1>9, <1>r, <2>3, FormByRows DEF ChooseNetwork, world
<1>10. ASSUME NEW i \in DOMAIN nics, NEW pool, ChooseIpPool(i, pool)
       PROVE  FormInv'
  <2> DEFINE row == [nics[i] EXCEPT !.ipPoolId = pool]
  <2>1. nics[i] \in Nic
    BY <1>r, ElementOfSeq, LenProperties
  <2>2. row \in Nic
    BY <1>10, <2>1 DEF ChooseIpPool, Nic, IpPools
  <2>3. nics' = [nics EXCEPT ![i] = row]
    BY <1>10 DEF ChooseIpPool
  <2> HIDE DEF row
  <2>4. nics' \in Seq(Nic)
    BY <1>r, <2>2, <2>3, RowsStay
  <2> QED
    BY <1>10, <1>r, <2>4, FormByRows DEF ChooseIpPool, world
<1>11. CASE Submit
  <2>1. UNCHANGED <<nodeId, templateId, disks, nics>>
    BY <1>11 DEF Submit, choices
  <2>2. CASE UNCHANGED vm
    BY <2>1, <2>2, <1>r, FormByRows
  <2>3. CASE Succeeds
    <3>1. PICK n \in Placements : OnNode(n) /\ vm' = Created(n)
      BY <2>3 DEF Succeeds
    <3>2. /\ vm'.node = n
          /\ vm'.pools = {disks[i].storagePoolId : i \in DOMAIN disks}
          /\ vm'.nics = {nics[i] : i \in DOMAIN nics}
      BY <3>1 DEF Created
    <3>3. \A i \in DOMAIN nics : nics[i] \in Nic
      BY <1>r, ElementOfSeq, LenProperties
    <3>4. VmFits'
      BY <3>1, <3>2, <3>3 DEF VmFits, OnNode, Nic, StoragePools, IpPools
    <3> QED
      BY <2>1, <3>4 DEF FormInv, Disk, DiskSize, StoragePools, Nic, Network, IpPools
  <2> QED
    BY <1>11, <2>2, <2>3 DEF Submit, IsRefused
<1>12. CASE OpenAgain
  <2>1. disks' \in Seq(Disk(nodeId')) /\ Len(disks') > 0
    BY <1>12, FirstRowsFit, PrefillFits, FormAssumption DEF OpenAgain
  <2>2. nics' \in Seq(Nic) /\ templateId' \in DOMAIN MinDiskGb \cup {Nothing} /\ vm' = Nothing
    BY <1>12, FirstRowsFit, FormAssumption DEF OpenAgain
  <2> QED
    BY <2>1, <2>2 DEF FormInv, VmFits, Disk, DiskSize, StoragePools, Nic, Network, IpPools
<1>13. ASSUME NEW n \in Node, NodeTurns(n)
       PROVE  FormInv'
  BY <1>13, <1>r, FormByRows DEF NodeTurns, choices
<1>14. CASE UNCHANGED formVars
  BY <1>14, <1>r, FormByRows DEF formVars, choices
<1> QED
  BY <1>1, <1>2, <1>3, <1>4, <1>5, <1>6, <1>7, <1>8, <1>9, <1>10, <1>11, <1>12, <1>13, <1>14
     DEF FormNext, Edit

\* However many rows are added, removed and changed in whatever order, no pool is left
\* over from a node or a network that was chosen before.
THEOREM FormAlwaysFits == FormSpec => []FormFits
<1>1. FormInit => FormInv
  BY FirstRowsFit DEF FormInit, FormInv, VmFits
<1>2. FormInv /\ [FormNext]_formVars => FormInv'
  BY FormStep
<1>3. FormInv => FormFits
  <2> SUFFICES ASSUME FormInv
               PROVE  FormFits
    OBVIOUS
  <2>1. \A i \in DOMAIN disks : disks[i] \in Disk(nodeId)
    BY ElementOfSeq, LenProperties DEF FormInv
  <2> QED
    BY <2>1 DEF FormInv, VmFits, FormFits, Disk
<1> QED
  BY <1>1, <1>2, <1>3, PTL DEF FormSpec

-----------------------------------------------------------------------------
(* The pages of the panel.  What an open page still has to show is on its    *)
(* way: for that, what a mutation or an event changes must be shown under a  *)
(* key that it invalidates, which the first lemmas say of the tables.        *)

LEMMA PrefixIs ==
  /\ \A x, y : IsPrefix(<<x>>, <<x, y>>) /\ IsPrefix(<<x, y>>, <<x, y>>)
  /\ \A x : IsPrefix(<<x>>, <<x>>)
  /\ \A x, y, z : IsPrefix(<<x>>, <<x, y, z>>)
  BY DEF IsPrefix

\* The keys under which a query that is not polled shows something.
Keyed ==
  {<<"vm", <<"vms">>>>, <<"node", <<"nodes">>>>, <<"node", <<"nodes", "id">>>>,
   <<"nodes", <<"nodes">>>>, <<"snapshot", <<"vms", "id", "snapshots">>>>,
   <<"firewall", <<"vms", "id", "firewall">>>>,
   <<"plan", <<"vms", "id", "backup-schedules">>>>, <<"pci", <<"vms", "id", "pci">>>>,
   <<"iso", <<"storage", "isos">>>>, <<"template", <<"storage", "templates">>>>,
   <<"network", <<"networks">>>>, <<"networks", <<"networks">>>>,
   <<"network", <<"network", "id">>>>, <<"forward", <<"port-forwards", "id">>>>,
   <<"user", <<"users">>>>, <<"user", <<"roles">>>>, <<"role", <<"roles">>>>,
   <<"quota", <<"quota", "id">>>>, <<"alert", <<"alerts">>>>, <<"hook", <<"webhooks">>>>,
   <<"cronplan", <<"backup-schedules">>>>, <<"key", <<"api-keys">>>>,
   <<"session", <<"auth", "sessions">>>>, <<"setting", <<"system-settings">>>>,
   <<"license", <<"license">>>>, <<"container", <<"containers">>>>,
   <<"device", <<"nodes", "id", "pci-devices">>>>, <<"permission", <<"permissions">>>>,
   <<"delivery", <<"webhook-deliveries", "id">>>>, <<"log", <<"audit", "filter">>>>}

\* Without a refetchInterval, a query has one of these keys.
LEMMA ViewsAreKeyed ==
  ASSUME NEW q \in Views, ~q.polls, NEW a \in q.about
  PROVE  <<a, q.key>> \in Keyed
<1> USE DEF Keyed, Query, Polled, Plain, NodeList, NetworkList
<1>1. CASE q \in VmListQueries
  BY <1>1 DEF VmListQueries
<1>2. CASE q \in VmDetailQueries
  BY <1>2 DEF VmDetailQueries
<1>3. CASE q \in CreateVmQueries \cup CreateContainerQueries \cup PaletteQueries
  BY <1>3 DEF CreateVmQueries, CreateContainerQueries, PaletteQueries
<1>4. CASE q \in ContainersQueries \cup ContainerQueries \cup NodesQueries \cup NodeQueries
  BY <1>4 DEF ContainersQueries, ContainerQueries, NodesQueries, NodeQueries
<1>5. CASE q \in DashboardQueries \cup TaskQueries
  BY <1>5 DEF DashboardQueries, TaskQueries
<1>6. CASE q \in NetworkQueries \cup NetworkDetailQueries
  BY <1>6 DEF NetworkQueries, NetworkDetailQueries
<1>7. CASE q \in ClusterQueries \cup TemplateQueries \cup IsoQueries \cup UserQueries \cup QuotaQueries
  BY <1>7 DEF ClusterQueries, TemplateQueries, IsoQueries, UserQueries, QuotaQueries
<1>8. CASE q \in AlertQueries \cup WebhookQueries \cup AuditQueries \cup ScheduleQueries \cup ApiKeyQueries
  BY <1>8 DEF AlertQueries, WebhookQueries, AuditQueries, ScheduleQueries, ApiKeyQueries
<1>9. CASE q \in SessionQueries \cup SettingQueries \cup LicenseQueries
  BY <1>9 DEF SessionQueries, SettingQueries, LicenseQueries
<1> QED
  BY <1>1, <1>2, <1>3, <1>4, <1>5, <1>6, <1>7, <1>8, <1>9 DEF Views

LEMMA KeysAre ==
  ASSUME NEW a, NEW key, <<a, key>> \in Keyed
  PROVE  /\ a = "vm" => key = <<"vms">>
         /\ a = "snapshot" => key = <<"vms", "id", "snapshots">>
         /\ a = "firewall" => key = <<"vms", "id", "firewall">>
         /\ a = "plan" => key = <<"vms", "id", "backup-schedules">>
         /\ a = "pci" => key = <<"vms", "id", "pci">>
         /\ a = "node" => key \in {<<"nodes">>, <<"nodes", "id">>}
         /\ a = "nodes" => key = <<"nodes">>
         /\ a = "iso" => key = <<"storage", "isos">>
         /\ a = "template" => key = <<"storage", "templates">>
         /\ a = "network" => key \in {<<"networks">>, <<"network", "id">>}
         /\ a = "networks" => key = <<"networks">>
         /\ a = "forward" => key = <<"port-forwards", "id">>
         /\ a = "user" => key \in {<<"users">>, <<"roles">>}
         /\ a = "role" => key = <<"roles">>
         /\ a = "quota" => key = <<"quota", "id">>
         /\ a = "alert" => key = <<"alerts">>
         /\ a = "hook" => key = <<"webhooks">>
         /\ a = "cronplan" => key = <<"backup-schedules">>
         /\ a = "key" => key = <<"api-keys">>
         /\ a = "session" => key = <<"auth", "sessions">>
         /\ a = "setting" => key = <<"system-settings">>
         /\ a = "license" => key = <<"license">>
         /\ a = "container" => key = <<"containers">>
         /\ a # "backup"
  BY DEF Keyed

\* The keys that begin with another one.
LEMMA KeysBegin ==
  ASSUME NEW a, NEW key, <<a, key>> \in Keyed
  PROVE  /\ IsPrefix(key, key)
         /\ a \in {"vm", "snapshot", "firewall", "plan", "pci"} => IsPrefix(<<"vms">>, key)
         /\ a = "forward" => IsPrefix(<<"port-forwards">>, key)
         /\ a = "node" => IsPrefix(<<"nodes">>, key)
<1>1. \/ \E x : key = <<x>>
      \/ \E x, y : key = <<x, y>>
      \/ \E y, z : key = <<y, "id", z>>
  BY DEF Keyed
<1>2. IsPrefix(key, key)
  BY <1>1 DEF IsPrefix
<1>3. CASE a \in {"vm", "snapshot", "firewall", "plan", "pci"}
  <2>1. key = <<"vms">> \/ \E y, z : key = <<"vms", y, z>>
    BY <1>3, KeysAre
  <2>2. IsPrefix(<<"vms">>, key)
    BY <2>1, PrefixIs
  <2> QED
    BY <1>2, <1>3, <2>2
<1>4. CASE a = "forward"
  <2>1. key = <<"port-forwards", "id">>
    BY <1>4, KeysAre
  <2>2. IsPrefix(<<"port-forwards">>, key)
    BY <2>1, PrefixIs
  <2> QED
    BY <1>2, <1>4, <2>2
<1>5. CASE a = "node"
  <2>1. key = <<"nodes">> \/ key = <<"nodes", "id">>
    BY <1>5, KeysAre
  <2>2. IsPrefix(<<"nodes">>, key)
    BY <2>1, PrefixIs
  <2> QED
    BY <1>2, <1>5, <2>2
<1> QED
  BY <1>2, <1>3, <1>4, <1>5

\* A mutation invalidates what it changes, unless the page leaves it.
LEMMA MutationsInvalidate ==
  ASSUME NEW m \in Mutations, NEW a \in m.changes, NEW key, <<a, key>> \in Keyed
  PROVE  <<m.page, a, key>> \in Gaps \/ \E k \in m.drops : IsPrefix(k, key)
<1> USE DEF Settled, OnSuccess
<1>1. CASE m \in VmListMutations \cup VmDetailMutations
  <2>1. a \in {"vm", "snapshot", "firewall", "plan", "pci"} /\ <<"vms">> \in m.drops
    BY <1>1, KeysAre DEF VmListMutations, VmDetailMutations
  <2> QED
    BY <2>1, KeysBegin
<1>2. CASE m \in CreateVmMutations \cup CreateContainerMutations
  BY <1>2, KeysAre DEF CreateVmMutations, CreateContainerMutations, Gaps
<1>3. CASE m \in ContainersMutations \cup ContainerMutations
  <2>1. key \in m.drops
    BY <1>3, KeysAre DEF ContainersMutations, ContainerMutations
  <2> QED
    BY <2>1, KeysBegin
<1>4. CASE m \in NodeMutations
  <2>1. key \in m.drops \/ <<m.page, a, key>> \in Gaps
    BY <1>4, KeysAre DEF NodeMutations, Gaps
  <2> QED
    BY <2>1, KeysBegin
<1>5. CASE m \in NetworkMutations \cup NetworkDetailMutations
  <2>1. \/ key \in m.drops
        \/ <<m.page, a, key>> \in Gaps
        \/ a = "forward" /\ <<"port-forwards">> \in m.drops
    BY <1>5, KeysAre DEF NetworkMutations, NetworkDetailMutations, Gaps
  <2> QED
    BY <2>1, KeysBegin
<1>6. CASE m \in TemplateMutations \cup IsoMutations \cup QuotaMutations
  <2>1. key \in m.drops
    BY <1>6, KeysAre DEF TemplateMutations, IsoMutations, QuotaMutations
  <2> QED
    BY <2>1, KeysBegin
<1>7. CASE m \in UserMutations
  <2>1. key \in m.drops \/ <<m.page, a, key>> \in Gaps
    BY <1>7, KeysAre DEF UserMutations, Gaps
  <2> QED
    BY <2>1, KeysBegin
<1>8. CASE m \in AlertMutations \cup WebhookMutations \cup ScheduleMutations \cup ApiKeyMutations
  <2>1. key \in m.drops
    BY <1>8, KeysAre DEF AlertMutations, WebhookMutations, ScheduleMutations, ApiKeyMutations
  <2> QED
    BY <2>1, KeysBegin
<1>9. CASE m \in SessionMutations \cup SettingMutations \cup LicenseMutations
  <2>1. key \in m.drops
    BY <1>9, KeysAre DEF SessionMutations, SettingMutations, LicenseMutations
  <2> QED
    BY <2>1, KeysBegin
<1> QED
  BY <1>1, <1>2, <1>3, <1>4, <1>5, <1>6, <1>7, <1>8, <1>9 DEF Mutations

\* An event invalidates what it announces.
LEMMA EventsInvalidate ==
  ASSUME NEW a \in Pushed, NEW key, <<a, key>> \in Keyed
  PROVE  \E k \in EventKeys(a) : IsPrefix(k, key)
<1>1. a \in {"vm", "snapshot", "node", "container"}
  BY DEF Pushed, Keyed
<1>2. EventKeys(a) = IF a = "node" THEN {<<"nodes">>}
                     ELSE IF a = "container" THEN {<<"tasks">>, <<"containers">>}
                     ELSE {<<"tasks">>, <<"vms">>}
  BY <1>1 DEF EventKeys
<1> QED
  BY <1>1, <1>2, KeysAre, KeysBegin

\* The version a page has still to come to show, unless it is polled.
Owes == ~view.polls /\ shown < due

Announced == \E a \in view.about : a \in Pushed

\* Why the page comes to show it.
WillBeRead ==
  \/ fetch.step = "asked"
  \/ fetch.step = "read" /\ fetch.read >= due
  \/ ~mounted /\ fetch.step = "idle" /\ (invalid \/ shown = -1)
  \/ signedIn /\ ~broken /\ Announced /\ \E v \in events : v >= due

ReasonInv == Owes => WillBeRead

\* TasksPage may take its own socket with it, never the last one.
SocketInv ==
  /\ tasksPage => signedIn
  /\ signedIn /\ ~broken => connected # {} /\ (tasksPage => connected \ {socket} # {})

\* Nothing is owed, announced or answered that the server has not had, and a read
\* under way finds nothing older than what is shown.
LatestInv ==
  /\ due <= latest /\ shown <= latest
  /\ fetch.step = "read" => shown <= fetch.read /\ fetch.read <= latest
  /\ \A v \in events : v <= latest
  /\ change # NoChange => change.v <= latest

ChangeInv ==
  change # NoChange =>
    /\ change \in [step : {"sent", "carried out"}, m : Mutations, v : Versions]
    /\ change.m.changes \cap view.about # {}

PanelInv == PanelTypeOK /\ ChangeInv /\ LatestInv /\ SocketInv /\ ReasonInv

\* invalidateQueries finds the query that is followed.
Matches(ks) == \E k \in ks : IsPrefix(k, view.key)

\* A page that is open and behind what it has to show is polled, is being read, or
\* learns it from an event that is on its way to a socket that is connected, and
\* that invalidates its query: whatever pages were opened and left meanwhile, and in
\* whatever order reads, mutations and events end (useLiveEvents and the queries and
\* mutations of the pages).
BehindIsRead ==
  mounted /\ shown < due =>
    \/ view.polls
    \/ fetch.step = "asked"
    \/ fetch.step = "read" /\ fetch.read >= due
    \/ /\ connected # {}
       /\ \E v \in events : v >= due
       /\ Matches(UNION {EventKeys(a) : a \in view.about})

\* invalidateQueries has a query that it finds read, or forgives it.
LEMMA InvalidateIs ==
  ASSUME PanelTypeOK, NEW ks, NEW owed \in Versions \cup {-1}, Invalidate(ks, owed),
         UNCHANGED <<view, shown, mounted>>
  PROVE  /\ fetch' \in [step : {"idle", "asked", "read"}, read : Versions]
         /\ invalid' \in BOOLEAN
         /\ due' \in {owed, -1}
         /\ fetch' = fetch \/ fetch'.step = "asked"
         /\ Matches(ks) => ReasonInv'
         /\ ~Matches(ks) => due' = owed /\ UNCHANGED <<invalid, fetch>>
<1>1. Asked \in [step : {"idle", "asked", "read"}, read : Versions]
  BY PanelAssumption DEF Asked, Versions
<1>2. CASE Matches(ks) /\ mounted
  BY <1>1, <1>2 DEF Matches, Invalidate, PanelTypeOK, ReasonInv, WillBeRead, Asked
<1>3. CASE Matches(ks) /\ ~mounted
  <2>1. shown \in Versions \cup {-1}
    BY DEF PanelTypeOK
  <2>2. shown \in Int /\ ~(shown < -1)
    BY <2>1, PanelAssumption DEF Versions
  <2>3. /\ invalid' = TRUE /\ UNCHANGED fetch
        /\ due' = IF fetch.step = "idle" \/ view.polls THEN owed ELSE -1
    BY <1>3 DEF Matches, Invalidate
  <2>4. ReasonInv'
    BY <1>3, <2>2, <2>3 DEF ReasonInv, WillBeRead, Owes
  <2> QED
    BY <1>3, <2>3, <2>4 DEF PanelTypeOK
<1>4. CASE ~Matches(ks)
  BY <1>4 DEF Matches, Invalidate, PanelTypeOK
<1> QED
  BY <1>2, <1>3, <1>4

\* What an event that is taken, or a mutation, has to say of the page.
LEMMA AnnouncedMatches ==
  ASSUME PanelTypeOK, ~view.polls, Announced
  PROVE  Matches(UNION {EventKeys(a) : a \in view.about})
<1>1. PICK a \in view.about : a \in Pushed
  BY DEF Announced
<1>2. <<a, view.key>> \in Keyed
  BY ViewsAreKeyed DEF PanelTypeOK
<1>3. PICK k \in EventKeys(a) : IsPrefix(k, view.key)
  BY <1>1, <1>2, EventsInvalidate
<1> QED
  BY <1>1, <1>3 DEF Matches

LEMMA MutationMatches ==
  ASSUME PanelTypeOK, ~view.polls, NEW m \in Mutations, ~Leaves(m)
  PROVE  Matches(m.drops)
<1>1. PICK a \in m.changes \cap view.about : <<m.page, a, view.key>> \notin Gaps
  BY DEF Leaves
<1>2. <<a, view.key>> \in Keyed
  BY <1>1, ViewsAreKeyed DEF PanelTypeOK
<1> QED
  BY <1>1, <1>2, MutationsInvalidate DEF Matches

\* Max of two numbers, and the least of any.
LEMMA LaterIs ==
  ASSUME NEW i \in Int, NEW j \in Int
  PROVE  Max({i, j}) = IF i <= j THEN j ELSE i
<1> DEFINE later == IF i <= j THEN j ELSE i
<1>1. later \in {i, j} /\ \A y \in {i, j} : later >= y
  OBVIOUS
<1>2. \A x \in {i, j} : (\A y \in {i, j} : x >= y) => x = later
  OBVIOUS
<1> QED
  BY <1>1, <1>2 DEF Max

LEMMA LeastSocket ==
  ASSUME NEW T \in SUBSET Nat, T # {}
  PROVE  \E n \in T : \A k \in T : n <= k
<1> DEFINE R == OpToRel(<, Nat)
<1>1. IsWellFoundedOn(R, Nat)
  BY NatLessThanWellFounded
<1> HIDE DEF R
<1>2. PICK n \in T : \A k \in T : <<k, n>> \notin R
  BY <1>1, WFMin
<1>3. \A i, j \in Nat : i < j => <<i, j>> \in R
  BY DEF R, OpToRel
<1>4. \A k \in T : ~(k < n)
  BY <1>2, <1>3
<1> QED
  BY <1>4

\* A socket that is connected is a new one.
LEMMA ConnectIs ==
  ASSUME PanelTypeOK, Connect
  PROVE  /\ socket' \in SocketIds /\ socket' \notin connected
         /\ connected' = connected \cup {socket'} /\ connected' \subseteq SocketIds
<1>1. Free \in SUBSET Nat /\ Free # {}
  BY PanelAssumption DEF Free, Connect
<1>2. \E n \in Free : \A k \in Free : n <= k
  BY <1>1, LeastSocket
<1>3. Min(Free) \in Free
  BY <1>2 DEF Min
<1> QED
  BY <1>3 DEF Connect, Free, PanelTypeOK

\* The states of a read.
FetchRow == [step : {"idle", "asked", "read"}, read : Versions]

\* What the types say of numbers.
LEMMA PanelNumbers ==
  ASSUME PanelTypeOK
  PROVE  /\ latest \in Nat /\ latest <= MaxVersion /\ MaxVersion \in Nat
         /\ shown \in Int /\ ~(shown < -1) /\ due \in Int
         /\ fetch.read \in Nat /\ fetch \in FetchRow
         /\ IdleFetch \in FetchRow /\ Asked \in FetchRow
         /\ \A v \in events : v \in Nat
         /\ panelFaults \in Nat /\ panelFaults <= PanelFaults
         /\ panelFaults > 0 => panelFaults - 1 \in 0..PanelFaults
<1>1. /\ latest \in Versions /\ shown \in Versions \cup {-1} /\ due \in Versions \cup {-1}
      /\ events \subseteq Versions /\ fetch \in FetchRow /\ panelFaults \in 0..PanelFaults
  BY DEF PanelTypeOK, FetchRow
<1>2. IdleFetch \in FetchRow /\ Asked \in FetchRow
  BY PanelAssumption DEF IdleFetch, Asked, FetchRow, Versions
<1> QED
  BY <1>1, <1>2, PanelAssumption DEF Versions, FetchRow

\* What is forgiven is not owed, and what is not new is no later than before.
LEMMA Forgiven ==
  ASSUME PanelInv, due' = -1 \/ (view.polls /\ due' = due), UNCHANGED <<view, latest, shown>>,
         events' \subseteq events, change' \in {change, NoChange}, fetch' \in {fetch, IdleFetch}
  PROVE  LatestInv' /\ ReasonInv'
<1>1. /\ PanelTypeOK /\ due <= latest /\ shown <= latest /\ \A v \in events : v <= latest
      /\ fetch.step = "read" => shown <= fetch.read /\ fetch.read <= latest
      /\ change # NoChange => change.v <= latest
  BY DEF PanelInv, LatestInv
<1>2. latest \in Nat /\ due \in Int /\ ~(shown < -1)
  BY <1>1, PanelNumbers
<1>3. due' <= latest
  <2>1. CASE due' = -1
    BY <1>2, <2>1
  <2>2. CASE due' = due
    BY <1>1, <2>2
  <2> QED
    BY <2>1, <2>2
<1>4. LatestInv'
  <2>1. IdleFetch.step # "read"
    BY DEF IdleFetch
  <2> QED
    BY <1>1, <1>3, <2>1 DEF LatestInv
<1>5. ReasonInv'
  BY <1>1, <1>2 DEF ReasonInv, Owes
<1> QED
  BY <1>4, <1>5

LEMMA MountReads ==
  ASSUME PanelInv, Mount, UNCHANGED <<view, shown, invalid, due, events>>,
         signedIn /\ ~broken => signedIn' /\ ~broken'
  PROVE  /\ fetch' \in FetchRow /\ mounted' = TRUE /\ ReasonInv'
         /\ fetch' = fetch \/ fetch'.step = "asked"
<1>1. PanelTypeOK /\ ReasonInv
  BY DEF PanelInv
<1>2. Asked \in FetchRow /\ fetch \in FetchRow
  BY <1>1, PanelNumbers
<1>3. ReasonInv'
  BY <1>1 DEF Mount, ReasonInv, Owes, WillBeRead, Announced, Asked
<1> QED
  BY <1>2, <1>3 DEF Mount, Asked

\* A socket that TasksPage or signing out disconnects.
LEMMA CleanupIs ==
  ASSUME PanelTypeOK, Cleanup
  PROVE  connected' \subseteq SocketIds /\ socket' = 0
  BY DEF PanelTypeOK, Cleanup

\* React Query: reads are asked for, carried out, answered, or fail.
LEMMA GoesStaleKeeps ==
  ASSUME PanelInv, GoesStale
  PROVE  PanelInv'
<1>1. PanelTypeOK /\ ChangeInv /\ LatestInv /\ SocketInv /\ ReasonInv
  BY DEF PanelInv
<1>2. PanelTypeOK'
  BY <1>1, PanelNumbers DEF GoesStale, PanelTypeOK, FetchRow
<1>3. ChangeInv'
  BY <1>1 DEF GoesStale, ChangeInv
<1>4. LatestInv'
  BY <1>1 DEF GoesStale, LatestInv
<1>5. SocketInv'
  BY <1>1 DEF GoesStale, SocketInv
<1>6. ReasonInv'
  BY <1>1 DEF GoesStale, ReasonInv, Owes, WillBeRead, Announced
<1> QED
  BY <1>2, <1>3, <1>4, <1>5, <1>6 DEF PanelInv

LEMMA RefetchKeeps ==
  ASSUME PanelInv, Refetch
  PROVE  PanelInv'
<1>1. PanelTypeOK /\ ChangeInv /\ LatestInv /\ SocketInv /\ ReasonInv
  BY DEF PanelInv
<1>2. PanelTypeOK'
  BY <1>1, PanelNumbers, ZenonT(60) DEF Refetch, PanelTypeOK, FetchRow
<1>3. ChangeInv'
  BY <1>1 DEF Refetch, ChangeInv
<1>4. LatestInv'
  BY <1>1 DEF Refetch, LatestInv, Asked
<1>5. SocketInv'
  BY <1>1 DEF Refetch, SocketInv
<1>6. ReasonInv'
  BY <1>1 DEF Refetch, ReasonInv, Owes
<1> QED
  BY <1>2, <1>3, <1>4, <1>5, <1>6 DEF PanelInv

LEMMA ReadServerKeeps ==
  ASSUME PanelInv, ReadServer
  PROVE  PanelInv'
<1>1. PanelTypeOK /\ ChangeInv /\ LatestInv /\ SocketInv /\ ReasonInv
  BY DEF PanelInv
<1>2. latest \in Nat /\ latest <= latest
  BY <1>1, PanelNumbers
<1>3. PanelTypeOK'
  BY <1>1 DEF ReadServer, PanelTypeOK
<1>4. ChangeInv'
  BY <1>1 DEF ReadServer, ChangeInv
<1>5. LatestInv'
  BY <1>1, <1>2 DEF ReadServer, LatestInv
<1>6. SocketInv'
  BY <1>1 DEF ReadServer, SocketInv
<1>7. ReasonInv'
  BY <1>1, PanelNumbers DEF ReadServer, ReasonInv, Owes, WillBeRead, LatestInv
<1> QED
  BY <1>3, <1>4, <1>5, <1>6, <1>7 DEF PanelInv

LEMMA AnswerArrivesKeeps ==
  ASSUME PanelInv, AnswerArrives
  PROVE  PanelInv'
<1>1. PanelTypeOK /\ ChangeInv /\ LatestInv /\ SocketInv /\ ReasonInv
  BY DEF PanelInv
<1>2. /\ fetch.step = "read" /\ shown <= fetch.read /\ fetch.read <= latest
      /\ fetch.read \in Nat /\ shown \in Int /\ due \in Int
  BY <1>1, PanelNumbers DEF AnswerArrives, LatestInv
<1>3. PanelTypeOK'
  BY <1>1, PanelNumbers DEF AnswerArrives, PanelTypeOK, FetchRow
<1>4. ChangeInv'
  BY <1>1 DEF AnswerArrives, ChangeInv
<1>5. LatestInv'
  BY <1>1, <1>2 DEF AnswerArrives, LatestInv, IdleFetch
<1>6. SocketInv'
  BY <1>1 DEF AnswerArrives, SocketInv
<1>7. ReasonInv'
  BY <1>1, <1>2 DEF AnswerArrives, ReasonInv, Owes, WillBeRead, Announced
<1> QED
  BY <1>3, <1>4, <1>5, <1>6, <1>7 DEF PanelInv

LEMMA FetchFailsKeeps ==
  ASSUME PanelInv, FetchFails
  PROVE  PanelInv'
<1>1. PanelTypeOK /\ ChangeInv /\ LatestInv /\ SocketInv /\ ReasonInv
  BY DEF PanelInv
<1>2. PanelTypeOK'
  BY <1>1, PanelNumbers, ZenonT(60) DEF FetchFails, PanelTypeOK, FetchRow
<1>3. ChangeInv'
  BY <1>1 DEF FetchFails, ChangeInv
<1>4. LatestInv'
  BY Forgiven DEF FetchFails
<1>5. SocketInv'
  BY <1>1 DEF FetchFails, SocketInv
<1>6. ReasonInv'
  BY Forgiven DEF FetchFails
<1> QED
  BY <1>2, <1>3, <1>4, <1>5, <1>6 DEF PanelInv

\* The pages and the sockets.
LEMMA SignInKeeps ==
  ASSUME PanelInv, SignIn
  PROVE  PanelInv'
<1>1. PanelTypeOK /\ ChangeInv /\ LatestInv /\ SocketInv /\ ReasonInv
  BY DEF PanelInv
<1>2. /\ fetch' \in FetchRow /\ mounted' \in BOOLEAN
      /\ view.page = "layout" => ReasonInv'
      /\ fetch' = fetch \/ fetch'.step = "asked"
  BY <1>1, MountReads, PanelNumbers DEF SignIn, PanelTypeOK
<1>3. PanelTypeOK'
  BY <1>1, <1>2, ConnectIs DEF SignIn, PanelTypeOK, FetchRow
<1>4. ChangeInv'
  BY <1>1 DEF SignIn, ChangeInv
<1>5. LatestInv'
  BY <1>1, <1>2 DEF SignIn, LatestInv
<1>6. SocketInv'
  BY <1>1, ConnectIs DEF SignIn, SocketInv, PanelTypeOK
<1>7. ReasonInv'
  BY <1>1, <1>2 DEF SignIn, ReasonInv, Owes, WillBeRead, Announced
<1> QED
  BY <1>3, <1>4, <1>5, <1>6, <1>7 DEF PanelInv

LEMMA SignOutKeeps ==
  ASSUME PanelInv, SignOut
  PROVE  PanelInv'
<1>1. PanelTypeOK /\ ChangeInv /\ LatestInv /\ SocketInv /\ ReasonInv
  BY DEF PanelInv
<1>2. PanelTypeOK'
  BY <1>1, CleanupIs DEF SignOut, PanelTypeOK
<1>3. ChangeInv'
  BY <1>1 DEF SignOut, ChangeInv
<1>4. LatestInv'
  BY Forgiven DEF SignOut
<1>5. SocketInv'
  BY <1>1 DEF SignOut, SocketInv
<1>6. ReasonInv'
  BY Forgiven DEF SignOut
<1> QED
  BY <1>2, <1>3, <1>4, <1>5, <1>6 DEF PanelInv

LEMMA OpenTasksKeeps ==
  ASSUME PanelInv, OpenTasks
  PROVE  PanelInv'
<1>1. PanelTypeOK /\ ChangeInv /\ LatestInv /\ SocketInv /\ ReasonInv
  BY DEF PanelInv
<1>2. /\ fetch' \in FetchRow /\ mounted' \in BOOLEAN
      /\ view.page = "tasks" => ReasonInv'
      /\ fetch' = fetch \/ fetch'.step = "asked"
  BY <1>1, MountReads, PanelNumbers DEF OpenTasks, PanelTypeOK
<1>3. PanelTypeOK'
  BY <1>1, <1>2, ConnectIs DEF OpenTasks, PanelTypeOK, FetchRow
<1>4. ChangeInv'
  BY <1>1 DEF OpenTasks, ChangeInv
<1>5. LatestInv'
  BY <1>1, <1>2 DEF OpenTasks, LatestInv
<1>6. SocketInv'
  BY <1>1, ConnectIs DEF OpenTasks, SocketInv
<1>7. ReasonInv'
  BY <1>1, <1>2 DEF OpenTasks, ReasonInv, Owes, WillBeRead, Announced
<1> QED
  BY <1>3, <1>4, <1>5, <1>6, <1>7 DEF PanelInv

LEMMA LeaveTasksKeeps ==
  ASSUME PanelInv, LeaveTasks
  PROVE  PanelInv'
<1>1. PanelTypeOK /\ ChangeInv /\ LatestInv /\ SocketInv /\ ReasonInv
  BY DEF PanelInv
<1>2. PanelTypeOK'
  BY <1>1, CleanupIs DEF LeaveTasks, PanelTypeOK
<1>3. ChangeInv'
  BY <1>1 DEF LeaveTasks, ChangeInv
<1>4. LatestInv'
  BY <1>1 DEF LeaveTasks, LatestInv
<1>5. SocketInv'
  BY <1>1 DEF LeaveTasks, Cleanup, SocketInv
<1>6. ReasonInv'
  BY <1>1 DEF LeaveTasks, ReasonInv, Owes, WillBeRead, Announced
<1> QED
  BY <1>2, <1>3, <1>4, <1>5, <1>6 DEF PanelInv

LEMMA OpenPageKeeps ==
  ASSUME PanelInv, OpenPage
  PROVE  PanelInv'
<1>1. PanelTypeOK /\ ChangeInv /\ LatestInv /\ SocketInv /\ ReasonInv
  BY DEF PanelInv
<1>2. PanelTypeOK'
  BY <1>1, MountReads DEF OpenPage, PanelTypeOK, FetchRow
<1>3. ChangeInv'
  BY <1>1 DEF OpenPage, ChangeInv
<1>4. LatestInv'
  BY <1>1, MountReads DEF OpenPage, LatestInv
<1>5. SocketInv'
  BY <1>1 DEF OpenPage, SocketInv
<1>6. ReasonInv'
  BY MountReads DEF OpenPage
<1> QED
  BY <1>2, <1>3, <1>4, <1>5, <1>6 DEF PanelInv

LEMMA LeavePageKeeps ==
  ASSUME PanelInv, LeavePage
  PROVE  PanelInv'
<1>1. PanelTypeOK /\ ChangeInv /\ LatestInv /\ SocketInv /\ ReasonInv
  BY DEF PanelInv
<1>2. PanelTypeOK'
  BY <1>1 DEF LeavePage, PanelTypeOK
<1>3. ChangeInv'
  BY <1>1 DEF LeavePage, ChangeInv
<1>4. LatestInv'
  BY <1>1 DEF LeavePage, LatestInv
<1>5. SocketInv'
  BY <1>1 DEF LeavePage, SocketInv
<1>6. ReasonInv'
  BY <1>1 DEF LeavePage, ReasonInv, Owes, WillBeRead, Announced
<1> QED
  BY <1>2, <1>3, <1>4, <1>5, <1>6 DEF PanelInv

LEMMA LineBreaksKeeps ==
  ASSUME PanelInv, LineBreaks
  PROVE  PanelInv'
<1>1. PanelTypeOK /\ ChangeInv /\ LatestInv /\ SocketInv /\ ReasonInv
  BY DEF PanelInv
<1>2. PanelTypeOK'
  BY <1>1, PanelNumbers, ZenonT(60) DEF LineBreaks, PanelTypeOK
<1>3. ChangeInv'
  BY <1>1 DEF LineBreaks, ChangeInv
<1>4. LatestInv'
  BY Forgiven DEF LineBreaks
<1>5. SocketInv'
  BY <1>1 DEF LineBreaks, SocketInv
<1>6. ReasonInv'
  BY Forgiven DEF LineBreaks
<1> QED
  BY <1>2, <1>3, <1>4, <1>5, <1>6 DEF PanelInv

\* A change is announced to a socket that is connected, as long as the line holds.
LEMMA ServerChangesKeeps ==
  ASSUME PanelInv, ServerChanges
  PROVE  PanelInv'
<1>1. PanelTypeOK /\ ChangeInv /\ LatestInv /\ SocketInv /\ ReasonInv
  BY DEF PanelInv
<1>2. /\ latest \in Nat /\ latest < MaxVersion /\ latest' = latest + 1 /\ MaxVersion \in Nat
      /\ due \in Int /\ shown \in Int /\ fetch.read \in Nat /\ \A v \in events : v \in Nat
  BY <1>1, PanelNumbers DEF ServerChanges
<1>3. latest' \in Versions /\ latest <= latest'
  BY <1>2 DEF Versions
<1>4. /\ events' \in {events, events \cup {latest'}}
      /\ due' \in {due, latest'}
      /\ UNCHANGED <<view, shown, invalid, mounted, fetch, change, connected, socket, tasksPage,
                     signedIn, broken, panelFaults>>
  BY DEF ServerChanges
<1>5. PanelTypeOK'
  <2>1. events' \subseteq Versions /\ due' \in Versions \cup {-1}
    BY <1>1, <1>3, <1>4 DEF PanelTypeOK
  <2> QED
    BY <1>1, <1>3, <1>4, <2>1 DEF PanelTypeOK
<1>6. ChangeInv' /\ SocketInv'
  BY <1>1, <1>4 DEF ChangeInv, SocketInv
<1>7. LatestInv'
  <2>1. \A i \in Int : i <= latest => i <= latest'
    BY <1>2
  <2>2. latest' <= latest' /\ shown <= latest' /\ due <= latest'
    BY <1>1, <1>2, <2>1 DEF LatestInv
  <2>3. (\A v \in events : v <= latest') /\ (fetch.step = "read" => fetch.read <= latest')
    BY <1>1, <1>2, <2>1 DEF LatestInv
  <2>4. ASSUME change # NoChange
        PROVE  change.v <= latest'
    <3>1. change.v \in Versions
      BY <1>1, <2>4 DEF ChangeInv
    <3>2. change.v \in Int
      BY <3>1, PanelAssumption DEF Versions
    <3> QED
      BY <1>1, <2>1, <2>4, <3>2 DEF LatestInv
  <2> QED
    BY <1>1, <1>4, <2>2, <2>3, <2>4 DEF LatestInv
<1>8. ReasonInv'
  <2> SUFFICES ASSUME Owes'
               PROVE  WillBeRead'
    BY DEF ReasonInv
  <2>1. CASE due' = due
    <3>1. WillBeRead
      BY <1>1, <1>4, <2>1 DEF ReasonInv, Owes
    <3> QED
      BY <1>4, <2>1, <3>1 DEF WillBeRead, Announced
  <2>2. CASE due' # due
    <3>1. ~view.polls /\ signedIn /\ ~broken /\ view.about \cap Pushed # {}
      BY <1>4, <2>2 DEF ServerChanges, Owes
    <3>2. connected # {}
      BY <1>1, <3>1 DEF SocketInv
    <3>3. latest' \in events' /\ due' = latest'
      BY <1>4, <2>2, <3>1, <3>2 DEF ServerChanges
    <3>4. latest' >= due'
      BY <1>2, <3>3
    <3> QED
      BY <1>4, <3>1, <3>3, <3>4 DEF WillBeRead, Announced
  <2> QED
    BY <2>1, <2>2
<1> QED
  BY <1>5, <1>6, <1>7, <1>8 DEF PanelInv

\* An event that is taken has the page read, or is not needed.
LEMMA EventArrivesKeeps ==
  ASSUME PanelInv, NEW v \in Versions, EventArrives(v)
  PROVE  PanelInv'
<1> DEFINE ks == UNION {EventKeys(a) : a \in view.about}
<1>1. PanelTypeOK /\ ChangeInv /\ LatestInv /\ SocketInv /\ ReasonInv
  BY DEF PanelInv
<1>2. /\ events' = events \ {v}
      /\ UNCHANGED <<view, latest, shown, mounted, change, connected, socket, tasksPage, signedIn,
                     broken, panelFaults>>
  BY DEF EventArrives
<1>3. CASE connected = {}
  <2>1. UNCHANGED <<invalid, fetch, due>>
    BY <1>3 DEF EventArrives
  <2>2. ~(signedIn /\ ~broken)
    BY <1>1, <1>3 DEF SocketInv
  <2>3. events' \subseteq events
    BY <1>2
  <2>4. PanelTypeOK'
    BY <1>1, <1>2, <2>1, <2>3, ZenonT(60) DEF PanelTypeOK
  <2>5. LatestInv'
    BY <1>1, <1>2, <2>1, <2>3 DEF LatestInv
  <2>6. ChangeInv' /\ SocketInv'
    BY <1>1, <1>2 DEF ChangeInv, SocketInv
  <2>7. ReasonInv'
    BY <1>1, <1>2, <2>1, <2>2 DEF ReasonInv, Owes, WillBeRead, Announced
  <2> QED
    BY <2>4, <2>5, <2>6, <2>7 DEF PanelInv
<1>4. CASE connected # {}
  <2>1. Invalidate(ks, due) /\ due \in Versions \cup {-1}
    BY <1>1, <1>4 DEF EventArrives, PanelTypeOK
  <2> HIDE DEF ks
  <2>2. /\ fetch' \in FetchRow /\ invalid' \in BOOLEAN /\ due' \in {due, -1}
        /\ fetch' = fetch \/ fetch'.step = "asked"
        /\ Matches(ks) => ReasonInv'
        /\ ~Matches(ks) => due' = due /\ UNCHANGED <<invalid, fetch>>
    BY <1>1, <1>2, <2>1, InvalidateIs DEF FetchRow
  <2>3. PanelTypeOK' /\ ChangeInv' /\ SocketInv'
    BY <1>1, <1>2, <2>1, <2>2 DEF PanelTypeOK, ChangeInv, SocketInv, FetchRow
  <2>4. LatestInv'
    <3>1. latest \in Nat /\ -1 <= latest
      BY <1>1, PanelNumbers
    <3> QED
      BY <1>1, <1>2, <2>2, <3>1 DEF LatestInv
  <2>5. ReasonInv'
    <3>1. CASE Matches(ks)
      BY <2>2, <3>1
    <3>2. CASE ~Matches(ks)
      <4>1. view.polls \/ ~Announced
        BY <1>1, <3>2, AnnouncedMatches DEF ks
      <4> QED
        BY <1>1, <1>2, <2>2, <3>2, <4>1 DEF ReasonInv, Owes, WillBeRead, Announced
    <3> QED
      BY <3>1, <3>2
  <2> QED
    BY <2>3, <2>4, <2>5 DEF PanelInv
<1> QED
  BY <1>3, <1>4

\* A mutation owes the page nothing before it is answered.
LEMMA MutateKeeps ==
  ASSUME PanelInv, NEW m \in Mutations, Mutate(m)
  PROVE  PanelInv'
<1>1. PanelTypeOK /\ ChangeInv /\ LatestInv /\ SocketInv /\ ReasonInv
  BY DEF PanelInv
<1>2. /\ change' = [step |-> "sent", m |-> m, v |-> 0] /\ m.changes \cap view.about # {}
      /\ UNCHANGED <<view, latest, shown, invalid, mounted, fetch, events, connected, socket,
                     tasksPage, signedIn, broken, due, panelFaults>>
  BY DEF Mutate
<1>3. 0 \in Versions
  BY PanelAssumption DEF Versions
<1>4. PanelTypeOK' /\ ChangeInv'
  BY <1>1, <1>2, <1>3 DEF PanelTypeOK, ChangeInv
<1>5. SocketInv' /\ ReasonInv'
  BY <1>1, <1>2 DEF SocketInv, ReasonInv, Owes, WillBeRead, Announced
<1>6. LatestInv'
  <2>1. change'.v <= latest
    BY <1>1, <1>2, PanelNumbers
  <2> QED
    BY <1>1, <1>2, <2>1 DEF LatestInv
<1> QED
  BY <1>4, <1>5, <1>6 DEF PanelInv

LEMMA CarryOutKeeps ==
  ASSUME PanelInv, CarryOut
  PROVE  PanelInv'
<1>1. PanelTypeOK /\ ChangeInv /\ LatestInv /\ SocketInv /\ ReasonInv
  BY DEF PanelInv
<1>2. /\ latest \in Nat /\ latest < MaxVersion /\ latest' = latest + 1 /\ MaxVersion \in Nat
      /\ due \in Int /\ shown \in Int /\ fetch.read \in Nat /\ \A v \in events : v \in Nat
  BY <1>1, PanelNumbers DEF CarryOut
<1>3. latest' \in Versions /\ latest <= latest'
  BY <1>2 DEF Versions
<1>4. /\ due' = IF view.polls THEN latest' ELSE due
      /\ UNCHANGED <<view, shown, invalid, mounted, fetch, events, connected, socket, tasksPage,
                     signedIn, broken, panelFaults>>
  BY DEF CarryOut
<1>5. change # NoChange /\ change' = [change EXCEPT !.step = "carried out", !.v = latest']
  BY DEF CarryOut, NoChange
<1>6. /\ change' \in [step : {"sent", "carried out"}, m : Mutations, v : Versions]
      /\ change'.m = change.m /\ change'.v = latest' /\ change'.step = "carried out"
  BY <1>1, <1>3, <1>5 DEF ChangeInv
<1>7. PanelTypeOK'
  BY <1>1, <1>3, <1>4, <1>6 DEF PanelTypeOK
<1>8. ChangeInv' /\ SocketInv'
  BY <1>1, <1>4, <1>5, <1>6 DEF ChangeInv, SocketInv
<1>9. LatestInv'
  <2>1. \A i \in Int : i <= latest => i <= latest'
    BY <1>2
  <2>2. latest' <= latest' /\ shown <= latest' /\ due <= latest'
    BY <1>1, <1>2, <2>1 DEF LatestInv
  <2>3. (\A v \in events : v <= latest') /\ (fetch.step = "read" => fetch.read <= latest')
    BY <1>1, <1>2, <2>1 DEF LatestInv
  <2> QED
    BY <1>1, <1>4, <1>6, <2>2, <2>3 DEF LatestInv
<1>10. ReasonInv'
  BY <1>1, <1>4 DEF ReasonInv, Owes, WillBeRead, Announced
<1> QED
  BY <1>7, <1>8, <1>9, <1>10 DEF PanelInv

\* A mutation that is answered, or fails on a page that does not mind (onSettled).
LEMMA MutationEndKeeps ==
  ASSUME PanelInv, change # NoChange, change' = NoChange,
         Invalidate(change.m.drops, IF Leaves(change.m) THEN due ELSE Max({due, change.v})),
         UNCHANGED <<view, latest, shown, mounted, events, connected, socket, tasksPage, signedIn,
                     broken>>,
         panelFaults' \in 0..PanelFaults
  PROVE  PanelInv'
<1> DEFINE m == change.m
           owed == IF Leaves(m) THEN due ELSE Max({due, change.v})
<1>1. PanelTypeOK /\ ChangeInv /\ LatestInv /\ SocketInv /\ ReasonInv
  BY DEF PanelInv
<1>2. change.v \in Versions /\ m \in Mutations /\ due \in Versions \cup {-1}
  BY <1>1 DEF ChangeInv, PanelTypeOK
<1>3. change.v \in Nat /\ due \in Int /\ latest \in Nat /\ -1 <= latest
  BY <1>1, <1>2, PanelNumbers, PanelAssumption DEF Versions
<1>4. Max({due, change.v}) = IF due <= change.v THEN change.v ELSE due
  BY <1>3, LaterIs
<1>5. change.v <= latest
  BY <1>1 DEF LatestInv
<1>6. owed \in Versions \cup {-1} /\ owed <= latest
  BY <1>1, <1>2, <1>4, <1>5 DEF LatestInv
<1>7. Invalidate(m.drops, owed)
  OBVIOUS
<1> HIDE DEF owed
<1>8. /\ fetch' \in FetchRow /\ invalid' \in BOOLEAN /\ due' \in {owed, -1}
      /\ fetch' = fetch \/ fetch'.step = "asked"
      /\ Matches(m.drops) => ReasonInv'
      /\ ~Matches(m.drops) => due' = owed /\ UNCHANGED <<invalid, fetch>>
  BY <1>1, <1>6, <1>7, InvalidateIs DEF FetchRow
<1>9. PanelTypeOK'
  BY <1>1, <1>6, <1>8 DEF PanelTypeOK, FetchRow, NoChange
<1>10. ChangeInv' /\ SocketInv'
  BY <1>1 DEF ChangeInv, SocketInv
<1>11. LatestInv'
  BY <1>1, <1>3, <1>6, <1>8 DEF LatestInv, NoChange
<1>12. ReasonInv'
  <2>1. CASE Matches(m.drops)
    BY <1>8, <2>1
  <2>2. CASE ~Matches(m.drops) /\ view.polls
    BY <2>2 DEF ReasonInv, Owes
  <2>3. CASE ~Matches(m.drops) /\ ~view.polls
    <3>1. Leaves(m)
      BY <1>1, <1>2, <2>3, MutationMatches
    <3>2. due' = due /\ UNCHANGED <<invalid, fetch>>
      BY <1>8, <2>3, <3>1 DEF owed
    <3> QED
      BY <1>1, <3>2 DEF ReasonInv, Owes, WillBeRead, Announced
  <2> QED
    BY <2>1, <2>2, <2>3
<1> QED
  BY <1>9, <1>10, <1>11, <1>12 DEF PanelInv

LEMMA MutationAnsweredKeeps ==
  ASSUME PanelInv, MutationAnswered
  PROVE  PanelInv'
<1>1. panelFaults \in 0..PanelFaults
  BY DEF PanelInv, PanelTypeOK
<1>2. change.step = "carried out" /\ panelFaults' = panelFaults
  BY DEF MutationAnswered
<1>3. NoChange.step = "none"
  BY DEF NoChange
<1>4. change # NoChange
  BY <1>2, <1>3
<1> QED
  BY <1>1, <1>2, <1>4, MutationEndKeeps DEF MutationAnswered

LEMMA MutationFailsKeeps ==
  ASSUME PanelInv, MutationFails
  PROVE  PanelInv'
<1>1. PanelTypeOK /\ ChangeInv /\ LatestInv /\ SocketInv /\ ReasonInv
  BY DEF PanelInv
<1>2. panelFaults' \in 0..PanelFaults
  BY <1>1, PanelNumbers DEF MutationFails
<1>3. CASE change.m.always
  BY <1>2, <1>3, MutationEndKeeps DEF MutationFails
<1>4. CASE ~change.m.always
  <2>1. /\ change' = NoChange
        /\ UNCHANGED <<view, latest, shown, invalid, mounted, fetch, events, connected, socket,
                       tasksPage, signedIn, broken, due>>
    BY <1>4 DEF MutationFails
  <2>2. PanelTypeOK'
    BY <1>1, <1>2, <2>1 DEF PanelTypeOK, NoChange
  <2>3. ChangeInv' /\ LatestInv' /\ SocketInv' /\ ReasonInv'
    BY <1>1, <2>1 DEF ChangeInv, LatestInv, SocketInv, ReasonInv, Owes, WillBeRead, Announced,
                      NoChange
  <2> QED
    BY <2>2, <2>3 DEF PanelInv
<1> QED
  BY <1>3, <1>4

\* Every step.
LEMMA PanelStep == PanelInv /\ [PanelNext]_panelVars => PanelInv'
<1>1. ASSUME PanelInv, UNCHANGED panelVars
      PROVE  PanelInv'
  <2>1. PanelTypeOK'
    BY <1>1, ZenonT(60) DEF panelVars, PanelInv, PanelTypeOK
  <2>2. ChangeInv' /\ LatestInv' /\ SocketInv'
    BY <1>1 DEF panelVars, PanelInv, ChangeInv, LatestInv, SocketInv
  <2>3. ReasonInv'
    BY <1>1 DEF panelVars, PanelInv, ReasonInv, Owes, WillBeRead, Announced
  <2> QED
    BY <2>1, <2>2, <2>3 DEF PanelInv
<1> QED
  BY <1>1, GoesStaleKeeps, RefetchKeeps, ReadServerKeeps, AnswerArrivesKeeps, FetchFailsKeeps,
     SignInKeeps, SignOutKeeps, OpenTasksKeeps, LeaveTasksKeeps, OpenPageKeeps, LeavePageKeeps,
     LineBreaksKeeps, ServerChangesKeeps, EventArrivesKeeps, MutateKeeps, CarryOutKeeps,
     MutationAnsweredKeeps, MutationFailsKeeps DEF PanelNext

LEMMA PanelStart == PanelInit => PanelInv
<1> SUFFICES ASSUME PanelInit
             PROVE  PanelInv
  OBVIOUS
<1>1. 0 \in Versions /\ IdleFetch \in FetchRow
  BY PanelAssumption DEF Versions, IdleFetch, FetchRow
<1>2. PanelTypeOK
  <2>1. panelFaults \in 0..PanelFaults /\ change.step = "none"
    BY PanelAssumption DEF PanelInit, NoChange
  <2> QED
    BY <1>1, <2>1 DEF PanelInit, PanelTypeOK, FetchRow
<1>3. ChangeInv /\ LatestInv /\ SocketInv /\ ReasonInv
  BY DEF PanelInit, ChangeInv, LatestInv, SocketInv, ReasonInv, Owes, NoChange, IdleFetch
<1> QED
  BY <1>2, <1>3 DEF PanelInv

LEMMA PanelInductive == PanelSpec => []PanelInv
  BY PanelStart, PanelStep, PTL DEF PanelSpec

\* The queries of React Query, the pages and the sockets of the panel are as typed.
THEOREM PanelTypeCorrect == PanelSpec => []PanelTypeOK
<1>1. PanelInv => PanelTypeOK
  BY DEF PanelInv
<1> QED
  BY <1>1, PanelInductive, PTL

\* For any number of sockets, changes and failing requests: a page that is open and
\* behind is read again, or hears that it has to be.
THEOREM OpenPageIsRead == PanelSpec => []BehindIsRead
<1>1. PanelInv => BehindIsRead
  BY AnnouncedMatches DEF PanelInv, ReasonInv, Owes, WillBeRead, SocketInv, BehindIsRead
<1> QED
  BY <1>1, PanelInductive, PTL
=============================================================================
