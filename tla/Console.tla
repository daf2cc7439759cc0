------------------------------ MODULE Console ------------------------------
(***************************************************************************)
(* The VNC console of a VM.  The panel asks the agent for a token          *)
(* (Server.handleConsoleToken), notes in Redis which agent gave it         *)
(* (VmsService.consoleToken), and hands it to the browser.  The browser    *)
(* opens a WebSocket with it: the panel (main.ts, on 'upgrade') looks the  *)
(* token up in Redis and connects to the agent, which takes the token from *)
(* its map under a mutex, finds the VNC port and dials it                  *)
(* (Server.handleConsoleWs).  Time is counted in steps of thirty seconds.  *)
(***************************************************************************)
EXTENDS Integers, FiniteSets

CONSTANTS Tokens,      \* tokens the agent may mint, each at most once
          Guests,      \* names of VMs
          Upgrades,    \* WebSocket requests that may be under way at once
          TokenLife    \* 90 s, in steps of 30 s

VARIABLES minted,      \* the agent's consoleTokens
          meta,        \* Redis console:<token>
          asked,       \* what VmsService.consoleToken has done for a token
          upgrade,     \* each WebSocket request
          vnc,         \* guests whose VNC server listens
          opened       \* history: tokens and the lifetimes they were taken with

consoleVars == <<minted, meta, asked, upgrade, vnc, opened>>

MetaLife == TokenLife + 1                 \* 'EX', expiresIn + 30
NoEntry == [vm |-> "none", left |-> 0]
NoUpgrade == [step |-> "idle", token |-> "none", vm |-> "none"]

ConsoleTypeOK ==
  /\ minted \in [Tokens -> [vm : Guests \cup {"none"}, left : 0..TokenLife]]
  /\ meta \in [Tokens -> 0..MetaLife]
  /\ asked \in [Tokens -> {"no", "minted", "given", "lost"}]
  /\ upgrade \in [Upgrades -> [step : {"idle", "connect", "taken", "dial", "open"},
                               token : Tokens \cup {"none"}, vm : Guests \cup {"none"}]]
  /\ vnc \subseteq Guests
  /\ opened \in [Tokens -> 0..2]

ConsoleInit ==
  /\ minted = [t \in Tokens |-> NoEntry]
  /\ meta = [t \in Tokens |-> 0]
  /\ asked = [t \in Tokens |-> "no"]
  /\ upgrade = [u \in Upgrades |-> NoUpgrade]
  /\ vnc = Guests
  /\ opened = [t \in Tokens |-> 0]

MintToken(t, n) ==
  /\ asked[t] = "no"
  /\ asked' = [asked EXCEPT ![t] = "minted"]
  /\ minted' = [minted EXCEPT ![t] = [vm |-> n, left |-> TokenLife]]
  /\ UNCHANGED <<meta, upgrade, vnc, opened>>

\* redis.set, or an error of Redis, after which nobody knows the token.
NoteToken(t) ==
  /\ asked[t] = "minted"
  /\ \/ meta' = [meta EXCEPT ![t] = MetaLife] /\ asked' = [asked EXCEPT ![t] = "given"]
     \/ asked' = [asked EXCEPT ![t] = "lost"] /\ UNCHANGED meta
  /\ UNCHANGED <<minted, upgrade, vnc, opened>>

\* resolveConsoleToken; a token Redis does not know is answered with 403.
Resolve(u, t) ==
  /\ upgrade[u].step = "idle" /\ asked[t] = "given" /\ meta[t] > 0
  /\ upgrade' = [upgrade EXCEPT ![u] = [step |-> "connect", token |-> t, vm |-> "none"]]
  /\ UNCHANGED <<minted, meta, asked, vnc, opened>>

Ends(u) == upgrade' = [upgrade EXCEPT ![u] = NoUpgrade]

Valid(t) == minted[t] # NoEntry /\ minted[t].left > 0
\* (Defect for a mutant run: the entry is left to the sweep.)
MutantWithout(t) == minted
Without(t) == [minted EXCEPT ![t] = NoEntry]

\* Under consoleMu: the entry is read, its age is checked and it is deleted.
TakeToken(u) ==
  LET t == upgrade[u].token IN
  /\ upgrade[u].step = "connect"
  /\ IF Valid(t)
       THEN /\ minted' = Without(t)
            /\ upgrade' = [upgrade EXCEPT ![u].step = "taken", ![u].vm = minted[t].vm]
            /\ opened' = [opened EXCEPT ![t] = @ + 1]
       ELSE Ends(u) /\ UNCHANGED <<minted, opened>>
  /\ UNCHANGED <<meta, asked, vnc>>

\* The tunnel to the agent fails before the agent sees the request.
ConnectFails(u) ==
  /\ upgrade[u].step = "connect" /\ Ends(u)
  /\ UNCHANGED <<minted, meta, asked, vnc, opened>>

\* VncPort asks libvirt; 409 when the domain is not active.  The token is spent.
FindPort(u) ==
  /\ upgrade[u].step = "taken"
  /\ IF upgrade[u].vm \in vnc THEN upgrade' = [upgrade EXCEPT ![u].step = "dial"]
                              ELSE Ends(u)
  /\ UNCHANGED <<minted, meta, asked, vnc, opened>>

\* 101 has been sent; the dial may find the guest gone.
Dial(u) ==
  /\ upgrade[u].step = "dial"
  /\ IF upgrade[u].vm \in vnc THEN upgrade' = [upgrade EXCEPT ![u].step = "open"]
                              ELSE Ends(u)
  /\ UNCHANGED <<minted, meta, asked, vnc, opened>>

Close(u) ==
  /\ upgrade[u].step = "open" /\ Ends(u)
  /\ UNCHANGED <<minted, meta, asked, vnc, opened>>

\* A guest that stops closes its VNC server and with it every open console.
GuestStops(n) ==
  /\ n \in vnc
  /\ vnc' = vnc \ {n}
  /\ upgrade' = [u \in Upgrades |-> IF upgrade[u].step = "open" /\ upgrade[u].vm = n
                                      THEN NoUpgrade ELSE upgrade[u]]
  /\ UNCHANGED <<minted, meta, asked, opened>>
GuestStarts(n) == n \notin vnc /\ vnc' = vnc \cup {n}
                  /\ UNCHANGED <<minted, meta, asked, upgrade, opened>>

\* sweepConsoleTokens, by a ticker of its own, so an entry may outlive its time.
Sweep ==
  /\ \E t \in Tokens : minted[t] # NoEntry /\ minted[t].left = 0
  /\ minted' = [t \in Tokens |-> IF minted[t].left = 0 THEN NoEntry ELSE minted[t]]
  /\ UNCHANGED <<meta, asked, upgrade, vnc, opened>>

ThirtySeconds ==
  /\ \E t \in Tokens : minted[t].left + meta[t] > 0
  /\ minted' = [t \in Tokens |-> [minted[t] EXCEPT !.left = IF @ > 0 THEN @ - 1 ELSE 0]]
  /\ meta' = [t \in Tokens |-> IF meta[t] > 0 THEN meta[t] - 1 ELSE 0]
  /\ UNCHANGED <<asked, upgrade, vnc, opened>>

\* The map is in the agent's memory; its connections end with it.
AgentStops ==
  /\ minted' = [t \in Tokens |-> NoEntry]
  /\ upgrade' = [u \in Upgrades |-> IF upgrade[u].step = "connect" THEN upgrade[u]
                                                                   ELSE NoUpgrade]
  /\ UNCHANGED <<meta, asked, vnc, opened>>

ConsoleNext ==
  \/ \E t \in Tokens : \/ \E n \in Guests : MintToken(t, n)
                       \/ NoteToken(t)
                       \/ \E u \in Upgrades : Resolve(u, t)
  \/ \E u \in Upgrades : \/ TakeToken(u) \/ ConnectFails(u) \/ FindPort(u)
                         \/ Dial(u) \/ Close(u)
  \/ \E n \in Guests : GuestStops(n) \/ GuestStarts(n)
  \/ Sweep \/ ThirtySeconds \/ AgentStops

ConsoleSpec == ConsoleInit /\ [][ConsoleNext]_consoleVars

-----------------------------------------------------------------------------
(* Frames (RFC 6455): the length field the agent writes and the one it     *)
(* reads.  A field is its 7-bit code and the bytes that extend it, as one   *)
(* number of the given width.                                               *)

\* wsWriteFrame; of the eight bytes, four are zero and four hold the low 32 bits.
LengthField(n) == IF n <= 125 THEN [code |-> n, bytes |-> 0, value |-> 0]
                  ELSE IF n <= 65535 THEN [code |-> 126, bytes |-> 2, value |-> n % 65536]
                  ELSE [code |-> 127, bytes |-> 8, value |-> n % (65536 * 65536)]

\* wsReadFrame: the bytes that follow the header, and the length they give.
Extension(code) == CASE code = 126 -> 2 [] code = 127 -> 8 [] OTHER -> 0
ReadLength(f) == IF f.code \in {126, 127} THEN f.value ELSE f.code

-----------------------------------------------------------------------------
(* Properties.                                                              *)

\* A token opens one console at most, however many requests bring it at once and
\* however they are interleaved with the sweep and a restart of the agent.
TokenTakenOnce == \A t \in Tokens : opened[t] <= 1
=============================================================================
