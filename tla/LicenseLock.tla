---------------------------- MODULE LicenseLock ----------------------------
(***************************************************************************)
(* LockedGuard: every request of the panel is let through or answered 503  *)
(* on a cached install phase.  The cache is read again when it is older    *)
(* than the TTL, by one request at a time; requests that meet the read     *)
(* under way decide on the old value, and a failing read keeps it.         *)
(***************************************************************************)
EXTENDS Naturals

CONSTANTS CacheTTL,  \* ticks the cached phase is used for
          ReadTicks  \* bound: ticks a read of the phase takes

ASSUME LockAssumption == CacheTTL \in Nat /\ ReadTicks \in Nat

VARIABLES phase,        \* SystemState.phase; activating is treated as locked
          cachedPhase,
          cacheAge,     \* now - cacheRefreshedAt, up to CacheTTL
          refreshInFlight,
          reader,       \* the request that refreshes, and what it has read
          readTime,     \* ticks the read under way has taken
          unlike,       \* history: ticks the phase has differed from the cached one
          wrong         \* history: a request was decided on a phase the panel had
                        \* left too long ago, with no read under way or just failed

lockVars == <<phase, cachedPhase, cacheAge, refreshInFlight, reader, readTime, unlike, wrong>>

PhaseValue == {"locked", "active"}
NoReader == [step |-> "none", value |-> "locked"]
TooLong == CacheTTL + ReadTicks

LockTypeOK ==
  /\ phase \in PhaseValue /\ cachedPhase \in PhaseValue
  /\ cacheAge \in 0..CacheTTL /\ refreshInFlight \in BOOLEAN
  /\ reader \in [step : {"none", "read", "assign"}, value : PhaseValue]
  /\ readTime \in 0..ReadTicks /\ unlike \in 0..TooLong + 1 /\ wrong \in BOOLEAN

LockInit ==
  /\ phase \in PhaseValue
  /\ cachedPhase = "locked" /\ cacheAge = CacheTTL
  /\ refreshInFlight = FALSE /\ reader = NoReader /\ readTime = 0
  /\ unlike = 0 /\ wrong = FALSE

-----------------------------------------------------------------------------
WithinTTL == cacheAge < CacheTTL

Judged(value, lag) == wrong' = (wrong \/ (value # phase /\ lag > TooLong))

\* The cache is recent: the request is decided at once.
DecideOnCache ==
  /\ WithinTTL
  /\ Judged(cachedPhase, unlike)
  /\ UNCHANGED <<phase, cachedPhase, cacheAge, refreshInFlight, reader, readTime, unlike>>

\* It is not, and another request refreshes it: this one uses the old value, which
\* is excused while a read is going on.
DecideMeanwhile ==
  /\ ~WithinTTL /\ refreshInFlight
  /\ wrong' = (wrong \/ reader = NoReader)
  /\ UNCHANGED <<phase, cachedPhase, cacheAge, refreshInFlight, reader, readTime, unlike>>

BeginRefresh ==
  /\ ~WithinTTL /\ ~refreshInFlight
  /\ refreshInFlight' = TRUE
  /\ reader' = [step |-> "read", value |-> "locked"] /\ readTime' = 0
  /\ UNCHANGED <<phase, cachedPhase, cacheAge, unlike, wrong>>

ReadPhase ==
  /\ reader.step = "read"
  /\ reader' = [step |-> "assign", value |-> phase]
  /\ UNCHANGED <<phase, cachedPhase, cacheAge, refreshInFlight, readTime, unlike, wrong>>

\* The answer arrives; cacheRefreshedAt is the time of the answer, not of the read.
AssignCache ==
  /\ reader.step = "assign"
  /\ cachedPhase' = reader.value /\ cacheAge' = 0
  /\ refreshInFlight' = FALSE /\ reader' = NoReader /\ readTime' = 0
  /\ unlike' = IF reader.value = phase THEN 0 ELSE readTime
  /\ Judged(reader.value, readTime)
  /\ UNCHANGED phase

\* (Defect for a mutant run: the flag is reset after a read that succeeds only.)
MutantFinally == refreshInFlight

Finally == FALSE

\* The database rejects the read: the old value stays, the request is decided on it,
\* and the next one tries again.
ReadFails ==
  /\ reader.step \in {"read", "assign"}
  /\ refreshInFlight' = Finally /\ reader' = NoReader /\ readTime' = 0
  /\ UNCHANGED <<phase, cachedPhase, cacheAge, unlike, wrong>>

\* activate, refresh, a failed activation: the license client writes the phase.
WritePhase ==
  /\ phase' \in PhaseValue \ {phase}
  /\ unlike' = 0
  /\ UNCHANGED <<cachedPhase, cacheAge, refreshInFlight, reader, readTime, wrong>>

LockTick ==
  /\ readTime < ReadTicks
  /\ cacheAge' = IF WithinTTL THEN cacheAge + 1 ELSE cacheAge
  /\ readTime' = IF reader = NoReader THEN 0 ELSE readTime + 1
  /\ unlike' = IF cachedPhase # phase /\ unlike <= TooLong THEN unlike + 1 ELSE unlike
  /\ UNCHANGED <<phase, cachedPhase, refreshInFlight, reader, wrong>>

LockRestart ==
  /\ cachedPhase' = "locked" /\ cacheAge' = CacheTTL
  /\ refreshInFlight' = FALSE /\ reader' = NoReader /\ readTime' = 0 /\ unlike' = 0
  /\ UNCHANGED <<phase, wrong>>

LockNext ==
  \/ DecideOnCache \/ DecideMeanwhile \/ BeginRefresh \/ ReadPhase \/ AssignCache
  \/ ReadFails \/ WritePhase \/ LockTick \/ LockRestart

LockSpec == LockInit /\ [][LockNext]_lockVars

-----------------------------------------------------------------------------
(* Properties.                                                              *)

\* When the panel is locked or unlocked, every request that is decided later than the
\* TTL plus the time a read takes is decided on the new phase, unless it came while
\* a read was really under way or its own read failed.
LockTakesEffect == ~wrong
=============================================================================
