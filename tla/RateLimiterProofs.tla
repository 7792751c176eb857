------------------------- MODULE RateLimiterProofs -------------------------
(***************************************************************************)
(* Theorems about RateLimiter, for any number of threads and any constants *)
(* for which no backoff is shorter than the spacing.                       *)
(*                                                                         *)
(* The argument: whoever is between lock and unlock owns the mutex         *)
(* (HolderOwns), so the clock of the last start is only reset by the       *)
(* owner; what is left of the owner's sleep and the age of the last gated  *)
(* request then always add up to the spacing (SleepCovers), whether the    *)
(* sleep is the spacing sleep or a backoff; and the requests of a call     *)
(* keep step with its attempt index (AttemptsCounted).                     *)
(***************************************************************************)
EXTENDS RateLimiter, TLAPS

Inside == {"sleep", "request"}

HolderOwns == \A t \in Threads : at[t] \in Inside => g_woc_mutex = t

SleepCovers ==
  /\ since_last_start <= since_gated
  /\ \A t \in Threads : at[t] = "sleep" => since_gated + timer[t] >= MIN_INTERVAL_MS

AttemptsCounted ==
  \A t \in Threads :
    /\ at[t] = "lock" => requests[t] = 0
    /\ at[t] = "sleep" => requests[t] = attempt[t]
    /\ at[t] = "request" => requests[t] = attempt[t] + 1
    /\ requests[t] <= MAX_RETRIES + 1

LimiterInv == TypeOK /\ HolderOwns /\ SleepCovers /\ AttemptsCounted

-----------------------------------------------------------------------------
(* Ages grow up to the spacing and stay there.                              *)
LEMMA OlderAge ==
  ASSUME NEW a \in Ages
  PROVE  /\ Older(a) \in Ages /\ Older(a) >= a
         /\ \A b \in Ages : b <= a => Older(b) <= Older(a)
         /\ a = MIN_INTERVAL_MS \/ Older(a) = a + 1
  BY LimiterConstants DEF Older, Ages

(* Initially nobody is inside and everything is old enough.                 *)
LEMMA InitInv == LimiterInit => LimiterInv
  <1> SUFFICES ASSUME LimiterInit PROVE LimiterInv
    OBVIOUS
  <1>1. TypeOK
    <2>1. at \in [Threads -> Steps] /\ timer \in [Threads -> Nat]
      BY DEF LimiterInit, Steps
    <2>2. attempt \in [Threads -> 0..MAX_RETRIES] /\ calls \in [Threads -> 0..MaxCalls]
      <3>1. 0 \in 0..MAX_RETRIES /\ 0 \in 0..MaxCalls
        BY LimiterConstants
      <3> QED
        BY <3>1 DEF LimiterInit
    <2>3. since_last_start \in Ages /\ since_gated \in Ages
      BY LimiterConstants DEF LimiterInit, Ages
    <2>4. requests \in [Threads -> Nat] /\ g_woc_mutex \in Threads \cup {None}
      BY DEF LimiterInit
    <2> QED
      BY <2>1, <2>2, <2>3, <2>4 DEF TypeOK
  <1>2. HolderOwns /\ AttemptsCounted
    BY LimiterConstants DEF LimiterInit, HolderOwns, AttemptsCounted, Inside
  <1>3. SleepCovers
    BY LimiterConstants DEF LimiterInit, SleepCovers, Ages
  <1> QED
    BY <1>1, <1>2, <1>3 DEF LimiterInv

(* Types are preserved by every step.                                       *)
LEMMA NextType == LimiterInv /\ [LimiterNext]_limiterVars => TypeOK'
  <1> SUFFICES ASSUME LimiterInv, [LimiterNext]_limiterVars PROVE TypeOK'
    OBVIOUS
  <1> USE LimiterConstants DEF LimiterInv, TypeOK, Steps, Ages
  <1>1. ASSUME NEW t \in Threads, Call(t) PROVE TypeOK'
    BY <1>1 DEF Call
  <1>2. ASSUME NEW t \in Threads, Lock(t) PROVE TypeOK'
    BY <1>2 DEF Lock
  <1>3. ASSUME NEW t \in Threads, StartAttempt(t) PROVE TypeOK'
    BY <1>3 DEF StartAttempt
  <1>4. ASSUME NEW t \in Threads, Retry(t) PROVE TypeOK'
    <2>1. backoff(attempt[t]) \in Nat
      OBVIOUS
    <2>2. attempt[t] + 1 \in 0..MAX_RETRIES
      BY <1>4 DEF Retry
    <2> QED
      BY <1>4, <2>1, <2>2 DEF Retry
  <1>5. ASSUME NEW t \in Threads, EndCall(t) PROVE TypeOK'
    BY <1>5 DEF EndCall
  <1>6. CASE Tick
    <2>1. timer' \in [Threads -> Nat]
      BY <1>6 DEF Tick
    <2>2. since_last_start' \in Ages /\ since_gated' \in Ages
      BY <1>6, OlderAge DEF Tick
    <2> QED
      BY <1>6, <2>1, <2>2 DEF Tick
  <1>7. CASE UNCHANGED limiterVars
    BY <1>7 DEF limiterVars
  <1> QED
    BY <1>1, <1>2, <1>3, <1>4, <1>5, <1>6, <1>7 DEF LimiterNext, Advance

(* Only the owner of the mutex is inside, and the owner gives it up only on *)
(* the way out.                                                             *)
LEMMA NextHolder == LimiterInv /\ [LimiterNext]_limiterVars => HolderOwns'
  <1> SUFFICES ASSUME LimiterInv, [LimiterNext]_limiterVars PROVE HolderOwns'
    OBVIOUS
  <1> USE LimiterConstants DEF LimiterInv, TypeOK, HolderOwns, Inside
  <1>1. ASSUME NEW t \in Threads, Call(t) PROVE HolderOwns'
    BY <1>1 DEF Call
  <1>2. ASSUME NEW t \in Threads, Lock(t) PROVE HolderOwns'
    BY <1>2 DEF Lock
  <1>3. ASSUME NEW t \in Threads, StartAttempt(t) PROVE HolderOwns'
    BY <1>3 DEF StartAttempt
  <1>4. ASSUME NEW t \in Threads, Retry(t) PROVE HolderOwns'
    BY <1>4 DEF Retry
  <1>5. ASSUME NEW t \in Threads, EndCall(t) PROVE HolderOwns'
    BY <1>5 DEF EndCall
  <1>6. CASE Tick
    BY <1>6 DEF Tick
  <1>7. CASE UNCHANGED limiterVars
    BY <1>7 DEF limiterVars
  <1> QED
    BY <1>1, <1>2, <1>3, <1>4, <1>5, <1>6, <1>7 DEF LimiterNext, Advance

(* Only the owner starts a request, and its sleep covers what is missing of *)
(* the spacing: after Lock by the length of the sleep, after Retry because  *)
(* no backoff is shorter than the spacing.                                  *)
LEMMA NextSleep == LimiterInv /\ [LimiterNext]_limiterVars => SleepCovers'
  <1> SUFFICES ASSUME LimiterInv, [LimiterNext]_limiterVars PROVE SleepCovers'
    OBVIOUS
  <1> USE LimiterConstants DEF LimiterInv, TypeOK, SleepCovers, Ages
  <1>1. ASSUME NEW t \in Threads, Call(t) PROVE SleepCovers'
    BY <1>1 DEF Call
  <1>2. ASSUME NEW t \in Threads, Lock(t) PROVE SleepCovers'
    BY <1>2 DEF Lock
  <1>3. ASSUME NEW t \in Threads, StartAttempt(t) PROVE SleepCovers'
    <2>1. \A u \in Threads : at'[u] # "sleep"
      BY <1>3 DEF StartAttempt, HolderOwns, Inside
    <2> QED
      BY <1>3, <2>1 DEF StartAttempt
  <1>4. ASSUME NEW t \in Threads, Retry(t) PROVE SleepCovers'
    <2>1. backoff(attempt[t]) \in Nat /\ MIN_INTERVAL_MS <= backoff(attempt[t])
      OBVIOUS
    <2> QED
      BY <1>4, <2>1 DEF Retry
  <1>5. ASSUME NEW t \in Threads, EndCall(t) PROVE SleepCovers'
    BY <1>5 DEF EndCall
  <1>6. CASE Tick
    <2>1. since_last_start' <= since_gated'
      BY <1>6, OlderAge DEF Tick
    <2>2. ASSUME NEW t \in Threads, at'[t] = "sleep"
          PROVE  since_gated' + timer'[t] >= MIN_INTERVAL_MS
      <3>1. since_gated + timer[t] >= MIN_INTERVAL_MS
        BY <1>6, <2>2 DEF Tick
      <3>2. since_gated' = IF since_gated < MIN_INTERVAL_MS THEN since_gated + 1 ELSE since_gated
        BY <1>6 DEF Tick, Older
      <3>3. timer'[t] = IF timer[t] > 0 THEN timer[t] - 1 ELSE 0
        BY <1>6 DEF Tick
      <3>4. since_gated \in Ages /\ timer[t] \in Nat
        OBVIOUS
      <3> QED
        BY <3>1, <3>2, <3>3, <3>4
    <2> QED
      BY <2>1, <2>2
  <1>7. CASE UNCHANGED limiterVars
    BY <1>7 DEF limiterVars
  <1> QED
    BY <1>1, <1>2, <1>3, <1>4, <1>5, <1>6, <1>7 DEF LimiterNext, Advance

(* A request is counted when its attempt starts, an attempt when it is      *)
(* retried.                                                                 *)
LEMMA NextAttempts == LimiterInv /\ [LimiterNext]_limiterVars => AttemptsCounted'
  <1> SUFFICES ASSUME LimiterInv, [LimiterNext]_limiterVars PROVE AttemptsCounted'
    OBVIOUS
  <1> USE LimiterConstants DEF LimiterInv, TypeOK, AttemptsCounted
  <1>1. ASSUME NEW t \in Threads, Call(t) PROVE AttemptsCounted'
    BY <1>1 DEF Call
  <1>2. ASSUME NEW t \in Threads, Lock(t) PROVE AttemptsCounted'
    BY <1>2 DEF Lock
  <1>3. ASSUME NEW t \in Threads, StartAttempt(t) PROVE AttemptsCounted'
    BY <1>3 DEF StartAttempt
  <1>4. ASSUME NEW t \in Threads, Retry(t) PROVE AttemptsCounted'
    BY <1>4 DEF Retry
  <1>5. ASSUME NEW t \in Threads, EndCall(t) PROVE AttemptsCounted'
    BY <1>5 DEF EndCall
  <1>6. CASE Tick
    BY <1>6 DEF Tick
  <1>7. CASE UNCHANGED limiterVars
    BY <1>7 DEF limiterVars
  <1> QED
    BY <1>1, <1>2, <1>3, <1>4, <1>5, <1>6, <1>7 DEF LimiterNext, Advance

(* The invariant holds in every reachable state of the limiter.             *)
LEMMA LimiterInvariant == LimiterSpec => []LimiterInv
  <1>1. LimiterInv /\ [LimiterNext]_limiterVars => LimiterInv'
    BY NextType, NextHolder, NextSleep, NextAttempts DEF LimiterInv
  <1> QED
    BY InitInv, <1>1, PTL DEF LimiterSpec

-----------------------------------------------------------------------------
(* woc_rate_limited's state keeps its types.                                *)
THEOREM LimiterTypeCorrect == LimiterSpec => []TypeOK
  <1>1. LimiterInv => TypeOK
    BY DEF LimiterInv
  <1> QED
    BY LimiterInvariant, <1>1, PTL

(* Gated requests of all threads are serial, and a call makes at most       *)
(* MAX_RETRIES + 1 of them.                                                 *)
THEOREM LimiterSerial == LimiterSpec => []RequestsAreSerialAndFew
  <1>1. LimiterInv => RequestsAreSerialAndFew
    BY DEF LimiterInv, HolderOwns, Inside, AttemptsCounted, RequestsAreSerialAndFew
  <1> QED
    BY LimiterInvariant, <1>1, PTL

(* Any two gated requests, of whichever threads, first attempts or retries, *)
(* start at least MIN_INTERVAL_MS apart.                                    *)
THEOREM LimiterSpaced == LimiterSpec => GatedStartsAreSpaced
  <1> DEFINE Spaced == \A t \in Threads : at[t] # "request" /\ at'[t] = "request" =>
                         since_gated = MIN_INTERVAL_MS
  <1>1. LimiterInv /\ [LimiterNext]_limiterVars => [Spaced]_limiterVars
    <2> SUFFICES ASSUME LimiterInv, LimiterNext, NEW t \in Threads,
                        at[t] # "request", at'[t] = "request"
                 PROVE  since_gated = MIN_INTERVAL_MS
      OBVIOUS
    <2>1. \A u \in Threads : ~ Call(u) /\ ~ Lock(u) /\ ~ Retry(u) /\ ~ EndCall(u)
      BY DEF LimiterInv, TypeOK, Call, Lock, Retry, EndCall
    <2>2. ~ Tick
      BY DEF Tick
    <2>3. PICK u \in Threads : StartAttempt(u)
      BY <2>1, <2>2 DEF LimiterNext, Advance
    <2>4. at[t] = "sleep" /\ timer[t] = 0
      BY <2>3 DEF LimiterInv, TypeOK, StartAttempt
    <2>5. since_gated \in 0..MIN_INTERVAL_MS /\ since_gated + timer[t] >= MIN_INTERVAL_MS
      BY <2>4 DEF LimiterInv, TypeOK, SleepCovers, Ages
    <2> QED
      BY <2>4, <2>5, LimiterConstants
  <1> QED
    BY LimiterInvariant, <1>1, PTL DEF LimiterSpec, GatedStartsAreSpaced
=============================================================================
