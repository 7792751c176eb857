---------------------------- MODULE RateLimiter ----------------------------
(***************************************************************************)
(* The process-global WhatsOnChain gate (chainSources/woc_rate_limiter.c): *)
(* one mutex around the spacing sleep, the request and all of its retries. *)
(* Every request of woc_client.c passes it; those of whats_on_chain.c do   *)
(* not.  Time is a monotonic millisecond clock that runs while threads     *)
(* sleep; timers count down and ages count up to where they stop mattering.*)
(***************************************************************************)
EXTENDS Integers

CONSTANTS Threads, None,
          MIN_INTERVAL_MS, MAX_RETRIES, BASE_BACKOFF_MS,
          MaxCalls      \* bound: gated calls per thread

(* BASE_BACKOFF_MS * 2^attempt *)
backoff(n) == BASE_BACKOFF_MS * 2^n

(* The code's constants 400, 6 and 1000 satisfy it: no backoff is shorter   *)
(* than the spacing.                                                        *)
ASSUME LimiterConstants ==
  /\ None \notin Threads
  /\ MIN_INTERVAL_MS \in Nat /\ MAX_RETRIES \in Nat /\ MaxCalls \in Nat
  /\ \A n \in 0..MAX_RETRIES : backoff(n) \in Nat /\ MIN_INTERVAL_MS <= backoff(n)

VARIABLES at, timer, attempt,   \* per thread: step, rest of the sleep, attempt index
          g_woc_mutex,          \* its owner, or None
          since_last_start,     \* now - g_last_start_ms, up to MIN_INTERVAL_MS
          since_gated,          \* history: age of the last gated request
          requests,             \* history: requests made by the thread's current call
          calls                 \* per thread: calls made, for MaxCalls

limiterVars == <<at, timer, attempt, g_woc_mutex, since_last_start, since_gated, requests, calls>>

Steps == {"out", "lock", "sleep", "request"}
Ages == 0..MIN_INTERVAL_MS
Older(age) == IF age < MIN_INTERVAL_MS THEN age + 1 ELSE age

Call(t) ==
  /\ at[t] = "out" /\ calls[t] < MaxCalls
  /\ at' = [at EXCEPT ![t] = "lock"]
  /\ calls' = [calls EXCEPT ![t] = @ + 1]
  /\ requests' = [requests EXCEPT ![t] = 0]
  /\ UNCHANGED <<timer, attempt, g_woc_mutex, since_last_start, since_gated>>

(* The mutex is granted in any order; the spacing sleep follows.            *)
Lock(t) ==
  /\ at[t] = "lock" /\ g_woc_mutex = None
  /\ g_woc_mutex' = t
  /\ timer' = [timer EXCEPT ![t] = MIN_INTERVAL_MS - since_last_start]
  /\ attempt' = [attempt EXCEPT ![t] = 0]
  /\ at' = [at EXCEPT ![t] = "sleep"]
  /\ UNCHANGED <<since_last_start, since_gated, requests, calls>>

(* The sleep is over: note the start and send the request.  (Mutant: the    *)
(* start is not noted.)                                                     *)
StartAttempt_unnoted(t) ==
  /\ at[t] = "sleep" /\ timer[t] = 0
  /\ since_gated' = 0
  /\ requests' = [requests EXCEPT ![t] = @ + 1]
  /\ at' = [at EXCEPT ![t] = "request"]
  /\ UNCHANGED <<timer, attempt, g_woc_mutex, since_last_start, calls>>

StartAttempt(t) ==
  /\ at[t] = "sleep" /\ timer[t] = 0
  /\ since_last_start' = 0
  /\ since_gated' = 0
  /\ requests' = [requests EXCEPT ![t] = @ + 1]
  /\ at' = [at EXCEPT ![t] = "request"]
  /\ UNCHANGED <<timer, attempt, g_woc_mutex, calls>>

(* A 429 with attempts left: sleep and retry, the mutex still held.         *)
(* (Mutant: the mutex released during the backoff.)                         *)
Retry_unlocked(t) ==
  /\ at[t] = "request" /\ attempt[t] < MAX_RETRIES
  /\ timer' = [timer EXCEPT ![t] = backoff(attempt[t])]
  /\ attempt' = [attempt EXCEPT ![t] = @ + 1]
  /\ at' = [at EXCEPT ![t] = "sleep"] /\ g_woc_mutex' = None
  /\ UNCHANGED <<since_last_start, since_gated, requests, calls>>

Retry(t) ==
  /\ at[t] = "request" /\ attempt[t] < MAX_RETRIES
  /\ timer' = [timer EXCEPT ![t] = backoff(attempt[t])]
  /\ attempt' = [attempt EXCEPT ![t] = @ + 1]
  /\ at' = [at EXCEPT ![t] = "sleep"]
  /\ UNCHANGED <<g_woc_mutex, since_last_start, since_gated, requests, calls>>

(* Success, another error, or the last 429: unlock and return.  (Mutant:    *)
(* an early return past the unlock.)                                        *)
EndCall_locked(t) ==
  /\ at[t] = "request"
  /\ at' = [at EXCEPT ![t] = "out"]
  /\ UNCHANGED <<timer, attempt, g_woc_mutex, since_last_start, since_gated, requests, calls>>

EndCall(t) ==
  /\ at[t] = "request"
  /\ g_woc_mutex' = None
  /\ at' = [at EXCEPT ![t] = "out"]
  /\ UNCHANGED <<timer, attempt, since_last_start, since_gated, requests, calls>>

(* A millisecond passes.  A thread whose sleep is over may start late.      *)
Tick ==
  /\ timer' = [t \in Threads |-> IF timer[t] > 0 THEN timer[t] - 1 ELSE 0]
  /\ since_last_start' = Older(since_last_start)
  /\ since_gated' = Older(since_gated)
  /\ UNCHANGED <<at, attempt, g_woc_mutex, requests, calls>>

(* g_last_start_ms is 0 and the monotonic clock counts from boot.           *)
LimiterInit ==
  /\ at = [t \in Threads |-> "out"] /\ timer = [t \in Threads |-> 0]
  /\ attempt = [t \in Threads |-> 0] /\ g_woc_mutex = None
  /\ since_last_start \in Ages
  /\ since_gated = MIN_INTERVAL_MS
  /\ requests = [t \in Threads |-> 0] /\ calls = [t \in Threads |-> 0]

Advance(t) == Lock(t) \/ StartAttempt(t) \/ Retry(t) \/ EndCall(t)

LimiterNext == (\E t \in Threads : Call(t) \/ Advance(t)) \/ Tick

(* Clocks run; a thread that can go on does; a request ends (the transport  *)
(* has a total timeout).                                                    *)
LimiterFairness == WF_limiterVars(Tick) /\ \A t \in Threads : WF_limiterVars(Advance(t))

LimiterSpec == LimiterInit /\ [][LimiterNext]_limiterVars /\ LimiterFairness

-----------------------------------------------------------------------------
(* Types of the limiter's state.                                            *)
TypeOK ==
  /\ at \in [Threads -> Steps] /\ timer \in [Threads -> Nat]
  /\ attempt \in [Threads -> 0..MAX_RETRIES]
  /\ g_woc_mutex \in Threads \cup {None}
  /\ since_last_start \in Ages /\ since_gated \in Ages
  /\ requests \in [Threads -> Nat] /\ calls \in [Threads -> 0..MaxCalls]

(* Gated requests, first attempts and retries of all threads alike, start   *)
(* at least MIN_INTERVAL_MS apart.                                          *)
GatedStartsAreSpaced ==
  [][\A t \in Threads : at[t] # "request" /\ at'[t] = "request" =>
       since_gated = MIN_INTERVAL_MS]_limiterVars

(* One request at a time, and at most MAX_RETRIES + 1 of them per call.     *)
RequestsAreSerialAndFew ==
  /\ \A t, u \in Threads : at[t] = "request" /\ at[u] \in {"sleep", "request"} => t = u
  /\ \A t \in Threads : requests[t] <= MAX_RETRIES + 1

(* Every call returns, also the one that waits behind the longest backoff.  *)
CallsReturn == \A t \in Threads : (at[t] = "lock") ~> (at[t] = "out")
=============================================================================
