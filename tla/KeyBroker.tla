----------------------------- MODULE KeyBroker -----------------------------
(***************************************************************************)
(* The key broker (broker/key_broker.c) on top of the revocation oracle    *)
(* and the window accountants.  The broker runs one call at a time; while  *)
(* a call waits for the explorer the chain moves and the clock runs.  Its  *)
(* keys live in memory: a restart forgets all of them and both caches.     *)
(***************************************************************************)
EXTENDS RevocationOracle, AuthorizationEnvelope, FiniteSetsExt

CONSTANTS KeyIds, Scopes,
          NoKey,        \* no key of that name has been issued
          MaxTime,      \* bound: the broker clock's range 0..MaxTime
          MaxGrants     \* bound: grants in all; afterwards only requests sure to be refused

Key == [id : Ids, scopes : SUBSET Scopes, accountant : Accountant, revoked_locally : BOOLEAN]

ASSUME BrokerConstants ==
  NoKey \notin Key /\ MaxTime \in Nat /\ MaxGrants \in Nat

VARIABLES keys,         \* the stored keys
          call,         \* the call in progress
          now,          \* the broker's clock
          granted       \* history: per key, the allowed authorisations, with
                        \* whether the identity had ended when the call began
                        \* and whether the explorer hid that during the call

brokerVars == <<keys, call, now, granted>>
vars == <<oracleVars, brokerVars>>

(* Zero stands for every amount that is refused for its sign.               *)
Requests == 0..(PerCall + 1)
NoCall == [op |-> "none"]
Grants == UNION {{k} \X granted[k] : k \in KeyIds}

Return == call' = NoCall

stored_key(id, scopes) ==
  [id |-> id, scopes |-> scopes, accountant |-> window_accountant_init, revoked_locally |-> FALSE]

(* key_broker_issue: no check of the chain at all.                          *)
issue(k, id, scopes) ==
  /\ keys[k] = NoKey
  /\ keys' = [keys EXCEPT ![k] = stored_key(id, scopes)]

Issue(k, id, scopes) ==
  /\ call = NoCall
  /\ issue(k, id, scopes)
  /\ UNCHANGED <<oracleVars, call, now, granted>>

(* issue_from_chain first reads the genesis transaction back.               *)
IssueFromChain(k, id, scopes) ==
  /\ call = NoCall /\ keys[k] = NoKey
  /\ call' = [op |-> "verify", key |-> k, id |-> id, scopes |-> scopes]
  /\ UNCHANGED <<oracleVars, keys, now, granted>>

(* The genesis script is the expected one and contains the charter hash and *)
(* the agent key: go on to the oracle.                                      *)
VerifyOk ==
  /\ call.op = "verify"
  /\ call' = [call EXCEPT !.op = "mint"]
  /\ is_revoked(call.id)
  /\ UNCHANGED <<keys, now, granted>>

(* Unreachable, malformed or different script, malformed or absent hash or  *)
(* key: refused.                                                            *)
VerifyRefused ==
  /\ call.op = "verify"
  /\ Return
  /\ UNCHANGED <<oracleVars, keys, now, granted>>

(* Only "live" mints a key; an oracle error and a revocation refuse.        *)
Mint ==
  /\ call.op = "mint" /\ Answered
  /\ IF walk.phase = "live" THEN issue(call.key, call.id, call.scopes) ELSE UNCHANGED keys
  /\ Return
  /\ UNCHANGED <<oracleVars, now, granted>>

(* authorize up to the oracle; an unknown secret is a stutter.  (Mutant:    *)
(* the latch is not looked at.)                                             *)
Authorize_unlatched(k, scope, amount) ==
  /\ call = NoCall /\ keys[k] # NoKey
  /\ Cardinality(Grants) < MaxGrants \/ amount <= 0
  /\ call' = [op |-> "authorize", key |-> k, scope |-> scope, amount |-> amount]
  /\ is_revoked(keys[k].id)
  /\ UNCHANGED <<keys, now, granted>>

Authorize(k, scope, amount) ==
  /\ call = NoCall /\ keys[k] # NoKey
  /\ Cardinality(Grants) < MaxGrants \/ amount <= 0
  /\ ~ keys[k].revoked_locally
  /\ call' = [op |-> "authorize", key |-> k, scope |-> scope, amount |-> amount]
  /\ is_revoked(keys[k].id)
  /\ UNCHANGED <<keys, now, granted>>

(* The oracle failed: denied.                                               *)
DenyUnavailable ==
  /\ call.op = "authorize" /\ walk.phase = "error"
  /\ Return
  /\ UNCHANGED <<oracleVars, keys, now, granted>>

(* Revoked on the chain: denied, and the key latched.                       *)
DenyRevoked ==
  /\ call.op = "authorize" /\ walk.phase = "revoked"
  /\ keys' = [keys EXCEPT ![call.key].revoked_locally = TRUE]
  /\ Return
  /\ UNCHANGED <<oracleVars, now, granted>>

(* Out of scope, or refused by the accountant: denied without a charge.     *)
Allowed(k) ==
  /\ call.scope \in keys[k].scopes
  /\ charge_allowed(keys[k].accountant, call.amount, now)

(* (Mutant: a request out of scope is charged before it is denied.)         *)
DenyRequest_charges ==
  /\ call.op = "authorize" /\ walk.phase = "live"
  /\ ~ Allowed(call.key)
  /\ keys' = [keys EXCEPT ![call.key].accountant = charge(@, call.amount, now)]
  /\ Return
  /\ UNCHANGED <<oracleVars, now, granted>>

DenyRequest ==
  /\ call.op = "authorize" /\ walk.phase = "live"
  /\ ~ Allowed(call.key)
  /\ Return
  /\ UNCHANGED <<oracleVars, keys, now, granted>>

Allow ==
  /\ call.op = "authorize" /\ walk.phase = "live"
  /\ Allowed(call.key)
  /\ keys' = [keys EXCEPT ![call.key].accountant = charge(@, call.amount, now)]
  /\ granted' = [granted EXCEPT ![call.key] = @ \cup
                   {[n |-> Cardinality(@) + 1, amount |-> call.amount, at |-> now,
                     ended |-> walk.ended, lagged |-> walk.lagged]}]
  /\ Return
  /\ UNCHANGED <<oracleVars, now>>

revoke_locally(k) ==
  /\ call = NoCall /\ keys[k] # NoKey
  /\ keys' = [keys EXCEPT ![k].revoked_locally = TRUE]
  /\ UNCHANGED <<oracleVars, call, now, granted>>

SetClock ==
  /\ \E t \in 0..MaxTime : now' = t
  /\ UNCHANGED <<oracleVars, keys, call, granted>>

(* Process restart: key_broker_new and chain_revocation_oracle_new.         *)
Restart ==
  /\ Fault
  /\ keys' = [k \in KeyIds |-> NoKey]
  /\ granted' = [k \in KeyIds |-> {}]
  /\ Return
  /\ revoked' = {} /\ live_tips' = [id \in Ids |-> 0]
  /\ walk' = [walk EXCEPT !.phase = "idle"]
  /\ UNCHANGED <<thread, garbled, now>>

Init ==
  /\ OracleInit
  /\ keys = [k \in KeyIds |-> NoKey] /\ call = NoCall /\ now = 0
  /\ granted = [k \in KeyIds |-> {}]

Decide == VerifyOk \/ VerifyRefused \/ Mint \/ DenyUnavailable \/ DenyRevoked
          \/ DenyRequest \/ Allow

Next ==
  \/ \E k \in KeyIds, id \in Ids, scopes \in SUBSET Scopes :
       Issue(k, id, scopes) \/ IssueFromChain(k, id, scopes)
  \/ \E k \in KeyIds : revoke_locally(k)
                       \/ \E s \in Scopes, a \in Requests : Authorize(k, s, a)
  \/ Decide
  \/ WalkStep /\ UNCHANGED brokerVars
  \/ \E id \in Ids, kind \in Kinds : Spend(id, kind) /\ UNCHANGED brokerVars
  \/ SetClock
  \/ Restart

Spec == Init /\ [][Next]_vars

(* The clients keep using their keys, and a call that has begun runs to its *)
(* end: the explorer answers or the request times out.                      *)
Fairness ==
  /\ WF_vars(Decide)
  /\ WF_vars(WalkStep /\ UNCHANGED brokerVars)
  /\ \A k \in KeyIds : SF_vars(\E s \in Scopes, a \in Requests : Authorize(k, s, a))

LiveSpec == Spec /\ Fairness

-----------------------------------------------------------------------------
(* No authorisation is granted under an identity that had ended before the  *)
(* call began, unless the explorer hid the spend during that very call:     *)
(* neither the cached tip nor an earlier late answer can keep a dead        *)
(* identity's key working (garbled answers excepted).                       *)
GrantMeansLive ==
  \A k \in KeyIds : \A g \in granted[k] :
    g.ended /\ keys[k].id \notin garbled => g.lagged

(* What a key's accountant counts is exactly what was granted to it since   *)
(* its window last rolled, within perWindow: denials of every kind, other   *)
(* keys and local revocation leave no charge and forget none.               *)
SumOf(S) == MapThenSumSet(LAMBDA g : g.amount, S)
MeterMatchesGrants ==
  \A k \in KeyIds : keys[k] # NoKey =>
    LET acc == keys[k].accountant IN
    /\ acc.started <=> granted[k] # {}
    /\ acc.started => \E o \in granted[k] :
         /\ o.at = acc.start
         /\ acc.spent = SumOf({g \in granted[k] : g.n >= o.n})
         /\ acc.spent <= PerWindow

(* The kill switch holds.  A latched key stays latched as long as the       *)
(* broker lives and is granted nothing; and once the oracle has seen the    *)
(* revocation through any one key, every key of that identity is dead.      *)
KillSwitchHolds ==
  [][\A k \in KeyIds : keys[k] # NoKey /\ keys'[k] # NoKey =>
       /\ keys[k].revoked_locally => keys'[k].revoked_locally
       /\ granted'[k] # granted[k] => ~ keys[k].revoked_locally /\ keys[k].id \notin revoked]_vars

(* A key whose identity has ended on the chain is latched sooner or later   *)
(* if it stays in use, once the explorer's faults are over, provided the    *)
(* terminal spend lies within max_hops of where the walk starts: at the     *)
(* cached tip or, after a restart or before the first answer, at genesis.   *)
(* Beyond that every call ends in the hop-limit error: denied, not latched. *)
InReach(id) ==
  \E p \in 1..Len(thread[id]) :
    /\ thread[id][p] = "payout" /\ \A i \in 1..(p - 1) : thread[id][i] = "state"
    /\ p - (IF live_tips[id] = 0 THEN 1 ELSE live_tips[id]) <= MaxHops

EndedKeyIsLatched ==
  \A k \in KeyIds :
    (keys[k] # NoKey /\ InReach(keys[k].id) /\ keys[k].id \notin garbled)
      ~> (keys[k] = NoKey \/ keys[k].revoked_locally \/ keys[k].id \in garbled)
=============================================================================
