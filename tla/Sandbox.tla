------------------------------ MODULE Sandbox ------------------------------
(***************************************************************************)
(* A sandboxed agent (sandbox/sandboxed_agent.c) between the key broker,   *)
(* whose meter is that of AuthorizationEnvelope, the private enclave       *)
(* (privacy/enclave.c) over a key vault (privacy/key_vault.c), and the one *)
(* effect it may have.  An encryption key is the number of its minting;    *)
(* ciphertexts and commitments are the tuples they are computed from.      *)
(***************************************************************************)
EXTENDS AuthorizationEnvelope, FiniteSetsExt

CONSTANTS Identities, Payloads, Costs,
          MaxActs, MaxClock      \* bounds: authorised actions, the clock's range

ASSUME SandboxConstants == MaxActs \in Nat /\ MaxClock \in Nat /\ Costs \subseteq Int

VARIABLES vault,        \* identity -> key, 0 when there is none
          minted,       \* keys made so far
          meter, clock, \* the agent's accountant and the broker's clock
          records,      \* sealed records, whoever keeps them
          erased,       \* history: keys that were shredded
          acts          \* history: actions that passed the broker
sandboxVars == <<vault, minted, meter, clock, records, erased, acts>>

-----------------------------------------------------------------------------
(* The vault and the enclave.  (Mutants: a key is derived from the identity *)
(* instead of being made anew; every seal makes a key.)                     *)
ensure_key_derived(id) == IF vault[id] # 0 THEN vault[id] ELSE CHOOSE k \in 1..Cardinality(Identities) : TRUE
ensure_key_every_seal(id) == minted + 1
ensure_key(id) == IF vault[id] # 0 THEN vault[id] ELSE minted + 1
seal(id, key, payload) == [identity_id |-> id, ct |-> <<key, id, payload>>]
action_commitment(key, payload) == <<"PRISCILLA_ACTION_V1", key, payload>>

(* The identity is bound into the tag, so a relabelled record does not open.*)
open(record) ==
  IF vault[record.identity_id] = 0 THEN "shredded"
  ELSE IF record.ct[1] = vault[record.identity_id] /\ record.ct[2] = record.identity_id THEN "opened"
  ELSE "integrity"
recompute_action_hash(id, payload) == IF vault[id] = 0 THEN {} ELSE {action_commitment(vault[id], payload)}

Minted(id, key) == vault' = [vault EXCEPT ![id] = key] /\ minted' = IF key > minted THEN key ELSE minted

shred(id) ==
  /\ erased' = erased \cup ({vault[id]} \ {0})
  /\ vault' = [vault EXCEPT ![id] = 0]
  /\ UNCHANGED <<minted, meter, clock, records, acts>>

-----------------------------------------------------------------------------
(* sandboxed_agent_act: authorise, seal, and only then the effect.          *)
Authorized(cost) == charge_allowed(meter, cost, clock) /\ Cardinality(acts) < MaxActs
Charged(cost) == meter' = charge_commit(meter, cost, clock)
Did(id, payload, cost, key, kept, ran) ==
  [n |-> Cardinality(acts) + 1, id |-> id, payload |-> payload, cost |-> cost, at |-> clock,
   hash |-> action_commitment(key, payload), kept |-> kept, ran |-> ran]

(* Refused, for the caps or because the identity was revoked, or the        *)
(* broker's own question failed: nothing else happens.                      *)
ActDenied(id, payload, cost) == UNCHANGED sandboxVars
(* The seal fails: the charge stays and the key may have been made.         *)
ActUnsealed(id, payload, cost) ==
  /\ Authorized(cost) /\ Charged(cost)
  /\ Minted(id, ensure_key(id)) \/ UNCHANGED <<vault, minted>>
  /\ acts' = acts \cup {Did(id, payload, cost, ensure_key(id), FALSE, FALSE)}
  /\ UNCHANGED <<clock, records, erased>>
(* The effect, which may fail after it did something: the record is then    *)
(* freed and the caller gets no receipt.                                    *)
ActEffect(id, payload, cost) ==
  /\ Authorized(cost) /\ Charged(cost)
  /\ Minted(id, ensure_key(id))
  /\ \E kept \in BOOLEAN :
       /\ records' = IF kept THEN records \cup {seal(id, ensure_key(id), payload)} ELSE records
       /\ \E ran \in {TRUE, kept} : acts' = acts \cup {Did(id, payload, cost, ensure_key(id), kept, ran)}
  /\ UNCHANGED <<clock, erased>>

Act == \E id \in Identities, payload \in Payloads, cost \in Costs :
  ActDenied(id, payload, cost) \/ ActUnsealed(id, payload, cost) \/ ActEffect(id, payload, cost)
Shred == \E id \in Identities : shred(id)
(* Time passes, or the clock is set back.                                   *)
SetClock == \E t \in 0..MaxClock : clock' = t
  /\ UNCHANGED <<vault, minted, meter, records, erased, acts>>

SandboxInit ==
  /\ vault = [id \in Identities |-> 0] /\ minted = 0 /\ meter = window_accountant_init /\ clock = 0
  /\ records = {} /\ erased = {} /\ acts = {}
SandboxNext == Act \/ Shred \/ SetClock

-----------------------------------------------------------------------------
CostOf(S) == MapThenSumSet(LAMBDA a : a.cost, S)
Monotone == \A a, b \in acts : a.n < b.n => a.at <= b.at

(* Receipts that were handed out: an action whose result came back ran its  *)
(* effect and left its sealed record, nothing else leaves one, and as long  *)
(* as the key of that action was not shredded the record opens and the      *)
(* commitment on its receipt is what the enclave recomputes, whatever the   *)
(* identity sealed afterwards.  An effect whose provider reported an error  *)
(* may have run and leaves no record, unlike sandboxed_agent.h:18 says      *)
(* ("every effect that ran has a receipt"); it is paid for all the same.    *)
ReceiptsAreBacked ==
  /\ \A a \in acts : a.kept =>
       /\ a.ran /\ seal(a.id, a.hash[2], a.payload) \in records
       /\ a.hash[2] \notin erased =>
            /\ open(seal(a.id, a.hash[2], a.payload)) = "opened"
            /\ a.hash \in recompute_action_hash(a.id, a.payload)
  /\ \A r \in records : \E a \in acts : a.kept /\ r = seal(a.id, a.hash[2], a.payload)

(* The envelope holds over the effects: however the clock moves, what passed*)
(* since the window last rolled is exactly the meter and within perWindow;  *)
(* while the clock is never set back, no stretch of a window's duration     *)
(* holds more than two budgets.  Whatever failed after the authorisation is *)
(* paid for as well.                                                        *)
EffectsArePaid ==
  /\ meter.started =>
       \E a \in acts : a.at = meter.start /\ CostOf({b \in acts : b.n >= a.n}) = meter.spent /\ meter.spent <= PerWindow
  /\ Monotone => \A from \in 0..MaxClock : CostOf({a \in acts : a.at \in from..(from + Duration - 1)}) <= 2 * PerWindow

(* Shredding is for good, although the next seal makes the identity a new   *)
(* key: no record sealed under a shredded key opens again, no commitment    *)
(* made with it is recomputed, and what was not shredded opens, but not     *)
(* with another identity put on the record.                                 *)
ErasureHolds ==
  /\ \A r \in records, id \in Identities :
       open([r EXCEPT !.identity_id = id]) = "opened" <=> r.ct[1] \notin erased /\ id = r.identity_id
  /\ \A a \in acts : a.hash[2] \in erased => a.hash \notin recompute_action_hash(a.id, a.payload)
=============================================================================
