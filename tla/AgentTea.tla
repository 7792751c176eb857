------------------------------ MODULE AgentTea ------------------------------
(***************************************************************************)
(* The AgentTea identity contract (artifacts/src/contracts-next/           *)
(* agentTea.scrypt) and the C code that mirrors it (contracts_next/        *)
(* agent_tea.c, txbuilders/agent_tea_tx_builder.c).                        *)
(*                                                                         *)
(* An identity output is a locking script with two parts.  The code part   *)
(* is frozen at genesis: of the twelve constructor arguments only the      *)
(* agent key is kept here (field "code"), because it is the one argument   *)
(* that occurs in the state part too; the others are the CONSTANTS.  The   *)
(* state part ("st") carries the six @state properties.                    *)
(***************************************************************************)
EXTENDS Integers, FiniteSets

CONSTANTS
  Keys,                 \* secp256k1 public keys (Elder, agents)
  Elder,                \* the owner key of every identity
  Guardians,            \* the recovery keys; BONSAI_AGENT_TEA_RECOVERY_KEYS of them
  PerTxLimit, DailyLimit, WindowDuration,
  GraduationThreshold, ValidatorThreshold, RecoveryThreshold,
  NoOut                 \* "no identity output": the spend paid the balance away

ASSUME AgentTeaConstants ==
  /\ Elder \in Keys
  /\ IsFiniteSet(Guardians)
  /\ PerTxLimit \in Nat /\ DailyLimit \in Nat /\ ValidatorThreshold \in Nat
  /\ GraduationThreshold \in Nat /\ RecoveryThreshold \in Nat
  /\ WindowDuration \in Nat \ {0}

(* The numeric @state properties, shared by the script and the JSON mirror. *)
Meters == [txCount : Nat, spentInWindow : Nat, windowStart : Nat,
           tier : 1..2, recoveryCount : Nat]

(* The decoded identity output: frozen constructor agent, @state agent and  *)
(* meters.                                                                  *)
IdentityOut == [code : Keys, agent : Keys, m : Meters]

ASSUME NoOutAssumption == NoOut \notin IdentityOut

genesis_state ==
  [txCount |-> 0, spentInWindow |-> 0, windowStart |-> 0, tier |-> 1,
   recoveryCount |-> 0]

(* locking_script_ex: constructor agent from the parameters, @state agent   *)
(* from the override or else from the parameters too.                       *)
locking_script_ex(paramsAgent, stateAgent, m) ==
  [code |-> paramsAgent, agent |-> stateAgent, m |-> m]

locking_script(paramsAgent, m) == locking_script_ex(paramsAgent, paramsAgent, m)

(* The window is rolled when the claimed time (nLockTime) is a full window  *)
(* past its start; a claimed time before the start rolls nothing.           *)
Rolls(m, now) == now - m.windowStart >= WindowDuration

(* Mutant: the window is emptied but keeps its start.                       *)
apply_action_keeps_start(m, amount, now) ==
  [m EXCEPT !.spentInWindow = (IF Rolls(m, now) THEN 0 ELSE @) + amount,
            !.txCount       = @ + 1,
            !.tier          = IF m.txCount + 1 >= GraduationThreshold THEN 2 ELSE @]

apply_action(m, amount, now) ==
  [m EXCEPT !.windowStart   = IF Rolls(m, now) THEN now ELSE @,
            !.spentInWindow = (IF Rolls(m, now) THEN 0 ELSE @) + amount,
            !.txCount       = @ + 1,
            !.tier          = IF m.txCount + 1 >= GraduationThreshold /\ @ < 2
                              THEN 2 ELSE @]

-----------------------------------------------------------------------------
(* What the contract demands of the transaction that spends output "prev"   *)
(* (its require statements), and the output it insists on through           *)
(* hashOutputs: the code part it was deployed with, never another.          *)

(* Mutant: perTxLimit is not enforced.                                      *)
executeAction_uncapped(prev, signer, amount, now, attested, out) ==
  LET next == apply_action(prev.m, amount, now) IN
  /\ signer = prev.agent
  /\ amount > 0
  /\ next.spentInWindow <= DailyLimit
  /\ amount >= ValidatorThreshold => attested
  /\ out = [prev EXCEPT !.m = next]

executeAction(prev, signer, amount, now, attested, out) ==
  LET next == apply_action(prev.m, amount, now) IN
  /\ signer = prev.agent
  /\ amount > 0 /\ amount <= PerTxLimit
  /\ next.spentInWindow <= DailyLimit
  /\ amount >= ValidatorThreshold => attested
  /\ out = [prev EXCEPT !.m = next]

stake(prev, out) == out = prev

(* Terminal: the bounty and the burn replace the identity output.           *)
slashValidator(prev, out) == prev.m.tier = 2 /\ out = NoOut

(* What a guardian signs: the charter hash, the new key and the recovery    *)
(* counter.  The charter hash does not tell identities apart (it defaults   *)
(* to a hash of the file name); what does is the signing key, generated     *)
(* afresh for every identity: field "gen" of a signature.  (Mutant: the     *)
(* counter is left out.)                                                    *)
recoveryMsg_no_nonce(newAgent, count) == [newAgent |-> newAgent, count |-> 0]
recoveryMsg(newAgent, count) == [newAgent |-> newAgent, count |-> count]

(* Mutants: the code part may change with the key; the counter stays.       *)
recover_any_code(prev, gen, newAgent, sigs, out) ==
  /\ \A s \in sigs : s.gen = gen /\ s.msg = recoveryMsg(newAgent, prev.m.recoveryCount)
  /\ Cardinality({s.by : s \in sigs}) >= RecoveryThreshold
  /\ out.agent = newAgent /\ out.m = [prev.m EXCEPT !.recoveryCount = @ + 1]
recover_uncounted(prev, gen, newAgent, sigs, out) ==
  /\ \A s \in sigs : s.gen = gen /\ s.msg = recoveryMsg(newAgent, prev.m.recoveryCount)
  /\ Cardinality({s.by : s \in sigs}) >= RecoveryThreshold
  /\ out = [prev EXCEPT !.agent = newAgent]

recover(prev, gen, newAgent, sigs, out) ==
  /\ \A s \in sigs : s.gen = gen /\ s.msg = recoveryMsg(newAgent, prev.m.recoveryCount)
  /\ Cardinality({s.by : s \in sigs}) >= RecoveryThreshold
  /\ out = [prev EXCEPT !.agent = newAgent, !.m.recoveryCount = @ + 1]

revoke(signer, out) == signer = Elder /\ out = NoOut
=============================================================================
