--------------------------- MODULE IdentityLedger ---------------------------
(***************************************************************************)
(* What the identity contract promises, without transactions: each         *)
(* identity is one object with a phase, an agent key and meters, changed   *)
(* one atomic operation at a time.  IdentityChain implements it: a chain   *)
(* of outputs, each spendable once, behaves as that single object.         *)
(***************************************************************************)
EXTENDS AgentTea

CONSTANTS Ids, MaxAmount

VARIABLES ident, clock

Absent == [phase |-> "absent", agent |-> Elder, m |-> genesis_state]
Ended  == [phase |-> "ended",  agent |-> Elder, m |-> genesis_state]

(* The operations, as relations between an identity before and after.       *)
Create(old, new) ==
  /\ old = Absent
  /\ \E k \in Keys : new = [phase |-> "live", agent |-> k, m |-> genesis_state]

(* A metered action never exceeds the per-transaction limit or the window's *)
(* budget.                                                                  *)
Act(old, new) ==
  /\ old.phase = "live"
  /\ \E a \in 1..MaxAmount, now \in 0..clock :
       LET next == apply_action(old.m, a, now) IN
       /\ a <= PerTxLimit /\ next.spentInWindow <= DailyLimit
       /\ new = [old EXCEPT !.m = next]

(* A recovery uses the counter value up.                                    *)
Rotate(old, new) ==
  /\ old.phase = "live"
  /\ \E k \in Keys : new = [old EXCEPT !.agent = k, !.m.recoveryCount = @ + 1]

End(old, new) == old.phase = "live" /\ new = Ended

Operation(old, new) ==
  Create(old, new) \/ Act(old, new) \/ Rotate(old, new) \/ End(old, new)

LedgerInit == ident = [g \in Ids |-> Absent]

(* One identity at a time changes.                                          *)
LedgerNext ==
  /\ \E g \in Ids : /\ ident'[g] # ident[g] /\ Operation(ident[g], ident'[g])
                    /\ \A h \in Ids \ {g} : ident'[h] = ident[h]
  /\ UNCHANGED clock

LedgerSpec == LedgerInit /\ [][LedgerNext]_ident
=============================================================================
