----------------------- MODULE AuthorizationEnvelope -----------------------
(***************************************************************************)
(* The rolling-window meter of broker/authorization_envelope.c, as         *)
(* operators on the accountant record that lives next to a broker key.     *)
(***************************************************************************)
EXTENDS Integers

CONSTANTS PerCall, PerWindow, Duration   \* the envelope's caps

ASSUME EnvelopeConstants == PerCall \in Int /\ PerWindow \in Int /\ Duration \in Int

Accountant == [spent : Nat, start : Int, started : BOOLEAN]

window_accountant_init == [spent |-> 0, start |-> 0, started |-> FALSE]

(* Rolled on the first charge or when a full window has elapsed.            *)
RolledOver(acc, now) == ~ acc.started \/ now - acc.start >= Duration
Base(acc, now) == IF RolledOver(acc, now) THEN 0 ELSE acc.spent

(* The three refusals; none of them touches the accountant.                 *)
charge_allowed(acc, amount, now) ==
  /\ amount > 0
  /\ amount <= PerCall
  /\ Base(acc, now) + amount <= PerWindow

(* (Mutant: what was spent in the old window is kept.)                      *)
charge_commit_carries_over(acc, amount, now) ==
  [spent   |-> acc.spent + amount,
   start   |-> IF RolledOver(acc, now) THEN now ELSE acc.start,
   started |-> TRUE]
charge_commit(acc, amount, now) ==
  [spent   |-> Base(acc, now) + amount,
   start   |-> IF RolledOver(acc, now) THEN now ELSE acc.start,
   started |-> TRUE]

charge(acc, amount, now) ==
  IF charge_allowed(acc, amount, now) THEN charge_commit(acc, amount, now) ELSE acc
=============================================================================
