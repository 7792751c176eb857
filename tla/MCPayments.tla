----------------------------- MODULE MCPayments -----------------------------
(* Instance: commands on one key, or threads at the gate of their requests. *)
(*                                                                          *)
(* Wallets: empty, dust, exact amounts around the dust limit of the change, *)
(* sums beyond the money supply, a coin beyond it, unconfirmed larger than  *)
(* confirmed ones, and fifteen coins of which fourteen cover the selection's*)
(* estimate but not the settled fee.                                        *)
EXTENDS Payments, RateLimiter

MCWallets ==
  { <<>>, <<<<100, TRUE>>>>, <<<<600, TRUE>>, <<600, FALSE>>>>, <<<<1200, TRUE>>, <<58000, FALSE>>>>,
    <<<<1103, TRUE>>>>, <<<<1657, TRUE>>, <<1658, TRUE>>>>, <<<<1300, TRUE>>, <<700, TRUE>>, <<100, TRUE>>>>,
    <<<<32000, TRUE>>, <<41000, TRUE>>, <<1300, TRUE>>>>, <<<<70000, TRUE>>, <<5200, FALSE>>>>,
    [i \in 1..15 |-> <<IF i = 1 THEN 118 ELSE 116, TRUE>>] }
MCAmounts == {-1, 545, 546, 1100, 59999}
MCChildFees == {-100, 300, 3000, 50001}
MCBatches ==
  { [recipients |-> <<546, 700>>, data |-> 80, send_all |-> FALSE, fee_per_kb |-> 0],
    [recipients |-> <<32000, 32000>>, data |-> 0, send_all |-> FALSE, fee_per_kb |-> 0],
    [recipients |-> <<0>>, data |-> 32, send_all |-> TRUE, fee_per_kb |-> 0],
    [recipients |-> <<600, 600>>, data |-> 0, send_all |-> TRUE, fee_per_kb |-> 0],
    [recipients |-> <<>>, data |-> 0, send_all |-> FALSE, fee_per_kb |-> 0] }

VARIABLE gate  \* which of the two a behaviour is about

MCInit ==
  /\ Init /\ LimiterInit /\ gate \in BOOLEAN
  /\ IF gate THEN txs[1].outs = <<>> ELSE since_last_start = MIN_INTERVAL_MS
MCNext ==
  \/ ~ gate /\ Next /\ UNCHANGED <<limiterVars, gate>>
  \/ gate /\ LimiterNext /\ UNCHANGED <<vars, gate>>
MCSpec == MCInit /\ [][MCNext]_<<vars, limiterVars, gate>> /\ LimiterFairness
=============================================================================
