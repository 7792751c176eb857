---------------------------- MODULE WalletSpend ----------------------------
(***************************************************************************)
(* The wallet's spend builder (wallet/spend.c, with the size and fee       *)
(* arithmetic of bsv/tx_change.c): take funding outputs best-first until   *)
(* an estimate says they suffice, then settle fee and change on the real   *)
(* size.  Amounts are satoshis, sizes are bytes, the constants are the     *)
(* code's.  Keys, addresses and signatures are left out: every output is   *)
(* P2PKH but the optional OP_RETURN.  The commands that call the builder   *)
(* are in Payments.                                                        *)
(***************************************************************************)
EXTENDS ChainFunding

WALLET_DUST_THRESHOLD == 546
P2PKH_SCRIPTSIG_MAX == 108

VARIABLES
  pc,           \* step of the command that is running
  plan,         \* spend_plan_t: amounts, OP_RETURN length, send_all, fee_per_kb
  utxos,        \* the funding outputs, ranked by the caller
  total_recip, sel_count, running_in, result, why

spend_vars == <<plan, utxos, total_recip, sel_count, running_in, result, why>>

NoPlan == [recipients |-> <<>>, data |-> 0, send_all |-> FALSE, fee_per_kb |-> 0]
NoResult == [total_out |-> 0, fee |-> 0, change |-> 0, size |-> 0, outputs |-> <<>>]

-----------------------------------------------------------------------------
write_varint(n) == IF n < 253 THEN 1 ELSE IF n <= 65535 THEN 3 ELSE 5

(* OP_RETURN script around a payload: two opcodes and a push.               *)
opreturn_script(len) == 2 + len + (IF len < 76 THEN 1 ELSE IF len <= 255 THEN 2 ELSE 3)

(* The selection's estimate; "data" is the length of the OP_RETURN script.  *)
est_size_by_counts(n_in, n_out, data) ==
  10 + 9 + n_in * 148 + n_out * 34 + (IF data = 0 THEN 0 ELSE 8 + 3 + data)

input_size == 32 + 4 + write_varint(P2PKH_SCRIPTSIG_MAX) + P2PKH_SCRIPTSIG_MAX + 4
output_size(len) == 8 + write_varint(len) + len

(* The serialized size with worst-case signatures in place.                 *)
estimate_size(n_in, n_p2pkh, data) ==
  8 + write_varint(n_in) + write_varint(n_p2pkh + (IF data = 0 THEN 0 ELSE 1))
  + n_in * input_size + n_p2pkh * output_size(25) + (IF data = 0 THEN 0 ELSE output_size(data))

(* The same ceiling as the send-time window's; an unset rate is 50.         *)
fee_for(size, rate) == fee_for_size(size, IF rate = 0 THEN 50 ELSE rate)
MinFee(size, rate) == Ceil(size * (IF rate = 0 THEN 50 ELSE rate), 1000)

Total(amounts) == FoldSeq(+, 0, amounts)
(* add_money_u64: refuse before the sum can pass the money supply.          *)
in_money_range(total, v) == v >= 0 /\ v <= MAX_MONEY - total

Fail(reason) ==
  /\ pc' = "failed" /\ why' = reason
  /\ UNCHANGED <<plan, utxos, total_recip, sel_count, running_in, result>>

Script == IF plan.data = 0 THEN 0 ELSE opreturn_script(plan.data)
NumOut == Len(plan.recipients) + (IF plan.data = 0 THEN 0 ELSE 1) + (IF plan.send_all THEN 0 ELSE 1)

-----------------------------------------------------------------------------
BadArguments ==
  IF plan.send_all THEN Len(plan.recipients) # 1
  ELSE \/ plan.recipients = <<>> /\ plan.data = 0
       \/ \E i \in 1..Len(plan.recipients) : plan.recipients[i] < WALLET_DUST_THRESHOLD
       \/ \E i \in 1..Len(plan.recipients) :
            ~ in_money_range(Total(SubSeq(plan.recipients, 1, i - 1)), plan.recipients[i])

Check ==
  /\ pc = "check"
  /\ \/ BadArguments /\ Fail("bad arguments")
     \/ /\ ~ BadArguments
        /\ total_recip' = IF plan.send_all THEN 0 ELSE Total(plan.recipients)
        /\ pc' = "select"
        /\ UNCHANGED <<plan, utxos, sel_count, running_in, result, why>>

(* One turn of the selection loop; a sweep takes everything.  (Mutant: the  *)
(* stop condition looks at the sum before the coin was added.)              *)
Select_stops_late ==
  /\ pc = "select" /\ sel_count < Len(utxos)
  /\ IF ~ in_money_range(running_in, utxos[sel_count + 1].sats) THEN Fail("funding value out of range")
     ELSE /\ sel_count' = sel_count + 1 /\ running_in' = running_in + utxos[sel_count + 1].sats
          /\ \E fee \in fee_for(est_size_by_counts(sel_count + 1, NumOut, Script), plan.fee_per_kb) :
               pc' = IF ~ plan.send_all /\ running_in >= total_recip + fee THEN "settle" ELSE "select"
          /\ UNCHANGED <<plan, utxos, total_recip, result, why>>

Select ==
  /\ pc = "select" /\ sel_count < Len(utxos)
  /\ LET v == utxos[sel_count + 1].sats IN
     IF ~ in_money_range(running_in, v) THEN Fail("funding value out of range")
     ELSE /\ sel_count' = sel_count + 1
          /\ running_in' = running_in + v
          /\ IF plan.send_all THEN pc' = "select" /\ UNCHANGED why
             ELSE \E fee \in fee_for(est_size_by_counts(sel_count + 1, NumOut, Script), plan.fee_per_kb) :
                    IF ~ in_money_range(total_recip, fee)
                    THEN pc' = "failed" /\ why' = "spend total out of range"
                    ELSE /\ pc' = IF running_in + v >= total_recip + fee THEN "settle" ELSE "select"
                         /\ UNCHANGED why
          /\ UNCHANGED <<plan, utxos, total_recip, result>>

SelectEnds ==
  /\ pc = "select" /\ sel_count = Len(utxos)
  /\ IF plan.send_all /\ sel_count > 0
     THEN pc' = "settle" /\ UNCHANGED <<plan, utxos, total_recip, sel_count, running_in, result, why>>
     ELSE Fail("insufficient funds")

(* The result and the P2PKH outputs, for a fee and a change.                *)
Finish(fee, change, outputs) ==
  /\ result' = [total_out |-> Total(outputs), fee |-> fee, change |-> change,
                size |-> estimate_size(sel_count, Len(outputs), Script), outputs |-> outputs]
  /\ pc' = "done" /\ UNCHANGED <<plan, utxos, total_recip, sel_count, running_in, why>>

SettleSweep ==
  /\ pc = "settle" /\ plan.send_all
  /\ \E fee \in fee_for(estimate_size(sel_count, 1, Script), plan.fee_per_kb) :
       IF fee > MAX_MONEY \/ running_in - fee < WALLET_DUST_THRESHOLD
       THEN Fail("sweep amount below dust after fee")
       ELSE Finish(fee, 0, <<running_in - fee>>)

(* Change below dust is dropped and goes to the miner.  (Mutants: the       *)
(* dropped change is missing from the reported fee; the fee is computed     *)
(* before the change output is added.)                                      *)
SettleChange_fee_misreported ==
  /\ pc = "settle" /\ ~ plan.send_all
  /\ \E fee \in fee_for(estimate_size(sel_count, Len(plan.recipients) + 1, Script), plan.fee_per_kb) :
       LET change == running_in - total_recip - fee IN
       IF change < 0 THEN Fail("insufficient funds for fee")
       ELSE IF change < WALLET_DUST_THRESHOLD THEN Finish(fee, 0, plan.recipients)
            ELSE Finish(fee, change, Append(plan.recipients, change))
SettleChange_fee_too_early ==
  /\ pc = "settle" /\ ~ plan.send_all
  /\ \E fee \in fee_for(estimate_size(sel_count, Len(plan.recipients), Script), plan.fee_per_kb) :
       LET change == running_in - total_recip - fee IN
       IF change < 0 THEN Fail("insufficient funds for fee")
       ELSE IF change < WALLET_DUST_THRESHOLD THEN Finish(running_in - total_recip, 0, plan.recipients)
            ELSE Finish(fee, change, Append(plan.recipients, change))

SettleChange ==
  /\ pc = "settle" /\ ~ plan.send_all
  /\ \E fee \in fee_for(estimate_size(sel_count, Len(plan.recipients) + 1, Script), plan.fee_per_kb) :
       LET change == running_in - total_recip - fee IN
       IF ~ in_money_range(total_recip, fee) THEN Fail("spend total out of range")
       ELSE IF change < 0 THEN Fail("insufficient funds for fee")
       ELSE IF change < WALLET_DUST_THRESHOLD
            THEN Finish(running_in - total_recip, 0, plan.recipients)
            ELSE Finish(fee, change, Append(plan.recipients, change))

(* wallet_build_signed_spend, and what a command leaves when it is over.    *)
Build == Check \/ Select \/ SelectEnds \/ SettleSweep \/ SettleChange

Idle ==
  /\ plan = NoPlan /\ utxos = <<>> /\ total_recip = 0
  /\ sel_count = 0 /\ running_in = 0 /\ result = NoResult /\ why = ""

-----------------------------------------------------------------------------
(* The signed transaction pays out exactly what it takes in: outputs, the   *)
(* reported change and the reported fee add up to the selected coins, the   *)
(* recipients get what the plan says, nothing below dust is created, and no *)
(* sum on the way passes the money supply.                                  *)
SpendAddsUp ==
  /\ sel_count \in 0..Len(utxos) /\ running_in \in 0..MAX_MONEY /\ total_recip \in 0..MAX_MONEY
  /\ pc = "done" =>
    /\ running_in = funding_utxos_total(SubSeq(utxos, 1, sel_count))
    /\ running_in = result.total_out + result.fee
    /\ result.total_out = Total(result.outputs)
    /\ \A i \in 1..Len(result.outputs) : result.outputs[i] >= WALLET_DUST_THRESHOLD
    /\ ~ plan.send_all =>
         result.outputs = plan.recipients \o (IF result.change = 0 THEN <<>> ELSE <<result.change>>)

(* The fee is at least the policy rate of the final size, and what is paid  *)
(* above it is less than a change output is worth: dust, the change         *)
(* output's own bytes (34, and 2 more where it makes the output count a     *)
(* longer varint), and the rounding.                                        *)
FeeIsFair ==
  pc = "done" =>
    LET min == MinFee(result.size, plan.fee_per_kb) IN
    /\ result.fee >= min
    /\ result.fee < min + WALLET_DUST_THRESHOLD + MinFee(output_size(25) + 2, plan.fee_per_kb) + 2

(* No more coins are spent than needed: without the last one the amount and *)
(* its fee were not covered.  "insufficient funds" is said only after the   *)
(* last coin.  "insufficient funds for fee" may be said with coins left:    *)
(* the settled size has a byte more per input than the estimate the         *)
(* selection stopped at, and what is missing then is at most the fee of     *)
(* these bytes.                                                             *)
Settled == estimate_size(sel_count, Len(plan.recipients) + 1, Script)
SelectionIsTight ==
  /\ pc = "done" /\ ~ plan.send_all =>
       running_in - utxos[sel_count].sats < total_recip
         + MinFee(est_size_by_counts(sel_count - 1, NumOut, Script), plan.fee_per_kb) + 1
  /\ why = "insufficient funds" => sel_count = Len(utxos)
  /\ why = "insufficient funds for fee" =>
       running_in + MinFee(sel_count, plan.fee_per_kb) >= total_recip + MinFee(Settled, plan.fee_per_kb)
=============================================================================
