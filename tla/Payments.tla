------------------------------ MODULE Payments ------------------------------
(***************************************************************************)
(* The payment commands around the spend builder: pay (scripts/pay_lib.c), *)
(* opreturn (scripts/opreturn_lib.c), the library call they share          *)
(* (wallet/send.c) and cpfp (scripts/cpfp_lib.c), run one after the other  *)
(* on one funded address.  WhatsOnChain's listing may lag behind the node, *)
(* so a command can build on coins that are gone.                          *)
(***************************************************************************)
EXTENDS WalletSpend, FiniteSetsExt

CONSTANTS
  Wallets,       \* bound: coins the address starts with, and which are confirmed
  Amounts,       \* bound: AMOUNT of pay, -1 for one that does not parse
  DataLens,      \* bound: payload lengths of opreturn, 0 for none
  Rates,         \* bound: FEE_PER_KB, 0 when unset
  MAX_FEE_PER_KB,\* WALLET_MAX_FEE_PER_KB, scaled down
  Batches,       \* bound: plans of library callers, with several recipients
  ChildFees,     \* bound: FEE of cpfp (3000 when unset)
  Vouts,         \* bound: VOUT of cpfp
  VOUT_RANGE,    \* 2^32, scaled down: VOUT is cut to 32 bits
  MaxCommands    \* bound: commands of a behaviour

ASSUME PaymentConstants ==
  /\ \A w \in Wallets : w \in Seq(Nat \X BOOLEAN)
  /\ \A p \in Batches : p \in [recipients : Seq(Int), data : Nat, send_all : BOOLEAN, fee_per_kb : Nat]
  /\ Amounts \subseteq Int /\ DataLens \subseteq Nat /\ Rates \subseteq Nat /\ ChildFees \subseteq Int
  /\ Vouts \subseteq Nat /\ VOUT_RANGE \in Nat \ {0} /\ MaxCommands \in Nat /\ MAX_FEE_PER_KB \in Nat

VARIABLES
  txs,       \* transactions the node accepted; the first one holds the coins
  listed,    \* how many of them the address listing knows
  child,     \* the cpfp transaction built: <<outpoint, value, fee>>
  reports    \* per finished command: how it ended, and the amount sent and the
             \* fee it printed before the broadcast

vars == <<pc, spend_vars, txs, listed, child, reports>>
chain_vars == <<txs, listed>>

-----------------------------------------------------------------------------
(* Outputs are <<owner, satoshis>>: "own" is the funded key.                *)
Out(o) == txs[o[1]].outs[o[2] + 1]
Outpoints(n) == UNION {{<<t, v>> : v \in 0..(Len(txs[t].outs) - 1)} : t \in 1..n}
SpentBy(n) == UNION {txs[t].ins : t \in 1..n}

Unspent(n) == {o \in Outpoints(n) : Out(o)[1] = "own" /\ o \notin SpentBy(n)}

list_utxos ==
  {[outpoint |-> o, sats |-> Out(o)[2], confirmed |-> o[1] = 1 /\ txs[1].confirmed[o[2] + 1]] :
     o \in Unspent(listed)}

SumOf(outs) == FoldSeq(LAMBDA out, sum : out[2] + sum, 0, outs)
NodeAccepts(tx) ==
  /\ \A o \in tx.ins : o \in Outpoints(Len(txs)) /\ o \notin SpentBy(Len(txs)) /\ Out(o)[1] = "own"
  /\ MapThenSumSet(LAMBDA o : Out(o)[2], tx.ins) >= SumOf(tx.outs)

-----------------------------------------------------------------------------
(* A command ends.                                                          *)
Report(what, sent, fee) ==
  /\ reports' = Append(reports, [what |-> what, sent |-> sent, fee |-> fee])
  /\ pc' = "idle" /\ child' = <<>>
  /\ plan' = NoPlan /\ utxos' = <<>> /\ total_recip' = 0
  /\ sel_count' = 0 /\ running_in' = 0 /\ result' = NoResult /\ why' = ""

Starts == pc = "idle" /\ Len(reports) < MaxCommands
Refuse == Report("failed", 0, 0) /\ UNCHANGED chain_vars

(* wallet_fund_and_sign: list, rank, build.                                 *)
wallet_fund_and_sign(p) ==
  /\ plan' = p /\ utxos' = rank_funding_utxos(list_utxos, 0, FALSE)
  /\ pc' = "check"
  /\ UNCHANGED <<total_recip, sel_count, running_in, result, why, chain_vars, child, reports>>
BadRate(rate) == rate > MAX_FEE_PER_KB

Pay ==
  /\ Starts
  /\ \E amount \in Amounts, sweep \in BOOLEAN, rate \in Rates :
       \/ ((~ sweep /\ amount < 0) \/ BadRate(rate)) /\ Refuse
       \/ /\ ~ BadRate(rate) /\ (sweep \/ amount >= 0)
          /\ wallet_fund_and_sign([recipients |-> <<IF sweep THEN 0 ELSE amount>>, data |-> 0,
                                   send_all |-> sweep, fee_per_kb |-> rate])

OpReturn ==
  /\ Starts
  /\ \E len \in DataLens, rate \in Rates :
       \/ (len = 0 \/ BadRate(rate)) /\ Refuse
       \/ /\ len > 0 /\ ~ BadRate(rate)
          /\ wallet_fund_and_sign([recipients |-> <<>>, data |-> len, send_all |-> FALSE, fee_per_kb |-> rate])

LibraryCall == Starts /\ \E p \in Batches : wallet_fund_and_sign(p)

(* The builder gave up.                                                     *)
BuildFails == pc = "failed" /\ Refuse

(* The listing, or any request before the broadcast, fails.                 *)
RequestFails == pc = "check" /\ Refuse

Spend ==
  [ins |-> {utxos[i].outpoint : i \in 1..sel_count},
   outs |-> [i \in 1..Len(result.outputs) |->
               <<IF result.change > 0 /\ i = Len(result.outputs) THEN "own" ELSE "payee", result.outputs[i]>>],
   confirmed |-> <<>>]

-----------------------------------------------------------------------------
(* cpfp: the parent's raw transaction gives the value; whose output it is   *)
(* and whether it is spent is left to the node.                             *)
Cpfp ==
  /\ Starts
  /\ \E t \in 1..listed, v \in Vouts, fee \in ChildFees :
       LET vout == v % VOUT_RANGE
           out == txs[t].outs[vout + 1][2] - fee IN
       IF vout >= Len(txs[t].outs) THEN Refuse
       ELSE IF out < 1000 \/ fee > 50000 THEN Refuse
       ELSE /\ child' = <<<<t, vout>>, out, fee>> /\ pc' = "child"
            /\ UNCHANGED <<spend_vars, chain_vars, reports>>
Child == [ins |-> {child[1]}, outs |-> <<<<"own", child[2]>>>>, confirmed |-> <<>>]

-----------------------------------------------------------------------------
(* confirm_mainnet_broadcast, then the broadcast.  (Mutant: the gate only   *)
(* changes what is printed.)                                                *)
Signed == IF pc = "child" THEN Child ELSE Spend
(* What was printed: a sweep sends what is left after the fee, a payment    *)
(* the amounts asked for, a child nothing.                                  *)
Sent == IF pc = "child" THEN 0 ELSE IF plan.send_all THEN result.total_out ELSE Total(plan.recipients)
Fee == IF pc = "child" THEN child[3] ELSE result.fee
Accepted(what) ==
  /\ pc \in {"done", "child"} /\ NodeAccepts(Signed)
  /\ txs' = Append(txs, Signed) /\ UNCHANGED listed
  /\ Report(what, Sent, Fee)

DryRun_sends ==
  \/ Accepted("dry run")
  \/ pc \in {"done", "child"} /\ ~ NodeAccepts(Signed) /\ Refuse
DryRun ==
  pc \in {"done", "child"} /\ Report("dry run", Sent, Fee) /\ UNCHANGED chain_vars

Broadcast == Accepted("sent")
(* Accepted, and the answer is lost or is an error.                         *)
BroadcastLost == Accepted("unknown")
BroadcastRefused ==
  /\ pc \in {"done", "child"} /\ ~ NodeAccepts(Signed)
  /\ Report("unknown", Sent, Fee) /\ UNCHANGED chain_vars

(* The listing catches up.                                                  *)
List == listed < Len(txs) /\ listed' = listed + 1 /\ UNCHANGED <<pc, spend_vars, txs, child, reports>>

Init ==
  /\ pc = "idle" /\ Idle /\ child = <<>> /\ reports = <<>> /\ listed = 1
  /\ \E w \in Wallets :
       txs = <<[ins |-> {}, outs |-> [i \in 1..Len(w) |-> <<"own", w[i][1]>>],
                confirmed |-> [i \in 1..Len(w) |-> w[i][2]]]>>

Builder == Build /\ UNCHANGED <<chain_vars, child, reports>>
Ended == pc = "idle" /\ Len(reports) = MaxCommands /\ UNCHANGED vars

Next ==
  \/ Pay \/ OpReturn \/ LibraryCall \/ Cpfp \/ RequestFails \/ Builder \/ BuildFails
  \/ DryRun \/ Broadcast \/ BroadcastLost \/ BroadcastRefused \/ List \/ Ended

Spec == Init /\ [][Next]_vars

-----------------------------------------------------------------------------
(* The books balance: after any series of commands the coins the address    *)
(* has left at the node are what it was funded with, less the amounts and   *)
(* fees the commands that reported success had printed, and less those of   *)
(* some of the commands whose broadcast failed or was not answered: such a  *)
(* command cost what it printed or nothing.  Neither a listing that lags    *)
(* nor dropped change, a sweep or a child makes the printed numbers wrong,  *)
(* and a dry run or a refused command costs nothing.                        *)
Funded == SumFunction([o \in Outpoints(1) |-> Out(o)[2]])
Balance == SumFunction([o \in Unspent(Len(txs)) |-> Out(o)[2]])
CostOf(I) == SumFunction([i \in I |-> reports[i].sent + reports[i].fee])
Reported(what) == {i \in 1..Len(reports) : reports[i].what = what}
BooksBalance ==
  \E taken \in SUBSET Reported("unknown") : Balance = Funded - CostOf(Reported("sent") \cup taken)
=============================================================================
