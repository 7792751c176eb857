----------------------------- MODULE Lifecycle -----------------------------
(***************************************************************************)
(* The three scripts that put an identity on the chain from a funded       *)
(* address: deploy (scripts/deploy_lib.c, one transaction), the live agent *)
(* smoke (scripts/live_agent_smoke_lib.c) and the third entry              *)
(* (scripts/bonsai_third_entry_lib.c), which deploy, act once and revoke.  *)
(* Runs share the funding address, the key file and the chain, and see the *)
(* chain through WhatsOnChain (chainSources/woc_client.c), whose listing   *)
(* lags its spent and status index, which lags the node.  Amounts are      *)
(* satoshis and the fixed rates are the code's.                            *)
(***************************************************************************)
EXTENDS ChainFunding, FiniteSetsExt

CONSTANTS Runs, Script,      \* the runs and which script each one is
          Wallets,           \* bound: coins the funding address starts with
          fee_per_kb,        \* rates of deploy: FEE_PER_KB, the explorer's quote, or 50
          script_bytes,      \* length of the identity's locking script
          MAX_FUNDING_INPUTS,\* the fin[16] of the smoke, scaled down
          MaxRuns,           \* bound: runs of a behaviour
          NoTx

ASSUME LifecycleConstants ==
  /\ Script \in [Runs -> {"deploy", "smoke", "bonsai"}] /\ NoTx \notin Runs
  /\ \A w \in Wallets : w \in Seq(Nat)
  /\ fee_per_kb \subseteq Nat /\ script_bytes \in Nat /\ MAX_FUNDING_INPUTS \in Nat /\ MaxRuns \in Nat

VARIABLES
  txs,        \* transactions the node accepted; the first one holds the coins
  mined,      \* how many of them are in a block
  indexed,    \* how many the status and spent endpoints know
  listed,     \* how many the address listing knows
  keyfile,    \* EPHEMERAL_FILE: "none", "bad", or the run that made the keys
  pc, pend,   \* per run: its step, and the signed transaction to send
  last,       \* per run: txid of its last broadcast
  built       \* per run: transactions written by a dry build

vars == <<txs, mined, indexed, listed, keyfile, pc, pend, last, built>>

IDENTITY_SATS == 1

-----------------------------------------------------------------------------
(* Transactions, the node and WhatsOnChain.                                 *)
P2PKH(sats) == [type |-> "p2pkh", sats |-> sats]
State == [type |-> "state", sats |-> IDENTITY_SATS]
Receipt == [type |-> "opreturn", sats |-> 0]
Outpoints(s) == {c.outpoint : c \in ToSet(s)}

Out(o) == txs[o[1]].outs[o[2] + 1]
Exists(o) == o[1] \in 1..Len(txs) /\ o[2] \in 0..(Len(txs[o[1]].outs) - 1)
SpentBy(n) == UNION {txs[t].ins : t \in 1..n}
SatsOf(outs) == FoldSeq(LAMBDA o, sum : o.sats + sum, 0, outs)

(* What revoke and executeAction demand of the outputs, given the change    *)
(* amount pushed with the call.                                             *)
ContractAccepts(tx) ==
  LET change == IF tx.change > 0 THEN <<P2PKH(tx.change)>> ELSE <<>> IN
  CASE tx.op = "revoke" -> tx.outs = <<P2PKH(IDENTITY_SATS)>> \o change
    [] tx.op = "action" -> tx.outs = <<State, Receipt>> \o change
    [] OTHER -> TRUE
NodeAccepts(tx) ==
  /\ \A o \in tx.ins : Exists(o) /\ o \notin SpentBy(Len(txs))
  /\ ContractAccepts(tx)

(* woc_client_list_utxos: P2PKH outputs of the funding address.             *)
list_utxos ==
  {[outpoint |-> o, sats |-> Out(o).sats, confirmed |-> o[1] <= mined] :
     o \in {o \in UNION {{<<t, v>> : v \in 0..(Len(txs[t].outs) - 1)} : t \in 1..listed} :
              Out(o).type = "p2pkh" /\ o \notin SpentBy(listed)}}

(* woc_client_tx_status                                                     *)
tx_status(t) == interpret_tx_status(t <= indexed, IF t <= indexed /\ t <= mined THEN 1 ELSE 0)

-----------------------------------------------------------------------------
(* Building.  A set of results: empty when the builder refuses.             *)
Tx(op, r, ins, outs, change, fee) ==
  [op |-> op, by |-> r, ins |-> ins, outs |-> outs, change |-> change, fee |-> fee]

(* append_change_fixed_fee: change of at least one satoshi, else none.      *)
append_change_fixed_fee(outs, total_in, fee) ==
  LET available == total_in - SatsOf(outs) IN
  IF available < fee THEN {}
  ELSE IF available - fee >= 1 THEN {Append(outs, P2PKH(available - fee))} ELSE {outs}

(* What the smoke and the third entry take for the change amount: the last  *)
(* P2PKH output, the last output whatever it is.                            *)
last_output_change(outs) == IF Last(outs).type = "p2pkh" THEN Last(outs).sats ELSE 0
last_output_sats(outs) == Last(outs).sats
change_amount(r, outs) == IF Script[r] = "bonsai" THEN last_output_sats(outs) ELSE last_output_change(outs)

(* (Mutant: the change is seeded without the identity's own value.)         *)
build_agent_tea_action_underfunded(identity, funding, fee) ==
  append_change_fixed_fee(<<State, Receipt>>, funding_utxos_total(funding), fee)
build_agent_tea_action(identity, funding, fee) ==
  append_change_fixed_fee(<<State, Receipt>>, funding_utxos_total(funding) + IDENTITY_SATS, fee)
build_agent_tea_revoke(identity, funding, fee) ==
  append_change_fixed_fee(<<P2PKH(IDENTITY_SATS)>>, funding_utxos_total(funding) + IDENTITY_SATS, fee)

Fail(r) ==
  /\ pc' = [pc EXCEPT ![r] = "failed"] /\ pend' = [pend EXCEPT ![r] = NoTx]
  /\ UNCHANGED <<txs, mined, indexed, listed, keyfile, last, built>>

(* A signed transaction is ready to be sent, or the step fails.             *)
Ready(r, candidates) ==
  \/ \E tx \in candidates :
       /\ pend' = [pend EXCEPT ![r] = tx] /\ pc' = [pc EXCEPT ![r] = "send"]
       /\ UNCHANGED <<txs, mined, indexed, listed, keyfile, last, built>>
  \/ candidates = {} /\ Fail(r)

Over == {"off", "dry", "done", "failed"}
identity(r) == <<last[r], 0>>

-----------------------------------------------------------------------------
(* Keys.  The smoke and the third entry share EPHEMERAL_FILE: missing or    *)
(* malformed, new keys are made and the file is replaced; nothing locks it. *)
LoadKeys(r) ==
  /\ pc[r] = "start"
  /\ pc' = [pc EXCEPT ![r] = IF Script[r] # "deploy" /\ keyfile \in {"none", "bad"}
                             THEN "write_keys" ELSE "deploy"]
  /\ UNCHANGED <<txs, mined, indexed, listed, keyfile, pend, last, built>>

WriteKeys(r) ==
  /\ pc[r] = "write_keys"
  /\ keyfile' = r /\ pc' = [pc EXCEPT ![r] = "deploy"]
  /\ UNCHANGED <<txs, mined, indexed, listed, pend, last, built>>

(* The write fails, before or after the file was cut to nothing: the end    *)
(* for the smoke, ignored by the third entry.                               *)
WriteKeysFails(r) ==
  /\ pc[r] = "write_keys"
  /\ pc' = [pc EXCEPT ![r] = IF Script[r] = "smoke" THEN "failed" ELSE "deploy"]
  /\ keyfile' \in {keyfile, "bad"}
  /\ UNCHANGED <<txs, mined, indexed, listed, pend, last, built>>

(* Without CONFIRM_MAINNET_BROADCAST the run stops here, with success.      *)
DryRun(r) ==
  /\ pc[r] = "deploy" /\ pc' = [pc EXCEPT ![r] = "dry"]
  /\ UNCHANGED <<txs, mined, indexed, listed, keyfile, pend, last, built>>

(* deploy_run: prose, charter signature and genesis script come before; the *)
(* change is kept when it is not dust.                                      *)
deploy_tx(r, funding, fee) ==
  LET change == funding_utxos_total(funding) - IDENTITY_SATS - fee IN
  Tx("deploy", r, Outpoints(funding),
     <<State>> \o (IF change >= FEE_DUST_FLOOR THEN <<P2PKH(change)>> ELSE <<>>), 0, fee)
DeployRun(r) ==
  /\ pc[r] = "deploy" /\ Script[r] = "deploy"
  /\ Ready(r, UNION {{deploy_tx(r, funding, fee) : funding \in select_funding(list_utxos, IDENTITY_SATS + fee)} :
                     fee \in UNION {recommended(script_bytes + 1000, rate) : rate \in fee_per_kb}})

(* live_agent_smoke_broadcast and _drybuild: the change is kept from one    *)
(* satoshi on.                                                              *)
FundingInputs(funding) == {f \in {funding} : Len(f) <= MAX_FUNDING_INPUTS}
smoke_deploy_tx(r, funding, fee) ==
  {Tx("deploy", r, Outpoints(f), outs, 0, fee) :
     f \in FundingInputs(funding),
     outs \in append_change_fixed_fee(<<State>>, funding_utxos_total(funding), fee)}
smoke_deploys(r) ==
  UNION {UNION {smoke_deploy_tx(r, funding, fee) :
                funding \in select_funding(list_utxos, IDENTITY_SATS + fee)} :
         fee \in recommended(script_bytes + 400, 100)}
SmokeDeploy(r) == pc[r] = "deploy" /\ Script[r] = "smoke" /\ Ready(r, smoke_deploys(r))

action_tx(r, ident, funding, fee) ==
  {Tx("action", r, {ident} \cup Outpoints(funding), outs, change_amount(r, outs), fee) :
     outs \in build_agent_tea_action(ident, funding, fee)}
revoke_tx(r, ident, funding, fee) ==
  {Tx("revoke", r, {ident} \cup Outpoints(funding), outs, change_amount(r, outs), fee) :
     outs \in build_agent_tea_revoke(ident, funding, fee)}

SmokeAction(r) ==
  /\ pc[r] = "action" /\ Script[r] = "smoke"
  /\ Ready(r, UNION {UNION {UNION {action_tx(r, identity(r), f, fee) : f \in FundingInputs(funding)} :
                            funding \in select_funding(list_utxos, fee)} :
                     fee \in recommended(2 * script_bytes + 4000, 100)})

SmokeRevoke(r) ==
  /\ pc[r] = "revoke" /\ Script[r] = "smoke"
  /\ Ready(r, UNION {UNION {UNION {revoke_tx(r, identity(r), f, fee) : f \in FundingInputs(funding)} :
                            funding \in select_funding(list_utxos, fee)} :
                     fee \in recommended(script_bytes + 2500, 100)})

(* A dry build signs all three without sending: the change of one funds the *)
(* next, so it has to exist for the first two.  Unsent txids are negative.  *)
Thread(tx, id) == <<[outpoint |-> <<id, Len(tx.outs) - 1>>, sats |-> Last(tx.outs).sats, confirmed |-> FALSE]>>
HasChange(tx) == Last(tx.outs).type = "p2pkh"
dry_builds(r, d, fa, fr) ==
  {<<d, v>> : v \in revoke_tx(r, <<-1, 0>>, Thread(d, -1), fr)}   \* SKIP_ACTION
  \cup UNION {{<<d, a, v>> : v \in revoke_tx(r, <<-2, 0>>, Thread(a, -2), fr)} :
              a \in {x \in action_tx(r, <<-1, 0>>, Thread(d, -1), fa) : HasChange(x)}}
SmokeDryBuild(r) ==
  /\ pc[r] = "deploy" /\ Script[r] = "smoke"
  /\ \E d \in smoke_deploys(r), fa \in recommended(2 * script_bytes + 4000, 100),
        fr \in recommended(script_bytes + 2500, 100) :
       HasChange(d) /\ \E b \in dry_builds(r, d, fa, fr) : built' = [built EXCEPT ![r] = b]
  /\ pc' = [pc EXCEPT ![r] = "done"]
  /\ UNCHANGED <<txs, mined, indexed, listed, keyfile, pend, last>>

(* run_lifecycle of the third entry: one verified coin per step, taken      *)
(* without asking whether it is large enough.                               *)
fund_from == pick_funding(list_utxos, SpentBy(indexed))
BonsaiDeploy(r) ==
  /\ pc[r] = "deploy" /\ Script[r] = "bonsai"
  /\ Ready(r, UNION {{Tx("deploy", r, Outpoints(p[1]), outs, 0, p[2]) :
                        outs \in append_change_fixed_fee(<<State>>, funding_utxos_total(p[1]), p[2])} :
                     p \in fund_from \X recommended(script_bytes + 400, 100)})
BonsaiAction(r) ==
  /\ pc[r] = "action" /\ Script[r] = "bonsai"
  /\ Ready(r, UNION {action_tx(r, identity(r), p[1], p[2]) :
                     p \in fund_from \X recommended(2 * script_bytes + 3000, 100)})
BonsaiRevoke(r) ==
  /\ pc[r] = "revoke" /\ Script[r] = "bonsai"
  /\ Ready(r, UNION {revoke_tx(r, identity(r), p[1], p[2]) :
                     p \in fund_from \X recommended(script_bytes + 2000, 100)})

-----------------------------------------------------------------------------
(* woc_client_broadcast and woc_client_wait_for_confirmation.               *)
NoWait(r) == <<Script[r], pend[r].op>> \in {<<"deploy", "deploy">>, <<"bonsai", "revoke">>}
Accept(r, next) ==
  /\ pc[r] = "send" /\ NodeAccepts(pend[r])
  /\ txs' = Append(txs, pend[r])
  /\ last' = [last EXCEPT ![r] = Len(txs) + 1]
  /\ pc' = [pc EXCEPT ![r] = next] /\ pend' = [pend EXCEPT ![r] = NoTx]
  /\ UNCHANGED <<mined, indexed, listed, keyfile, built>>

Send(r) == Accept(r, IF NoWait(r) THEN "done" ELSE "wait")
(* The node accepts and the answer is lost or is an error.                  *)
SendLost(r) == Accept(r, "failed")
(* (Mutant: a refusal is not noticed.)                                      *)
SendRefused_unnoticed(r) ==
  /\ pc[r] = "send" /\ ~ NodeAccepts(pend[r])
  /\ pc' = [pc EXCEPT ![r] = IF NoWait(r) THEN "done" ELSE "failed"]
  /\ UNCHANGED <<txs, mined, indexed, listed, keyfile, pend, last, built>>
SendRefused(r) == pc[r] = "send" /\ ~ NodeAccepts(pend[r]) /\ Fail(r)

AfterWait(r) == CASE txs[last[r]].op = "deploy" -> {"action", "revoke"}   \* SKIP_ACTION
                  [] txs[last[r]].op = "action" -> {"revoke"}
                  [] OTHER -> {"done"}
(* (Mutant: being in the mempool is enough.)                                *)
Confirmed_in_mempool(r) ==
  /\ pc[r] = "wait" /\ tx_status(last[r]) \in {"MEMPOOL", "CONFIRMED"}
  /\ \E next \in AfterWait(r) : pc' = [pc EXCEPT ![r] = next]
  /\ UNCHANGED <<txs, mined, indexed, listed, keyfile, pend, last, built>>
Confirmed(r) ==
  /\ pc[r] = "wait" /\ tx_status(last[r]) = "CONFIRMED"
  /\ \E next \in AfterWait(r) : pc' = [pc EXCEPT ![r] = next]
  /\ UNCHANGED <<txs, mined, indexed, listed, keyfile, pend, last, built>>

(* Not in the index: taken for dropped, at the first poll already; or the   *)
(* deadline has passed.  (Mutant: the wait has no deadline.)                *)
GiveUp_only_when_dropped(r) == pc[r] = "wait" /\ tx_status(last[r]) = "UNKNOWN" /\ Fail(r)
GiveUp(r) == pc[r] = "wait" /\ tx_status(last[r]) \in {"UNKNOWN", "MEMPOOL"} /\ Fail(r)

(* A request fails, or the process is killed.                               *)
Breaks(r) == pc[r] \notin Over /\ Fail(r)

-----------------------------------------------------------------------------
Lag == <<txs, keyfile, pc, pend, last, built>>
Mine == mined < Len(txs) /\ mined' = mined + 1 /\ UNCHANGED <<indexed, listed, Lag>>
Index == indexed < Len(txs) /\ indexed' = indexed + 1 /\ UNCHANGED <<mined, listed, Lag>>
List == listed < indexed /\ listed' = listed + 1 /\ UNCHANGED <<mined, indexed, Lag>>

Ended == (\A r \in Runs : pc[r] \in Over) /\ UNCHANGED vars

Init ==
  /\ \E w \in Wallets :
       txs = <<Tx("coins", NoTx, {}, [i \in 1..Len(w) |-> P2PKH(w[i])], 0, 0)>>
  /\ mined \in 0..1 /\ indexed = 1 /\ listed = 1
  /\ keyfile \in {"none", "bad"} \cup Runs
  /\ \E active \in SUBSET Runs :
       /\ Cardinality(active) <= MaxRuns
       /\ pc = [r \in Runs |-> IF r \in active THEN "start" ELSE "off"]
  /\ pend = [r \in Runs |-> NoTx]
  /\ last = [r \in Runs |-> 0] /\ built = [r \in Runs |-> <<>>]

Step(r) ==
  \/ LoadKeys(r) \/ WriteKeys(r) \/ WriteKeysFails(r) \/ DryRun(r)
  \/ DeployRun(r) \/ SmokeDeploy(r) \/ SmokeAction(r) \/ SmokeRevoke(r) \/ SmokeDryBuild(r)
  \/ BonsaiDeploy(r) \/ BonsaiAction(r) \/ BonsaiRevoke(r)
  \/ Send(r) \/ SendLost(r) \/ SendRefused(r) \/ Confirmed(r) \/ GiveUp(r)

Next == Mine \/ Index \/ List \/ Ended \/ \E r \in Runs : Step(r) \/ Breaks(r)

(* A process keeps running and its waits have a deadline; nothing is        *)
(* assumed of miners or of the index.                                       *)
Spec == Init /\ [][Next]_vars /\ \A r \in Runs : WF_vars(Step(r))

-----------------------------------------------------------------------------
(* Every satoshi is accounted for: an accepted transaction spends existing  *)
(* coins once and pays exactly the fee of its send-time window, plus dust   *)
(* only where the deploy script drops it; so does a dry build, each of      *)
(* whose transactions spends what the one before it created.                *)
BuiltOut(b, o) == IF o[1] < 0 THEN b[-o[1]].outs[o[2] + 1] ELSE Out(o)
FeeAdds(tx, sats) ==
  LET paid == sats - SatsOf(tx.outs) IN
  IF Script[tx.by] = "deploy" THEN paid \in tx.fee..(tx.fee + FEE_DUST_FLOOR - 1) ELSE paid = tx.fee
ValueIsAccounted ==
  /\ \A t \in 2..Len(txs) :
       /\ FeeAdds(txs[t], MapThenSumSet(LAMBDA o : Out(o).sats, txs[t].ins))
       /\ \A u \in 2..(t - 1) : txs[t].ins \cap txs[u].ins = {}
  /\ \A r \in Runs : \A i \in 1..Len(built[r]) :
       FeeAdds(built[r][i], MapThenSumSet(LAMBDA o : BuiltOut(built[r], o).sats, built[r][i].ins))

(* A lifecycle that reports success has left nothing alive: the identity it *)
(* deployed went through at most one action and was revoked by the last     *)
(* transaction of the run, whatever the other runs did.                     *)
Mine_of(r) == {t \in 2..Len(txs) : txs[t].by = r}
CompleteMeansRevoked ==
  \A r \in Runs :
    pc[r] = "done" /\ Script[r] # "deploy" /\ built[r] = <<>> =>
      \E d, v \in Mine_of(r) :
        /\ txs[d].op = "deploy" /\ txs[v].op = "revoke" /\ v = last[r]
        /\ \A t \in Mine_of(r) : txs[t].outs[1].type = "state" => <<t, 0>> \in SpentBy(Len(txs))
        /\ Cardinality(Mine_of(r)) \in 2..3

(* "wait for a CONFIRMED parent before the next step" (both lifecycles): no *)
(* transaction is added on top of an unconfirmed identity output.           *)
ParentConfirmed ==
  [][\A t \in Len(txs) + 1..Len(txs') :
       \A o \in txs'[t].ins : Out(o).type = "state" => o[1] <= mined]_vars

(* Every run ends, although miners and the index owe it nothing.            *)
RunsEnd == \A r \in Runs : <>(pc[r] \in Over)
=============================================================================
