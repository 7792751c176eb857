-------------------------- MODULE RicardianThread --------------------------
(***************************************************************************)
(* A RicardianTea identity (artifacts/ricardianTea.scrypt), the builders   *)
(* that spend it (contracts/ricardian_tea.c,                               *)
(* txbuilders/ricardian_tea_tx_builder.c) and the indexer that reads its   *)
(* receipts back (reputation_indexer.c), one request of the indexer at a   *)
(* time while the identity goes on being spent.  The spent index lags the  *)
(* node.  Hashes are the tuples they commit to.                            *)
(***************************************************************************)
EXTENDS Integers, Sequences

CONSTANTS perTxLimit, dailyLimit, windowDuration, graduationThreshold, validatorThreshold,
          Amounts, Times,        \* bounds: amounts and locktimes of a spend
          MaxThread,             \* bound: spends of the identity
          MAX_HOPS, max_hops,    \* hop limits forward and backward
          Foreign                \* a transaction of some other thread

ASSUME ThreadConstants ==
  /\ Amounts \subseteq Int /\ Times \subseteq Nat /\ MaxThread \in Nat
  /\ MAX_HOPS \in Nat /\ max_hops \in Nat /\ Foreign \notin Nat

VARIABLES thread,       \* spends of the identity in order; the genesis is number 0
          tea,          \* the state in the unspent output, or in the last one
          known,        \* how many spends the spent index knows
          walk          \* the indexer's call
threadVars == <<thread, tea, known, walk>>

-----------------------------------------------------------------------------
(* The contract: what each method demands of the outputs before the change. *)
State(s) == [type |-> "state", state |-> s]
P2PKH(who) == [type |-> "p2pkh", to |-> who]
Receipt(r) == [type |-> "receipt", hash |-> r]

tea_genesis_state == [txCount |-> 0, spentInWindow |-> 0, windowStart |-> 0, tier |-> 1, slashCheckpointHash |-> 0]

executeTea(s, amount, attestedLimit, now) ==
  LET rolls == now - s.windowStart >= windowDuration
      spent == (IF rolls THEN 0 ELSE s.spentInWindow) + amount
      next == [s EXCEPT !.txCount = @ + 1, !.spentInWindow = spent,
                        !.windowStart = IF rolls THEN now ELSE @,
                        !.tier = IF s.txCount + 1 >= graduationThreshold /\ @ < 2 THEN 2 ELSE @] IN
  {outs \in {<<State(next), P2PKH("counterparty"), Receipt(<<amount, s.txCount, now>>)>>} :
     /\ amount > 0 /\ amount <= perTxLimit /\ spent <= dailyLimit
     /\ amount >= validatorThreshold => amount <= attestedLimit}    \* the validator signs the limit
updateSlashCheckpoint(s, headers) ==
  {outs \in {<<State([s EXCEPT !.slashCheckpointHash = @ + headers])>>} : headers \in 1..6}
(* A fraud proof whose headers end in the checkpoint.                       *)
slash(s, attAmount, attLimit) == {outs \in {<<P2PKH("reporter")>>} : s.tier = 2 /\ attAmount > attLimit}
revoke == {<<P2PKH("owner")>>}

-----------------------------------------------------------------------------
(* The C side.  (Mutant: the tier is not raised.)                           *)
ricardian_tea_apply_action_ungraded(s, amount, now) ==
  LET rolls == now - s.windowStart >= windowDuration IN
  [s EXCEPT !.windowStart = IF rolls THEN now ELSE @,
            !.spentInWindow = (IF rolls THEN 0 ELSE @) + amount,
            !.txCount = @ + 1]
ricardian_tea_apply_action(s, amount, now) ==
  LET rolls == now - s.windowStart >= windowDuration
      next == [s EXCEPT !.windowStart = IF rolls THEN now ELSE @,
                        !.spentInWindow = (IF rolls THEN 0 ELSE @) + amount,
                        !.txCount = @ + 1] IN
  IF next.txCount >= graduationThreshold /\ s.tier < 2 THEN [next EXCEPT !.tier = 2] ELSE next

ricardian_tea_receipt_hash(s, amount, now) == <<amount, s.txCount, now>>
build_ricardian_tea_execute(s, amount, now) ==
  <<State(ricardian_tea_apply_action(s, amount, now)), P2PKH("counterparty"),
    Receipt(ricardian_tea_receipt_hash(s, amount, now))>>
build_payout_to_pubkey(who) == <<P2PKH(who)>>
build_ricardian_tea_revoke == build_payout_to_pubkey("owner")
build_ricardian_tea_slash == build_payout_to_pubkey("reporter")
build_ricardian_tea_checkpoint(s, new_hash) == <<State([s EXCEPT !.slashCheckpointHash = new_hash])>>

-----------------------------------------------------------------------------
Alive == \A i \in 1..Len(thread) : thread[i][1].type = "state"
SpendTea(built, demanded) ==
  /\ Alive /\ Len(thread) < MaxThread /\ built \in demanded
  /\ thread' = Append(thread, built)
  /\ tea' = IF built[1].type = "state" THEN built[1].state ELSE tea
  /\ UNCHANGED <<known, walk>>

Execute == \E amount, attested \in Amounts, now \in Times :
  SpendTea(build_ricardian_tea_execute(tea, amount, now), executeTea(tea, amount, attested, now))
Checkpoint == \E headers \in 0..1 :
  SpendTea(build_ricardian_tea_checkpoint(tea, tea.slashCheckpointHash + headers), updateSlashCheckpoint(tea, headers))
Slash == \E attAmount, attLimit \in Amounts : SpendTea(build_ricardian_tea_slash, slash(tea, attAmount, attLimit))
Revoke == SpendTea(build_ricardian_tea_revoke, revoke)
IndexSpend == known < Len(thread) /\ known' = known + 1 /\ UNCHANGED <<thread, tea, walk>>

-----------------------------------------------------------------------------
(* The indexer.  A receipt is collected as the number of its transaction.   *)
is_terminal_spend(t) == thread[t][1].type = "p2pkh"
parse_receipt_hash(t) == {i \in 1..Len(thread[t]) : thread[t][i].type = "receipt"} # {}

NoWalk == [dir |-> "none"]
Return(rc, got) == walk' = [walk EXCEPT !.dir = "returned", !.rc = rc, !.got = got]
(* Any error throws away what was collected.                                *)
WalkFails == walk.dir \in {"forward", "backward"} /\ Return("error", <<>>) /\ UNCHANGED <<thread, tea, known>>

BeginForward ==
  /\ walk = NoWalk
  /\ walk' = [dir |-> "forward", way |-> "forward", at |-> 0, hops |-> 0, got |-> <<>>, rc |-> "none",
              seen |-> known]
  /\ UNCHANGED <<thread, tea, known>>
(* One hop: ask for the spender, stop if there is none or it is terminal,   *)
(* collect its receipt if it has one, go on.  The hop limit ends the walk   *)
(* like the tip does.  (Mutant: a spend without receipt ends the walk.)     *)
ForwardHop_by_receipt ==
  /\ walk.dir = "forward"
  /\ LET next == walk.at + 1 IN
     IF walk.hops >= MAX_HOPS \/ next > known \/ is_terminal_spend(next) \/ ~ parse_receipt_hash(next)
     THEN Return("ok", walk.got)
     ELSE walk' = [walk EXCEPT !.at = next, !.hops = @ + 1, !.got = Append(@, next)]
  /\ UNCHANGED <<thread, tea, known>>
ForwardHop ==
  /\ walk.dir = "forward"
  /\ LET next == walk.at + 1 IN
     IF walk.hops >= MAX_HOPS \/ next > known \/ is_terminal_spend(next)
     THEN Return("ok", walk.got)
     ELSE walk' = [walk EXCEPT !.at = next, !.hops = @ + 1,
                               !.got = IF parse_receipt_hash(next) THEN Append(@, next) ELSE @]
  /\ UNCHANGED <<thread, tea, known>>

BeginBackward ==
  /\ walk = NoWalk
  /\ \E tip \in 0..Len(thread) \cup {Foreign} :
       walk' = [dir |-> "backward", way |-> "backward", at |-> tip, hops |-> 0, got |-> <<>>, rc |-> "none",
                seen |-> tip]
  /\ UNCHANGED <<thread, tea, known>>
(* One hop towards the genesis, newest receipt first; reversed at the end.  *)
(* A hop follows the txid of the input whatever output it spends, so a      *)
(* foreign transaction that spends somebody's coin of a thread transaction  *)
(* leads into the thread.                                                   *)
ForeignHop ==
  \/ Return("parse", <<>>)
  \/ \E prev \in 0..Len(thread) \cup {Foreign}, receipt \in BOOLEAN :
       walk' = [walk EXCEPT !.at = prev, !.hops = @ + 1, !.got = IF receipt THEN Append(@, Foreign) ELSE @]
BackwardHop ==
  /\ walk.dir = "backward"
  /\ IF walk.at = 0 THEN Return("ok", [i \in 1..Len(walk.got) |-> walk.got[Len(walk.got) + 1 - i]])
     ELSE IF walk.hops >= max_hops THEN Return("hoplimit", <<>>)
     ELSE IF walk.at = Foreign THEN ForeignHop
     ELSE IF is_terminal_spend(walk.at) THEN Return("parse", <<>>)
     ELSE walk' = [walk EXCEPT !.at = @ - 1, !.hops = @ + 1,
                               !.got = IF parse_receipt_hash(walk.at) THEN Append(@, walk.at) ELSE @]
  /\ UNCHANGED <<thread, tea, known>>
WalkEnds == walk.dir = "returned" /\ walk' = NoWalk /\ UNCHANGED <<thread, tea, known>>

ThreadInit == thread = <<>> /\ tea = tea_genesis_state /\ known = 0 /\ walk = NoWalk
ThreadNext ==
  \/ Execute \/ Checkpoint \/ Slash \/ Revoke \/ IndexSpend
  \/ BeginForward \/ ForwardHop \/ BeginBackward \/ BackwardHop \/ WalkFails \/ WalkEnds

-----------------------------------------------------------------------------
(* "output[0] of an executeTea spend MUST carry these advances or ... the   *)
(* tx is unminable" (ricardian_tea.c): in every state a thread gets into,   *)
(* the builders make what the contract demands, receipt and successor state *)
(* alike; and no two receipts of a thread are the same.                     *)
TeaBuildersFit ==
  /\ \A amount, attested \in Amounts, now \in Times :
       executeTea(tea, amount, attested, now) \subseteq {build_ricardian_tea_execute(tea, amount, now)}
  /\ \A i, j \in 1..Len(thread) :
       i # j /\ parse_receipt_hash(i) /\ parse_receipt_hash(j) => thread[i][3].hash # thread[j][3].hash

(* A history that is returned is whole.  Forward: the receipts of a stretch *)
(* from the genesis that reaches at least as far as the spent index did     *)
(* when the call began, unless the hop limit cut it short.  Backward: all   *)
(* receipts up to the tip, if the tip is of this thread.  Spends without a  *)
(* receipt do not end a walk, and the order is that of the chain.           *)
ReceiptsUpTo(n, got) ==
  /\ {got[i] : i \in 1..Len(got)} = {t \in 1..n : parse_receipt_hash(t)}
  /\ \A i, j \in 1..Len(got) : i < j => got[i] < got[j]
HistoryIsWhole ==
  walk.dir = "returned" /\ walk.rc = "ok" =>
    IF walk.way = "backward"
    THEN walk.seen # Foreign => ReceiptsUpTo(walk.seen, walk.got)
    ELSE \E n \in 0..Len(thread) :
           /\ ReceiptsUpTo(n, walk.got)
           /\ n >= walk.seen \/ n = MAX_HOPS \/ (n < Len(thread) /\ is_terminal_spend(n + 1))

(* reputation_indexer.h of the backward walk: "wrong tip fails loudly,      *)
(* never returns partial".  A tip that is no transaction of the thread is   *)
(* never answered with a history.                                           *)
WrongTipFails ==
  walk.dir = "returned" /\ walk.rc = "ok" /\ walk.way = "backward" => walk.seen # Foreign
=============================================================================
