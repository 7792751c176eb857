--------------------------- MODULE IdentityChain ---------------------------
(***************************************************************************)
(* The blockchain as the identity code sees it: a growing list of          *)
(* transactions, each of which creates an identity (deploy) or spends the  *)
(* identity output of an earlier one under the AgentTea contract.  A txid  *)
(* is a position in the list.  Every party that holds the right keys can   *)
(* spend: agentd, but also the other tools built on the same builders      *)
(* (stake, slash) and the guardians.                                       *)
(***************************************************************************)
EXTENDS AgentTea, Sequences, FiniteSetsExt

CONSTANTS MaxTx,        \* bound: transactions on the chain
          StartClock,   \* wall clock at the start, in the units of WindowDuration
          MaxClock,     \* bound: last wall clock value
          MaxAmount,    \* bound: largest amount tried
          MaxApprovals  \* bound: guardian signatures in existence

ASSUME ChainBounds ==
  /\ MaxTx \in Nat /\ StartClock \in Nat /\ MaxClock \in Nat /\ MaxAmount \in Nat
  /\ MaxApprovals \in Nat

VARIABLES chain, clock,
          approvals     \* guardian signatures that exist, used or not

chainVars == <<chain, clock, approvals>>

Ops == {"deploy", "action", "stake", "slash", "recover", "revoke"}
Amounts == 0..MaxAmount
Sigs == [by : Guardians, gen : 1..MaxTx, msg : [newAgent : Keys, count : Nat]]

(* A signed transaction before it is broadcast; prev = 0 for a deploy.      *)
Tx == [op : Ops, prev : 0..MaxTx, out : IdentityOut \cup {NoOut}, signer : Keys,
       amount : Amounts, now : Nat, attested : BOOLEAN, sigs : SUBSET Sigs]

Txids == 1..Len(chain)
Spent(t) == \E u \in Txids : chain[u].prev = t
Live(t) == t \in Txids /\ chain[t].out # NoOut /\ ~ Spent(t)

(* The spend validity a node checks: the output exists and is unspent, and  *)
(* the contract's public function accepts.                                  *)
Valid(tx) ==
  \/ /\ tx.op = "deploy" /\ tx.prev = 0
     /\ \E k \in Keys : tx.out = locking_script(k, genesis_state)
  \/ /\ tx.prev # 0 /\ Live(tx.prev)
     /\ LET prev == chain[tx.prev].out
            gen  == chain[tx.prev].gen IN
        \/ tx.op = "action" /\ tx.now <= clock
           /\ executeAction(prev, tx.signer, tx.amount, tx.now, tx.attested, tx.out)
        \/ tx.op = "stake" /\ stake(prev, tx.out)
        \/ tx.op = "slash" /\ slashValidator(prev, tx.out)
        \/ tx.op = "recover" /\ tx.out # NoOut
           /\ recover(prev, gen, tx.out.agent, tx.sigs, tx.out)
        \/ tx.op = "revoke" /\ revoke(tx.signer, tx.out)

Gen(tx) == IF tx.prev = 0 THEN Len(chain) + 1 ELSE chain[tx.prev].gen

(* The chain keeps of a transaction what a later reader can see in it.      *)
Mined(tx) == [op |-> tx.op, prev |-> tx.prev, gen |-> Gen(tx), out |-> tx.out,
              amount |-> tx.amount, now |-> tx.now, sigs |-> tx.sigs]

Accept(tx) ==
  /\ Len(chain) < MaxTx
  /\ Valid(tx)
  /\ chain' = Append(chain, Mined(tx))

-----------------------------------------------------------------------------
Unsigned(op, prev, out) ==
  [op |-> op, prev |-> prev, out |-> out, signer |-> Elder, amount |-> 0,
   now |-> 0, attested |-> FALSE, sigs |-> {}]

(* Spends by parties other than agentd.  They may present any state output; *)
(* what the contract accepts is up to Valid.                                *)
OtherDeploy ==
  /\ \E k \in Keys : Accept(Unsigned("deploy", 0, locking_script(k, genesis_state)))
  /\ UNCHANGED <<clock, approvals>>

OtherAction(t) ==
  /\ \E a \in Amounts, now \in 0..clock, att \in BOOLEAN :
       LET out == chain[t].out IN
       Accept([Unsigned("action", t, [out EXCEPT !.m = apply_action(out.m, a, now)])
               EXCEPT !.signer = out.agent, !.amount = a, !.now = now, !.attested = att])
  /\ UNCHANGED <<clock, approvals>>

OtherStake(t) ==
  /\ Accept(Unsigned("stake", t, chain[t].out))
  /\ UNCHANGED <<clock, approvals>>

OtherSlash(t) ==
  /\ Accept(Unsigned("slash", t, NoOut))
  /\ UNCHANGED <<clock, approvals>>

OtherRecover(t) ==
  /\ \E k \in Keys :
     \E sigs \in kSubset(RecoveryThreshold, {a \in approvals : a.msg.newAgent = k}),
        code \in Keys, n \in 0..1 :
       Accept([Unsigned("recover", t, [chain[t].out EXCEPT !.code = code, !.agent = k,
                                                           !.m.recoveryCount = @ + n])
               EXCEPT !.sigs = sigs])
  /\ UNCHANGED <<clock, approvals>>

OtherRevoke(t) ==
  /\ Accept(Unsigned("revoke", t, NoOut))
  /\ UNCHANGED <<clock, approvals>>

(* A guardian signs the rotation of a live identity to a new key, at the    *)
(* recovery counter it reads on the chain.  (It may do so for any identity, *)
(* also for one whose guardian keys were thrown away at deploy.)            *)
GuardianSigns(t) ==
  /\ Cardinality(approvals) < MaxApprovals
  /\ \E g \in Guardians, k \in Keys :
       approvals' = approvals \cup
         {[by |-> g, gen |-> chain[t].gen, msg |-> recoveryMsg(k, chain[t].out.m.recoveryCount)]}
  /\ UNCHANGED <<chain, clock>>

Tick == clock < MaxClock /\ clock' = clock + 1 /\ UNCHANGED <<chain, approvals>>

ChainInit == chain = <<>> /\ clock = StartClock /\ approvals = {}

Environment ==
  \/ \E t \in Txids :
       /\ Live(t)
       /\ \/ OtherAction(t) \/ OtherStake(t) \/ OtherSlash(t)
          \/ OtherRecover(t) \/ OtherRevoke(t) \/ GuardianSigns(t)
  \/ Tick

ChainNext == OtherDeploy \/ Environment
ChainSpec == ChainInit /\ [][ChainNext]_chainVars

-----------------------------------------------------------------------------
(* Every identity is a single thread of spends, so the history of a         *)
(* transaction is everything of its identity up to it.                      *)
MinedTx == [op : Ops, prev : 0..MaxTx, gen : 1..MaxTx, out : IdentityOut \cup {NoOut},
            amount : Amounts, now : Nat, sigs : SUBSET Sigs]

Upto(t) == {u \in Txids : chain[u].gen = chain[t].gen /\ u <= t}
Of(op, t) == {u \in Upto(t) : chain[u].op = op}
Meter(t) == chain[t].out.m

(* An action that rolled the window.                                        *)
Opens(t) == chain[t].op = "action" /\ Meter(t).windowStart # Meter(chain[t].prev).windowStart
WindowOf(t) == {u \in Of("action", t) : \A w \in Of("action", t) : Opens(w) => w <= u}
Amount(t) == chain[t].amount

(* Types of the chain, the clock and the guardians' signatures.             *)
ChainTypeOK ==
  /\ chain \in Seq(MinedTx) /\ Len(chain) <= MaxTx
  /\ clock \in Nat
  /\ approvals \subseteq Sigs

(* Metering, stated on the receipts alone: the actions between two window   *)
(* rolls never add up to more than dailyLimit, each is within perTxLimit,   *)
(* and two rolls of one identity are at least windowDuration of claimed     *)
(* time apart (executeAction's window arithmetic).                          *)
WindowBudget ==
  \A t \in Txids : chain[t].op = "action" =>
    /\ MapThenSumSet(Amount, WindowOf(t)) <= DailyLimit
    /\ Amount(t) \in 1..PerTxLimit
    /\ Opens(t) => \A w \in Of("action", t) \ {t} :
                      Opens(w) => chain[t].now - chain[w].now >= WindowDuration

(* The counters committed in an identity output are the number of actions   *)
(* and of recoveries in its history: receipt numbers have no gap and no     *)
(* repetition, and the tier follows from them.                              *)
MetersCountHistory ==
  \A t \in Txids : chain[t].out # NoOut =>
    /\ Meter(t).txCount = Cardinality(Of("action", t))
    /\ Meter(t).recoveryCount = Cardinality(Of("recover", t))
    /\ Meter(t).tier = 2 => Meter(t).txCount >= GraduationThreshold

(* A guardian quorum is spent by the recovery it authorised: no signature   *)
(* serves two recoveries (recoveryCount is the replay nonce).               *)
ApprovalUsedOnce ==
  \A t, u \in Txids :
    t # u /\ chain[t].op = "recover" /\ chain[u].op = "recover"
      => chain[t].sigs \cap chain[u].sigs = {}

(* The code part of every identity output is the one it was deployed with,  *)
(* whatever recoveries rotated the @state agent.                            *)
CodeFrozen ==
  \A t \in Txids : chain[t].out # NoOut =>
    chain[t].out.code = chain[chain[t].gen].out.code

-----------------------------------------------------------------------------
(* The object an identity's transactions add up to: the state in the one    *)
(* output of its thread that nothing has spent.                             *)
Tip(g) == CHOOSE t \in Txids : chain[t].gen = g /\ ~ Spent(t)
Identity(g) ==
  LET thread == {t \in Txids : chain[t].gen = g}
      out == chain[Tip(g)].out IN
  IF thread = {} THEN [phase |-> "absent", agent |-> Elder, m |-> genesis_state]
  ELSE IF out = NoOut THEN [phase |-> "ended", agent |-> Elder, m |-> genesis_state]
  ELSE [phase |-> "live", agent |-> out.agent, m |-> out.m]

Ledger == INSTANCE IdentityLedger
            WITH Ids <- 1..MaxTx, ident <- [g \in 1..MaxTx |-> Identity(g)]

(* Every accepted transaction is one atomic operation of the abstract       *)
(* identity, or leaves it alone (stake): concurrent spenders are            *)
(* serialised by the output they compete for.                               *)
ImplementsLedger == Ledger!LedgerSpec
=============================================================================
