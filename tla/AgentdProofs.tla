---------------------------- MODULE AgentdProofs ----------------------------
(***************************************************************************)
(* Theorems about the identities of the chain, for any keys, guardians,    *)
(* limits and thresholds and any length of the chain; then about agentd    *)
(* and the files it keeps, for any number of overlapping processes, with   *)
(* kills, power losses, lost answers and failed writes at any point.       *)
(*                                                                         *)
(* The argument on the chain: an accepted spend takes the one output of    *)
(* its identity that nothing has spent (OneTip), so the outputs of an      *)
(* identity are in line and its recovery counter only grows along it,      *)
(* strictly at a recovery (CountsGrow).  The signatures of a recovery name *)
(* the counter it found (SigsMatch); two recoveries with a signature in    *)
(* common would have found the same one.                                   *)
(*                                                                         *)
(* The argument in the files: a file that was ever written is the lineage  *)
(* of an identity up to one of its outputs, and stays so as the chain      *)
(* grows (GoodFile).  A process whose spend the chain took holds a lineage *)
(* that one more transaction extends, and until it has replaced STATE_FILE *)
(* nobody else can know that transaction (Fresh): so no other process can  *)
(* have built on it, and the file it replaces is the one it read.          *)
(***************************************************************************)
EXTENDS Agentd, SumTheorems, SequenceTheorems

(* A transaction belongs to an identity deployed before it or by it.        *)
GenesisFirst == \A t \in Txids : chain[t].gen \in 1..t

(* All but the last transaction of an identity are spent.                   *)
OneTip == \A t, u \in Txids : u < t /\ chain[u].gen = chain[t].gen => Spent(u)

(* The recovery counter along an identity's outputs.                        *)
CountsGrow ==
  \A t, u \in Txids :
    u < t /\ chain[u].gen = chain[t].gen /\ chain[u].out # NoOut /\ chain[t].out # NoOut =>
      /\ Meter(u).recoveryCount <= Meter(t).recoveryCount
      /\ chain[t].op = "recover" => Meter(u).recoveryCount < Meter(t).recoveryCount

(* A recovery used up the counter value its signatures were made for.       *)
SigsMatch ==
  \A t \in Txids : chain[t].op = "recover" =>
    /\ chain[t].out # NoOut
    /\ \A s \in chain[t].sigs :
         s.gen = chain[t].gen /\ s.msg.count + 1 = Meter(t).recoveryCount

(* For the refinement: what is spent came before, and something is not.     *)
PrevFirst == \A t \in Txids : chain[t].prev \in 0..(t - 1)
SomeTip == \A t \in Txids : \E u \in Txids : chain[u].gen = chain[t].gen /\ ~ Spent(u)

ChainInv == /\ ChainTypeOK /\ GenesisFirst /\ OneTip /\ CountsGrow /\ SigsMatch /\ CodeFrozen
            /\ PrevFirst /\ SomeTip

(* What the proofs need to know of a transaction that is broadcast.         *)
Typed(bx) ==
  /\ bx.op \in Ops /\ bx.prev \in 0..MaxTx /\ bx.amount \in Amounts /\ bx.now \in Nat
  /\ bx.sigs \in SUBSET Sigs
  /\ bx.op = "recover" => bx.out.agent \in Keys

-----------------------------------------------------------------------------
(* Metering keeps the types of the meters.                                  *)
LEMMA ApplyActionType ==
  ASSUME NEW m \in Meters, NEW a \in Nat, NEW now \in Nat
  PROVE  apply_action(m, a, now) \in Meters
         /\ apply_action(m, a, now).recoveryCount = m.recoveryCount
  <1> DEFINE start == IF Rolls(m, now) THEN now ELSE m.windowStart
             spent == (IF Rolls(m, now) THEN 0 ELSE m.spentInWindow) + a
             tier  == IF m.txCount + 1 >= GraduationThreshold /\ m.tier < 2 THEN 2 ELSE m.tier
  <1>1. start \in Nat /\ spent \in Nat /\ tier \in 1..2
    <2>1. m.windowStart \in Nat /\ m.spentInWindow \in Nat /\ m.tier \in 1..2
      BY DEF Meters
    <2> QED
      BY <2>1
  <1>2. m.txCount + 1 \in Nat /\ m.recoveryCount \in Nat
    BY DEF Meters
  <1>3. apply_action(m, a, now) =
          [m EXCEPT !.windowStart = start, !.spentInWindow = spent,
                    !.txCount = m.txCount + 1, !.tier = tier]
    BY DEF apply_action
  <1> HIDE DEF start, spent, tier
  <1>4. apply_action(m, a, now) =
          [txCount |-> m.txCount + 1, spentInWindow |-> spent, windowStart |-> start,
           tier |-> tier, recoveryCount |-> m.recoveryCount]
    BY <1>3, Zenon DEF Meters
  <1> QED
    BY <1>1, <1>2, <1>4 DEF Meters

(* What an accepted spend leaves behind is typed, whoever made it: the      *)
(* contract fixes the output up to the new agent of a recovery.             *)
LEMMA OutputType ==
  ASSUME ChainTypeOK, NEW bx, Valid(bx), Typed(bx)
  PROVE  bx.out \in IdentityOut \cup {NoOut}
  <1>1. CASE bx.prev = 0 /\ \E k \in Keys : bx.out = locking_script(k, genesis_state)
    BY <1>1 DEF locking_script, locking_script_ex, genesis_state, IdentityOut, Meters
  <1>2. CASE bx.prev # 0 /\ Live(bx.prev)
    <2> DEFINE prev == chain[bx.prev].out
    <2>1. prev \in IdentityOut
      <3>1. bx.prev \in 1..Len(chain) /\ prev # NoOut
        BY <1>2 DEF Live, Txids
      <3>2. chain[bx.prev] \in MinedTx
        BY <3>1 DEF ChainTypeOK
      <3> QED
        BY <3>1, <3>2 DEF MinedTx
    <2>2. bx.amount \in Nat /\ bx.now \in Nat
      BY ChainBounds DEF Typed, Amounts
    <2>3. CASE bx.op = "action"
      <3>1. bx.out = [prev EXCEPT !.m = apply_action(prev.m, bx.amount, bx.now)]
        BY <1>2, <2>3 DEF Valid, executeAction
      <3>2. prev.m \in Meters
        BY <2>1 DEF IdentityOut
      <3> QED
        BY <2>1, <2>2, <3>1, <3>2, ApplyActionType DEF IdentityOut
    <2>4. CASE bx.op = "recover"
      <3>1. bx.out = [prev EXCEPT !.agent = bx.out.agent, !.m.recoveryCount = @ + 1]
        BY <1>2, <2>4 DEF Valid, recover
      <3>2. [prev.m EXCEPT !.recoveryCount = @ + 1] \in Meters
        BY <2>1 DEF IdentityOut, Meters
      <3>3. bx.out = [code |-> prev.code, agent |-> bx.out.agent,
                      m |-> [prev.m EXCEPT !.recoveryCount = @ + 1]]
        BY <2>1, <3>1 DEF IdentityOut
      <3> QED
        BY <2>1, <2>4, <3>2, <3>3 DEF IdentityOut, Typed
    <2>5. CASE bx.op \in {"stake", "slash", "revoke"}
      BY <1>2, <2>1, <2>5 DEF Valid, stake, slashValidator, revoke
    <2> QED
      BY <1>2, <2>3, <2>4, <2>5 DEF Valid
  <1> QED
    BY <1>1, <1>2 DEF Valid

(* Every step is one accepted transaction, or leaves the chain alone.       *)
LEMMA StepShape ==
  ASSUME ChainTypeOK, ChainNext
  PROVE  \/ UNCHANGED <<clock, approvals>> /\ \E bx : Typed(bx) /\ Accept(bx)
         \/ UNCHANGED chain /\ clock' \in Nat /\ approvals' \subseteq Sigs
  <1> DEFINE Goal == \/ UNCHANGED <<clock, approvals>> /\ \E bx : Typed(bx) /\ Accept(bx)
                     \/ UNCHANGED chain /\ clock' \in Nat /\ approvals' \subseteq Sigs
  <1>0. 0 \in Amounts /\ 0 \in 0..MaxTx /\ {} \in SUBSET Sigs /\ Elder \in Keys
    BY ChainBounds, AgentTeaConstants DEF Amounts
  <1>1. ASSUME NEW op \in Ops \ {"recover"}, NEW prev \in 0..MaxTx, NEW out
        PROVE  Typed(Unsigned(op, prev, out))
    BY <1>0 DEF Typed, Unsigned
  <1>2. CASE OtherDeploy
    BY <1>0, <1>1, <1>2 DEF OtherDeploy, Ops
  <1>3. CASE Tick
    BY <1>3 DEF Tick, ChainTypeOK
  <1>4. ASSUME NEW t \in Txids, Live(t) PROVE t \in 0..MaxTx /\ chain[t].out \in IdentityOut /\ chain[t].gen \in 1..MaxTx
    <2>1. t \in 0..MaxTx /\ chain[t] \in MinedTx /\ chain[t].out # NoOut
      BY <1>4, ChainBounds DEF Live, Txids, ChainTypeOK
    <2> QED
      BY <2>1 DEF MinedTx
  <1>5. ASSUME NEW t \in Txids, Live(t), OtherStake(t) \/ OtherSlash(t) \/ OtherRevoke(t) PROVE Goal
    BY <1>1, <1>4, <1>5 DEF OtherStake, OtherSlash, OtherRevoke, Ops
  <1>6. ASSUME NEW t \in Txids, Live(t), OtherAction(t) PROVE Goal
    <2> DEFINE out(a, now) == [chain[t].out EXCEPT !.m = apply_action(chain[t].out.m, a, now)]
    <2>1. PICK a \in Amounts, now \in 0..clock, att \in BOOLEAN :
             Accept([Unsigned("action", t, out(a, now))
                     EXCEPT !.signer = chain[t].out.agent, !.amount = a, !.now = now, !.attested = att])
      BY <1>6 DEF OtherAction
    <2> DEFINE bx == [Unsigned("action", t, out(a, now))
                      EXCEPT !.signer = chain[t].out.agent, !.amount = a, !.now = now, !.attested = att]
    <2>2. bx.op = "action" /\ bx.prev = t /\ bx.amount = a /\ bx.now = now /\ bx.sigs = {}
      BY DEF Unsigned
    <2>3. now \in Nat
      BY DEF ChainTypeOK
    <2>4. Typed(bx)
      <3> HIDE DEF bx
      <3> QED
        BY <1>4, <1>6, <2>2, <2>3 DEF Typed, Ops
    <2> QED
      BY <1>6, <2>1, <2>4 DEF OtherAction
  <1>7. ASSUME NEW t \in Txids, Live(t), OtherRecover(t) PROVE Goal
    <2>1. PICK k \in Keys, sigs \in SUBSET approvals, code \in Keys, n \in 0..1 :
             Accept([Unsigned("recover", t, [chain[t].out EXCEPT !.code = code, !.agent = k,
                                                                 !.m.recoveryCount = @ + n])
                     EXCEPT !.sigs = sigs])
      <3>1. ASSUME NEW S PROVE kSubset(RecoveryThreshold, S) \subseteq SUBSET S
        BY DEF kSubset
      <3>2. \A k \in Keys : kSubset(RecoveryThreshold, {a \in approvals : a.msg.newAgent = k}) \subseteq SUBSET approvals
        BY <3>1
      <3> QED
        BY <1>7, <3>2 DEF OtherRecover
    <2> DEFINE out == [chain[t].out EXCEPT !.code = code, !.agent = k, !.m.recoveryCount = @ + n]
               bx == [Unsigned("recover", t, out) EXCEPT !.sigs = sigs]
    <2>2. out.agent = k
      BY <1>4, <1>7 DEF IdentityOut
    <2>3. bx.op = "recover" /\ bx.prev = t /\ bx.amount = 0 /\ bx.now = 0 /\ bx.sigs = sigs /\ bx.out = out
      BY DEF Unsigned
    <2>4. sigs \in SUBSET Sigs
      BY DEF ChainTypeOK
    <2>5. Typed(bx)
      <3> HIDE DEF bx, out
      <3> QED
        BY <1>0, <1>4, <1>7, <2>2, <2>3, <2>4 DEF Typed, Ops
    <2> QED
      BY <1>7, <2>1, <2>5 DEF OtherRecover
  <1>8. ASSUME NEW t \in Txids, Live(t), GuardianSigns(t) PROVE Goal
    <2>1. PICK g \in Guardians, k \in Keys :
            approvals' = approvals \cup
              {[by |-> g, gen |-> chain[t].gen, msg |-> recoveryMsg(k, chain[t].out.m.recoveryCount)]}
      BY <1>8 DEF GuardianSigns
    <2>2. recoveryMsg(k, chain[t].out.m.recoveryCount) \in [newAgent : Keys, count : Nat]
      BY <1>4, <1>8 DEF recoveryMsg, IdentityOut, Meters
    <2>3. approvals' \subseteq Sigs
      BY <1>4, <1>8, <2>1, <2>2 DEF Sigs, ChainTypeOK
    <2> QED
      BY <1>8, <2>3 DEF GuardianSigns, ChainTypeOK
  <1> QED
    BY <1>2, <1>3, <1>5, <1>6, <1>7, <1>8 DEF ChainNext, Environment

(* An accepted transaction is put behind the chain and changes nothing else *)
(* on it.                                                                   *)
LEMMA AcceptAppends ==
  ASSUME ChainTypeOK, NEW bx, Typed(bx), Accept(bx)
  PROVE  LET n == Len(chain) + 1 IN
         /\ Len(chain') = n /\ n \in 1..MaxTx /\ Txids' = Txids \cup {n} /\ n \notin Txids
         /\ chain' \in Seq(MinedTx)
         /\ \A t \in Txids : chain'[t] = chain[t]
         /\ chain'[n] = Mined(bx) /\ Mined(bx) \in MinedTx
         /\ Txids \subseteq 1..MaxTx /\ \A t \in Txids : chain[t] \in MinedTx
  <1> DEFINE n == Len(chain) + 1
  <1>1. Len(chain) \in Nat /\ n \in 1..MaxTx /\ Valid(bx) /\ chain' = Append(chain, Mined(bx))
    BY ChainBounds DEF Accept, ChainTypeOK
  <1>2. Txids \subseteq 1..MaxTx /\ \A t \in Txids : chain[t] \in MinedTx
    BY ChainBounds DEF Txids, ChainTypeOK
  <1>3. Mined(bx) \in MinedTx
    <2>1. Gen(bx) \in 1..MaxTx
      <3>1. CASE bx.prev = 0
        BY <1>1, <3>1 DEF Gen
      <3>2. CASE bx.prev # 0
        <4>1. bx.prev \in Txids
          BY <1>1, <3>2 DEF Valid, Live
        <4> QED
          BY <1>2, <3>2, <4>1 DEF Gen, MinedTx
      <3> QED
        BY <3>1, <3>2
    <2>2. bx.out \in IdentityOut \cup {NoOut}
      BY <1>1, OutputType
    <2> QED
      BY <2>1, <2>2 DEF Mined, MinedTx, Typed
  <1>4. chain \in Seq(MinedTx)
    BY DEF ChainTypeOK
  <1>5. /\ chain' \in Seq(MinedTx) /\ Len(chain') = n /\ chain'[n] = Mined(bx)
        /\ \A t \in 1..Len(chain) : chain'[t] = chain[t]
    BY <1>1, <1>3, <1>4
  <1> QED
    BY <1>1, <1>2, <1>3, <1>5 DEF Txids

(* It spends what it says and nothing else, and is itself unspent.          *)
LEMMA AcceptSpends ==
  ASSUME ChainTypeOK, PrevFirst, NEW bx, Typed(bx), Accept(bx)
  PROVE  /\ PrevFirst'
         /\ \A u \in Txids : Spent(u)' <=> Spent(u) \/ u = bx.prev
         /\ \A t \in Txids' : chain'[t].prev # Len(chain) + 1
  <1> DEFINE n == Len(chain) + 1
  <1>1. /\ Txids' = Txids \cup {n} /\ \A t \in Txids : chain'[t] = chain[t]
        /\ chain'[n] = Mined(bx)
    BY AcceptAppends
  <1>2. n \in Nat /\ \A t \in Txids : t \in Nat /\ t >= 1 /\ t < n
    BY DEF Txids, ChainTypeOK
  <1>3. chain'[n].prev = bx.prev /\ bx.prev \in Txids \cup {0}
    BY <1>1 DEF Mined, Accept, Valid, Live
  <1>4. PrevFirst'
    <2>1. chain'[n].prev \in 0..(n - 1)
      BY <1>2, <1>3
    <2>2. \A t \in Txids : chain'[t].prev \in 0..(t - 1)
      BY <1>1 DEF PrevFirst
    <2> QED
      BY <1>1, <2>1, <2>2 DEF PrevFirst
  <1>5. \A u \in Txids : Spent(u)' <=> Spent(u) \/ u = bx.prev
    BY <1>1, <1>3 DEF Spent
  <1>6. \A t \in Txids' : chain'[t].prev # n
    <2>1. \A t \in Txids : chain[t].prev # n
      BY <1>2 DEF PrevFirst
    <2> QED
      BY <1>1, <1>2, <1>3, <2>1
  <1> QED
    BY <1>4, <1>5, <1>6

(* A spend takes the last transaction of its identity, and all the earlier  *)
(* ones are spent: nobody else can have gone on from there.                 *)
LEMMA SpendsTheLast ==
  ASSUME ChainTypeOK, OneTip, NEW p, Live(p)
  PROVE  /\ p \in Txids /\ chain[p].out \in IdentityOut
         /\ \A u \in Txids : chain[u].gen = chain[p].gen => u <= p
  <1>1. p \in Txids /\ chain[p].out # NoOut /\ ~ Spent(p)
    BY DEF Live
  <1>2. chain[p] \in MinedTx
    BY <1>1 DEF ChainTypeOK, Txids
  <1>3. \A u \in Txids : chain[u].gen = chain[p].gen => u <= p
    BY <1>1 DEF OneTip, Txids, ChainTypeOK
  <1> QED
    BY <1>1, <1>2, <1>3 DEF MinedTx

(* What the contract makes of the counter, the code part and the            *)
(* signatures when it accepts a spend.                                      *)
LEMMA SpendAdvances ==
  ASSUME NEW bx, Valid(bx), bx.prev # 0, chain[bx.prev].out \in IdentityOut, bx.out # NoOut,
         bx.amount \in Nat, bx.now \in Nat
  PROVE  LET prev == chain[bx.prev].out IN
         /\ Live(bx.prev) /\ bx.op # "deploy"
         /\ bx.out.code = prev.code
         /\ bx.op # "recover" => bx.out.m.recoveryCount = prev.m.recoveryCount
         /\ bx.op = "recover" =>
              /\ bx.out.m.recoveryCount = prev.m.recoveryCount + 1
              /\ \A s \in bx.sigs : /\ s.gen = chain[bx.prev].gen
                                    /\ s.msg.count = prev.m.recoveryCount
  <1> DEFINE prev == chain[bx.prev].out
  <1>1. prev.m \in Meters
    BY DEF IdentityOut
  <1>2. Live(bx.prev) /\ bx.op # "deploy"
    BY DEF Valid
  <1>3. CASE bx.op = "action"
    <2>1. bx.out = [prev EXCEPT !.m = apply_action(prev.m, bx.amount, bx.now)]
      BY <1>3 DEF Valid, executeAction
    <2>2. bx.out.code = prev.code /\ bx.out.m = apply_action(prev.m, bx.amount, bx.now)
      BY <2>1 DEF IdentityOut
    <2>3. apply_action(prev.m, bx.amount, bx.now).recoveryCount = prev.m.recoveryCount
      BY <1>1, ApplyActionType
    <2> QED
      BY <1>2, <1>3, <2>2, <2>3
  <1>4. CASE bx.op = "recover"
    <2>1. /\ bx.out = [prev EXCEPT !.agent = bx.out.agent, !.m.recoveryCount = @ + 1]
          /\ \A s \in bx.sigs : /\ s.gen = chain[bx.prev].gen
                                /\ s.msg = recoveryMsg(bx.out.agent, prev.m.recoveryCount)
      BY <1>4 DEF Valid, recover
    <2>2. bx.out = [code |-> prev.code, agent |-> bx.out.agent,
                    m |-> [prev.m EXCEPT !.recoveryCount = @ + 1]]
      BY <2>1 DEF IdentityOut
    <2>3. bx.out.code = prev.code /\ bx.out.m.recoveryCount = prev.m.recoveryCount + 1
      BY <1>1, <2>2 DEF Meters
    <2>4. \A s \in bx.sigs : s.gen = chain[bx.prev].gen /\ s.msg.count = prev.m.recoveryCount
      BY <2>1 DEF recoveryMsg
    <2> QED
      BY <1>2, <1>4, <2>3, <2>4
  <1>5. CASE bx.op \in {"stake", "slash", "revoke"}
    <2>1. bx.out = prev
      BY <1>5 DEF Valid, stake, slashValidator, revoke
    <2> QED
      BY <1>2, <1>5, <2>1
  <1> QED
    BY <1>3, <1>4, <1>5 DEF Valid

-----------------------------------------------------------------------------
(* An empty chain satisfies the invariant.                                  *)
LEMMA InitInv == ChainInit => ChainInv
  BY ChainBounds DEF ChainInit, ChainInv, ChainTypeOK, GenesisFirst, OneTip, CountsGrow, SigsMatch,
                     CodeFrozen, PrevFirst, SomeTip, Txids

(* An accepted transaction keeps it, one conjunct at a time.                *)
LEMMA AcceptInv ==
  ASSUME ChainInv, NEW bx, Typed(bx), Accept(bx), UNCHANGED <<clock, approvals>>
  PROVE  ChainInv'
  <1> DEFINE n == Len(chain) + 1
             p == bx.prev
  <1>0. /\ ChainTypeOK /\ GenesisFirst /\ OneTip /\ CountsGrow /\ SigsMatch /\ CodeFrozen
        /\ PrevFirst /\ SomeTip
    BY DEF ChainInv
  <1>1. /\ Len(chain') = n /\ n \in 1..MaxTx /\ Txids' = Txids \cup {n} /\ n \notin Txids
        /\ chain' \in Seq(MinedTx)
        /\ \A t \in Txids : chain'[t] = chain[t]
        /\ chain'[n] = Mined(bx) /\ Mined(bx) \in MinedTx
        /\ Txids \subseteq 1..MaxTx /\ \A t \in Txids : chain[t] \in MinedTx
    BY <1>0, AcceptAppends
  <1>2. Valid(bx) /\ bx.amount \in Nat /\ bx.now \in Nat
    BY ChainBounds DEF Accept, Typed, Amounts
  <1>3. /\ Mined(bx).op = bx.op /\ Mined(bx).prev = p /\ Mined(bx).gen = Gen(bx)
        /\ Mined(bx).out = bx.out /\ Mined(bx).sigs = bx.sigs
    BY DEF Mined
  <1>4. /\ n \in Nat /\ \A t \in Txids : t \in Nat /\ t < n /\ t >= 1
    BY <1>0 DEF Txids, ChainTypeOK
  <1>5. /\ \A t \in Txids : Spent(t)' <=> Spent(t) \/ t = p
        /\ PrevFirst' /\ \A t \in Txids' : chain'[t].prev # n
    BY <1>0, AcceptSpends
  <1>8. ASSUME p # 0 => p \in Txids /\ Gen(bx) = chain[p].gen PROVE SomeTip'
    <2> SUFFICES ASSUME NEW t \in Txids'
                 PROVE  \E u \in Txids' : chain'[u].gen = chain'[t].gen /\ ~ Spent(u)'
      BY DEF SomeTip
    <2>1. CASE chain'[t].gen = Gen(bx)
      <3>1. n \in Txids' /\ chain'[n].gen = chain'[t].gen /\ ~ \E v \in Txids' : chain'[v].prev = n
        BY <1>1, <1>3, <1>5, <2>1
      <3> HIDE DEF n
      <3> QED
        BY <3>1 DEF Spent
    <2>2. CASE chain'[t].gen # Gen(bx)
      <3>1. t \in Txids /\ chain'[t] = chain[t]
        BY <1>1, <1>3, <2>2
      <3>2. PICK u \in Txids : chain[u].gen = chain[t].gen /\ ~ Spent(u)
        BY <1>0, <3>1 DEF SomeTip
      <3>3. u # p
        BY <1>4, <1>8, <2>2, <3>1, <3>2
      <3> QED
        BY <1>1, <1>5, <3>1, <3>2, <3>3
    <2> QED
      BY <2>1, <2>2
  <1>6. CASE p = 0
    <2>1. Gen(bx) = n /\ bx.op = "deploy" /\ bx.out # NoOut
      <3>1. bx.op = "deploy" /\ \E k \in Keys : bx.out = locking_script(k, genesis_state)
        BY <1>2, <1>6 DEF Valid
      <3>2. bx.out \in IdentityOut
        BY <3>1 DEF locking_script, locking_script_ex, genesis_state, IdentityOut, Meters
      <3> QED
        BY <1>6, <3>1, <3>2, NoOutAssumption DEF Gen
    <2>2. \A t \in Txids : chain[t].gen # n
      BY <1>0, <1>4 DEF GenesisFirst
    <2>3. ChainTypeOK'
      BY <1>0, <1>1 DEF ChainTypeOK
    <2>4. GenesisFirst'
      BY <1>0, <1>1, <1>3, <1>4, <2>1 DEF GenesisFirst
    <2>5. OneTip'
      BY <1>0, <1>1, <1>3, <1>4, <1>5, <2>1, <2>2 DEF OneTip
    <2>6. CountsGrow'
      BY <1>0, <1>1, <1>3, <1>4, <2>1, <2>2 DEF CountsGrow, Meter
    <2>7. SigsMatch'
      BY <1>0, <1>1, <1>3, <2>1 DEF SigsMatch, Meter
    <2>8. CodeFrozen'
      BY <1>0, <1>1, <1>3, <1>4, <2>1 DEF CodeFrozen, GenesisFirst, Txids
    <2> QED
      BY <1>5, <1>6, <1>8, <2>3, <2>4, <2>5, <2>6, <2>7, <2>8 DEF ChainInv
  <1>7. CASE p # 0
    <2>1. Live(p)
      BY <1>2, <1>7 DEF Valid
    <2>2. /\ p \in Txids /\ chain[p].out \in IdentityOut
          /\ \A u \in Txids : chain[u].gen = chain[p].gen => u <= p
      BY <1>0, <2>1, SpendsTheLast
    <2>3. Gen(bx) = chain[p].gen /\ chain[p].gen \in 1..p /\ chain[p].out # NoOut
      BY <1>0, <1>7, <2>1, <2>2 DEF Gen, GenesisFirst, Live
    <2>4. Meter(p).recoveryCount \in Nat
      BY <2>2 DEF Meter, IdentityOut, Meters
    <2>5. bx.out # NoOut =>
            /\ bx.out.code = chain[p].out.code
            /\ bx.op # "recover" => bx.out.m.recoveryCount = Meter(p).recoveryCount
            /\ bx.op = "recover" =>
                 /\ bx.out.m.recoveryCount = Meter(p).recoveryCount + 1
                 /\ \A s \in bx.sigs : s.gen = chain[p].gen /\ s.msg.count = Meter(p).recoveryCount
      BY <1>2, <1>7, <2>2, SpendAdvances DEF Meter
    <2>6. bx.op = "recover" => bx.out # NoOut
      BY <1>2, <1>7 DEF Valid
    <2>7. \A u \in Txids : chain[u].gen = chain[p].gen /\ chain[u].out # NoOut =>
            Meter(u).recoveryCount \in Nat /\ Meter(u).recoveryCount <= Meter(p).recoveryCount
      <3> SUFFICES ASSUME NEW u \in Txids, chain[u].gen = chain[p].gen, chain[u].out # NoOut
                   PROVE  Meter(u).recoveryCount \in Nat /\ Meter(u).recoveryCount <= Meter(p).recoveryCount
        OBVIOUS
      <3>1. Meter(u).recoveryCount \in Nat
        <4>1. chain[u].out \in IdentityOut
          BY <1>1 DEF MinedTx
        <4> QED
          BY <4>1 DEF Meter, IdentityOut, Meters
      <3>2. u = p \/ u < p
        BY <1>4, <2>2
      <3> QED
        BY <1>0, <2>2, <2>3, <2>4, <3>1, <3>2 DEF CountsGrow
    <2>8. ChainTypeOK'
      BY <1>0, <1>1 DEF ChainTypeOK
    <2>9. GenesisFirst'
      <3>1. chain'[n].gen \in 1..n
        <4>1. chain'[n].gen \in 1..p /\ p \in Nat /\ n \in Nat /\ p < n
          BY <1>1, <1>3, <1>4, <2>2, <2>3
        <4> QED
          BY <4>1
      <3>2. \A t \in Txids : chain'[t].gen \in 1..t
        BY <1>0, <1>1 DEF GenesisFirst
      <3> QED
        BY <1>1, <3>1, <3>2 DEF GenesisFirst
    <2>10. OneTip'
      <3>1. Spent(p)'
        BY <1>5, <2>2
      <3>2. \A u \in Txids : chain[u].gen = chain[p].gen => Spent(u)'
        <4> SUFFICES ASSUME NEW u \in Txids, chain[u].gen = chain[p].gen PROVE Spent(u)'
          OBVIOUS
        <4>1. u = p \/ u < p
          BY <1>4, <2>2
        <4> QED
          BY <1>0, <1>5, <2>2, <3>1, <4>1 DEF OneTip
      <3> SUFFICES ASSUME NEW t \in Txids', NEW u \in Txids', u < t, chain'[u].gen = chain'[t].gen
                   PROVE  Spent(u)'
        BY DEF OneTip
      <3>3. u \in Txids /\ chain'[u] = chain[u]
        BY <1>1, <1>4
      <3>4. CASE t \in Txids
        BY <1>0, <1>1, <1>5, <3>3, <3>4 DEF OneTip
      <3>5. CASE t = n
        BY <1>1, <1>3, <2>3, <3>2, <3>3, <3>5
      <3> QED
        BY <1>1, <3>4, <3>5
    <2>11. CountsGrow'
      <3> SUFFICES ASSUME NEW t \in Txids', NEW u \in Txids', u < t, chain'[u].gen = chain'[t].gen,
                          chain'[u].out # NoOut, chain'[t].out # NoOut
                   PROVE  /\ Meter(u)'.recoveryCount <= Meter(t)'.recoveryCount
                          /\ chain'[t].op = "recover" =>
                               Meter(u)'.recoveryCount < Meter(t)'.recoveryCount
        BY DEF CountsGrow
      <3>1. u \in Txids /\ chain'[u] = chain[u]
        BY <1>1, <1>4
      <3>2. CASE t \in Txids
        BY <1>0, <1>1, <3>1, <3>2 DEF CountsGrow, Meter
      <3>3. CASE t = n
        <4>1. chain[u].gen = chain[p].gen /\ bx.out # NoOut /\ Meter(t)' = bx.out.m
          BY <1>1, <1>3, <2>3, <3>1, <3>3 DEF Meter
        <4>2. Meter(u)' = Meter(u)
          BY <3>1 DEF Meter
        <4> QED
          BY <1>1, <1>3, <2>4, <2>5, <2>7, <3>1, <3>3, <4>1, <4>2
      <3> QED
        BY <1>1, <3>2, <3>3
    <2>12. SigsMatch'
      <3>1. bx.op = "recover" =>
              \A s \in bx.sigs : s.gen = Gen(bx) /\ s.msg.count + 1 = bx.out.m.recoveryCount
        BY <2>3, <2>5, <2>6
      <3> QED
        BY <1>0, <1>1, <1>3, <2>6, <3>1 DEF SigsMatch, Meter
    <2>13. CodeFrozen'
      <3>1. \A t \in Txids : chain[t].gen \in Txids
        BY <1>0 DEF GenesisFirst, Txids, ChainTypeOK
      <3>2. bx.out # NoOut => bx.out.code = chain[Gen(bx)].out.code
        BY <1>0, <2>2, <2>3, <2>5 DEF CodeFrozen
      <3> SUFFICES ASSUME NEW t \in Txids', chain'[t].out # NoOut
                   PROVE  chain'[t].out.code = chain'[chain'[t].gen].out.code
        BY DEF CodeFrozen
      <3>3. CASE t \in Txids
        BY <1>0, <1>1, <3>1, <3>3 DEF CodeFrozen
      <3>4. CASE t = n
        <4>1. Gen(bx) \in Txids /\ chain'[Gen(bx)] = chain[Gen(bx)]
          BY <1>1, <2>2, <2>3, <3>1
        <4> QED
          BY <1>1, <1>3, <3>2, <3>4, <4>1
      <3> QED
        BY <1>1, <3>3, <3>4
    <2> QED
      BY <1>5, <1>8, <2>2, <2>3, <2>8, <2>9, <2>10, <2>11, <2>12, <2>13 DEF ChainInv
  <1> QED
    BY <1>6, <1>7

(* So does a step that leaves the chain alone.                              *)
LEMMA StillInv ==
  ASSUME ChainInv, UNCHANGED chain, clock' \in Nat, approvals' \subseteq Sigs
  PROVE  ChainInv'
  <1>1. Txids' = Txids /\ (\A t : Spent(t)' <=> Spent(t)) /\ \A t : Meter(t)' = Meter(t)
    BY DEF Txids, Spent, Meter
  <1>2. ChainTypeOK' /\ GenesisFirst' /\ CodeFrozen' /\ PrevFirst'
    BY <1>1 DEF ChainInv, ChainTypeOK, GenesisFirst, CodeFrozen, PrevFirst
  <1>3. OneTip' /\ SomeTip'
    BY <1>1 DEF ChainInv, OneTip, SomeTip
  <1>4. CountsGrow' /\ SigsMatch'
    BY <1>1 DEF ChainInv, CountsGrow, SigsMatch
  <1> QED
    BY <1>2, <1>3, <1>4 DEF ChainInv

(* Every step keeps it.                                                     *)
LEMMA NextInv == ChainInv /\ [ChainNext]_chainVars => ChainInv'
  <1> SUFFICES ASSUME ChainInv, [ChainNext]_chainVars PROVE ChainInv'
    OBVIOUS
  <1>1. CASE UNCHANGED chainVars
    BY <1>1, StillInv DEF chainVars, ChainInv, ChainTypeOK
  <1>2. CASE ChainNext
    <2>1. ChainTypeOK
      BY DEF ChainInv
    <2> QED
      BY <1>2, <2>1, StepShape, AcceptInv, StillInv
  <1> QED
    BY <1>1, <1>2

(* The inductive invariant holds of every reachable chain: one unspent      *)
(* output for each identity, counters that only grow along it, and          *)
(* signatures that name the counter the recovery found.                     *)
THEOREM ChainInvariant == ChainSpec => []ChainInv
  BY InitInv, NextInv, PTL DEF ChainSpec

(* Chain, clock and signatures keep their types.                            *)
THEOREM ChainTypeCorrect == ChainSpec => []ChainTypeOK
  <1>1. ChainInv => ChainTypeOK
    BY DEF ChainInv
  <1> QED
    BY <1>1, ChainInvariant, PTL

(* Whatever recoveries rotated, an identity output has the code part it was *)
(* deployed with (the contract's hashOutputs assertion).                    *)
THEOREM ChainCodeFrozen == ChainSpec => []CodeFrozen
  <1>1. ChainInv => CodeFrozen
    BY DEF ChainInv
  <1> QED
    BY <1>1, ChainInvariant, PTL

(* No guardian signature serves two recoveries, of one identity or of two.  *)
THEOREM ChainApprovalUsedOnce == ChainSpec => []ApprovalUsedOnce
  <1>1. ChainInv => ApprovalUsedOnce
    <2> SUFFICES ASSUME ChainInv, NEW t \in Txids, NEW u \in Txids, NEW s, u < t,
                        chain[t].op = "recover", chain[u].op = "recover",
                        s \in chain[t].sigs, s \in chain[u].sigs
                 PROVE  FALSE
      <3>1. Txids \subseteq Nat
        BY DEF Txids
      <3> QED
        BY <3>1 DEF ApprovalUsedOnce
    <2>1. /\ chain[t].out # NoOut /\ chain[u].out # NoOut /\ chain[t].gen = chain[u].gen
          /\ Meter(t).recoveryCount = Meter(u).recoveryCount
      BY DEF ChainInv, SigsMatch
    <2>2. Meter(u).recoveryCount < Meter(t).recoveryCount
      BY <2>1 DEF ChainInv, CountsGrow
    <2>3. Meter(t).recoveryCount \in Nat
      <3>1. chain[t] \in MinedTx
        BY DEF ChainInv, ChainTypeOK, Txids
      <3> QED
        BY <2>1, <3>1 DEF MinedTx, IdentityOut, Meters, Meter
    <2> QED
      BY <2>1, <2>2, <2>3
  <1> QED
    BY <1>1, ChainInvariant, PTL

-----------------------------------------------------------------------------
(* The meters.  The histories the two invariants speak of grow at their end *)
(* only; along an identity spentInWindow is the sum since the last roll,    *)
(* and no roll so far claims a time after windowStart.                      *)
Spends == \A t \in Txids : chain[t].op # "deploy" => chain[t].prev \in Txids
ActionsMade == \A t \in Txids : chain[t].op = "action" =>
                 /\ chain[t].out # NoOut /\ Amount(t) \in 1..PerTxLimit
                 /\ Meter(t).spentInWindow <= DailyLimit
                 /\ chain[chain[t].prev].out # NoOut
WindowSum(t) == MapThenSumSet(Amount, WindowOf(t))
SpentIsSum == \A t \in Txids : chain[t].out # NoOut => Meter(t).spentInWindow = WindowSum(t)
RollsBehind ==
  \A t \in Txids : chain[t].out # NoOut =>
    \A w \in Of("action", t) : Opens(w) => chain[w].now <= Meter(t).windowStart
RollsApart ==
  \A t \in Txids : chain[t].op = "action" /\ Opens(t) =>
    \A w \in Of("action", t) \ {t} : Opens(w) => chain[t].now - chain[w].now >= WindowDuration

MeterInv == /\ ChainInv /\ Spends /\ ActionsMade /\ MetersCountHistory /\ SpentIsSum
            /\ RollsBehind /\ RollsApart

(* What an action makes of the meters.                                      *)
LEMMA ApplyActionIs ==
  ASSUME NEW m \in Meters, NEW a \in Nat, NEW now \in Nat
  PROVE  LET next == apply_action(m, a, now) IN
         /\ next.txCount = m.txCount + 1
         /\ next.recoveryCount = m.recoveryCount
         /\ next.windowStart = IF Rolls(m, now) THEN now ELSE m.windowStart
         /\ next.spentInWindow = (IF Rolls(m, now) THEN 0 ELSE m.spentInWindow) + a
         /\ next.tier = 2 => m.tier = 2 \/ m.txCount + 1 >= GraduationThreshold
  <1> DEFINE start == IF Rolls(m, now) THEN now ELSE m.windowStart
             spent == (IF Rolls(m, now) THEN 0 ELSE m.spentInWindow) + a
             tier  == IF m.txCount + 1 >= GraduationThreshold /\ m.tier < 2 THEN 2 ELSE m.tier
  <1>1. apply_action(m, a, now) =
          [m EXCEPT !.windowStart = start, !.spentInWindow = spent,
                    !.txCount = m.txCount + 1, !.tier = tier]
    BY DEF apply_action
  <1>2. tier = 2 => m.tier = 2 \/ m.txCount + 1 >= GraduationThreshold
    OBVIOUS
  <1> HIDE DEF start, spent, tier
  <1>3. apply_action(m, a, now) =
          [txCount |-> m.txCount + 1, spentInWindow |-> spent, windowStart |-> start,
           tier |-> tier, recoveryCount |-> m.recoveryCount]
    BY <1>1, Zenon DEF Meters
  <1>4. /\ apply_action(m, a, now).txCount = m.txCount + 1
        /\ apply_action(m, a, now).recoveryCount = m.recoveryCount
        /\ apply_action(m, a, now).windowStart = start
        /\ apply_action(m, a, now).spentInWindow = spent
        /\ apply_action(m, a, now).tier = tier
    BY <1>3
  <1> QED
    BY <1>2, <1>4 DEF start, spent

(* What the contract makes of the meters when it accepts a spend.           *)
LEMMA SpendMeters ==
  ASSUME NEW bx, Valid(bx), bx.prev # 0, chain[bx.prev].out \in IdentityOut,
         bx.amount \in Nat, bx.now \in Nat
  PROVE  LET prev == chain[bx.prev].out IN
         /\ bx.op \in {"action", "stake", "slash", "recover", "revoke"}
         /\ bx.op = "action" =>
              /\ bx.out \in IdentityOut
              /\ bx.out.m = apply_action(prev.m, bx.amount, bx.now)
              /\ bx.amount \in 1..PerTxLimit /\ bx.out.m.spentInWindow <= DailyLimit
         /\ bx.op = "recover" =>
              /\ bx.out.m.recoveryCount = prev.m.recoveryCount + 1
              /\ bx.out.m.txCount = prev.m.txCount /\ bx.out.m.tier = prev.m.tier
              /\ bx.out.m.spentInWindow = prev.m.spentInWindow
              /\ bx.out.m.windowStart = prev.m.windowStart
         /\ bx.op = "stake" => bx.out = prev
         /\ bx.op \in {"slash", "revoke"} => bx.out = NoOut
  <1> DEFINE prev == chain[bx.prev].out
  <1>1. prev.m \in Meters
    BY DEF IdentityOut
  <1>2. CASE bx.op = "action"
    <2>1. /\ bx.out = [prev EXCEPT !.m = apply_action(prev.m, bx.amount, bx.now)]
          /\ bx.amount > 0 /\ bx.amount <= PerTxLimit
          /\ apply_action(prev.m, bx.amount, bx.now).spentInWindow <= DailyLimit
      BY <1>2 DEF Valid, executeAction
    <2>2. bx.out.m = apply_action(prev.m, bx.amount, bx.now)
      BY <2>1 DEF IdentityOut
    <2>3. apply_action(prev.m, bx.amount, bx.now) \in Meters
      BY <1>1, ApplyActionType
    <2>4. bx.out \in IdentityOut
      BY <2>1, <2>3 DEF IdentityOut
    <2>5. bx.amount \in 1..PerTxLimit
      BY <2>1, AgentTeaConstants
    <2> QED
      BY <1>2, <2>1, <2>2, <2>4, <2>5
  <1>3. CASE bx.op = "recover"
    <2>1. bx.out = [prev EXCEPT !.agent = bx.out.agent, !.m.recoveryCount = @ + 1]
      BY <1>3 DEF Valid, recover
    <2>2. bx.out = [code |-> prev.code, agent |-> bx.out.agent,
                    m |-> [prev.m EXCEPT !.recoveryCount = @ + 1]]
      BY <2>1 DEF IdentityOut
    <2>3. bx.out.m = [prev.m EXCEPT !.recoveryCount = @ + 1]
      BY <2>2
    <2>4. /\ bx.out.m.recoveryCount = prev.m.recoveryCount + 1
          /\ bx.out.m.txCount = prev.m.txCount /\ bx.out.m.tier = prev.m.tier
          /\ bx.out.m.spentInWindow = prev.m.spentInWindow
          /\ bx.out.m.windowStart = prev.m.windowStart
      BY <1>1, <2>3 DEF Meters
    <2> QED
      BY <1>3, <2>4
  <1>4. CASE bx.op \in {"stake", "slash", "revoke"}
    BY <1>4 DEF Valid, stake, slashValidator, revoke
  <1> QED
    BY <1>2, <1>3, <1>4 DEF Valid

(* The amounts of a set of transactions.                                    *)
AmountsOf(S) == [u \in S |-> chain[u].amount]

(* Their total, as the sum of a function.                                   *)
LEMMA SumOfAmounts == \A S : MapThenSumSet(Amount, S) = SumFunctionOnSet(AmountsOf(S), S)
  <1> SUFFICES ASSUME NEW S PROVE MapThenSumSet(Amount, S) = SumFunctionOnSet(AmountsOf(S), S)
    OBVIOUS
  <1> DEFINE R(F) == [s \in SUBSET S |-> IF s = {} THEN 0 ELSE Amount(First(s)) + F[s \ {First(s)}]]
             Q(F) == [s \in SUBSET S |->
                        IF s = {} THEN 0 ELSE AmountsOf(S)[First(s)] + F[s \ {First(s)}]]
  <1>1. \A s \in SUBSET S : s # {} => AmountsOf(S)[First(s)] = Amount(First(s))
    BY FirstIn DEF AmountsOf, Amount
  <1>2. \A F : R(F) = Q(F)
    BY <1>1
  <1>3. MapThenSumSet(Amount, S) = (CHOOSE F : F = R(F))[S]
    BY DEF MapThenSumSet, MapThenFoldSet, First
  <1>4. SumFunctionOnSet(AmountsOf(S), S) = (CHOOSE F : F = Q(F))[S]
    BY SumIsIter DEF Iter, IsIter
  <1> HIDE DEF R, Q
  <1>5. (CHOOSE F : F = R(F)) = (CHOOSE F : F = Q(F))
    BY <1>2, Zenon
  <1> QED
    BY <1>3, <1>4, <1>5

(* What a window's actions spend, likewise.                                 *)
WindowSums == \A t : WindowSum(t) = SumFunctionOnSet(AmountsOf(WindowOf(t)), WindowOf(t))

(* The sum of a window is the sum of a function.                            *)
LEMMA WindowSumIs == WindowSums
  BY SumOfAmounts DEF WindowSum, WindowSums

(* What was on the chain keeps its history, its window and its sum.         *)
LEMMA OldHistory ==
  ASSUME ChainInv, Spends, NEW bx, Typed(bx), Accept(bx), NEW t \in Txids
  PROVE  /\ t \in Txids' /\ chain'[t] = chain[t] /\ Meter(t)' = Meter(t) /\ Amount(t)' = Amount(t)
         /\ (\A op : Of(op, t)' = Of(op, t)) /\ Of("action", t) \subseteq Txids
         /\ Opens(t)' <=> Opens(t)
         /\ WindowOf(t)' = WindowOf(t) /\ WindowOf(t) \subseteq Txids
         /\ IsFiniteSet(WindowOf(t)) /\ IsFiniteSet(Upto(t))
         /\ WindowSum(t)' = WindowSum(t)
  <1> DEFINE n == Len(chain) + 1
  <1>1. /\ Txids' = Txids \cup {n} /\ \A u \in Txids : chain'[u] = chain[u]
    BY AcceptAppends DEF ChainInv
  <1>2. \A u \in Txids : u \in Nat /\ u < n
    BY DEF Txids, ChainInv, ChainTypeOK
  <1>3. chain'[t] = chain[t] /\ Meter(t)' = Meter(t) /\ Amount(t)' = Amount(t)
    BY <1>1 DEF Meter, Amount
  <1>4. ~ (n <= t)
    BY <1>2
  <1>5. Upto(t)' = Upto(t) /\ Upto(t) \subseteq Txids
    BY <1>1, <1>4 DEF Upto
  <1>6. (\A op : Of(op, t)' = Of(op, t) /\ Of(op, t) \subseteq Txids)
    BY <1>1, <1>5 DEF Of
  <1>7. ASSUME NEW u \in Txids PROVE Opens(u)' <=> Opens(u)
    BY <1>1 DEF Opens, Meter, Spends, Ops
  <1>8. WindowOf(t)' = WindowOf(t) /\ WindowOf(t) \subseteq Of("action", t)
    <2>1. \A w \in Of("action", t) : Opens(w)' <=> Opens(w)
      BY <1>6, <1>7
    <2> QED
      BY <1>6, <2>1 DEF WindowOf
  <1>9. IsFiniteSet(Txids)
    BY FS_Interval DEF Txids, ChainInv, ChainTypeOK
  <1>10. IsFiniteSet(WindowOf(t)) /\ IsFiniteSet(Upto(t))
    BY <1>5, <1>6, <1>8, <1>9, FS_Subset
  <1>11. WindowSum(t)' = WindowSum(t)
    <2>1. AmountsOf(WindowOf(t))' = AmountsOf(WindowOf(t))
      BY <1>1, <1>6, <1>8 DEF AmountsOf
    <2>2. WindowSums'
      BY WindowSumIs, PTL
    <2>3. WindowSum(t)' = SumFunctionOnSet(AmountsOf(WindowOf(t)), WindowOf(t))'
      BY <2>2 DEF WindowSums
    <2>4. WindowSum(t) = SumFunctionOnSet(AmountsOf(WindowOf(t)), WindowOf(t))
      BY WindowSumIs DEF WindowSums
    <2> QED
      BY <1>8, <2>1, <2>3, <2>4
  <1> QED
    BY <1>1, <1>3, <1>6, <1>7, <1>8, <1>10, <1>11

(* A spend adds itself to the history of what it spends.                    *)
LEMMA NewHistory ==
  ASSUME ChainInv, NEW bx, Typed(bx), Accept(bx), bx.prev # 0, NEW n, n = Len(chain) + 1
  PROVE  LET p == bx.prev IN
         /\ p \in Txids /\ chain[p].out \in IdentityOut /\ chain[p].out # NoOut
         /\ n \in Txids' /\ n \notin Txids /\ chain'[n] = Mined(bx)
         /\ \A op : Of(op, n)' = Of(op, p) \cup (IF bx.op = op THEN {n} ELSE {})
  <1> DEFINE p == bx.prev
  <1>1. /\ Txids' = Txids \cup {n} /\ n \notin Txids /\ \A u \in Txids : chain'[u] = chain[u]
        /\ chain'[n] = Mined(bx)
    BY AcceptAppends DEF ChainInv
  <1>2. n \in Nat /\ \A u \in Txids : u \in Nat /\ u < n
    BY DEF Txids, ChainInv, ChainTypeOK
  <1>3. Live(p)
    BY DEF Accept, Valid
  <1>4. /\ p \in Txids /\ chain[p].out \in IdentityOut /\ chain[p].out # NoOut
        /\ \A u \in Txids : chain[u].gen = chain[p].gen => u <= p
    BY <1>3, SpendsTheLast DEF ChainInv, Live
  <1>5. chain'[n].gen = chain[p].gen /\ chain'[n].op = bx.op
    BY <1>1 DEF Mined, Gen
  <1>6. Upto(n)' = Upto(p) \cup {n}
    <2>1. ASSUME NEW u \in Txids PROVE u \in Upto(n)' <=> u \in Upto(p)
      BY <1>1, <1>2, <1>4, <1>5, <2>1 DEF Upto
    <2>2. n \in Upto(n)'
      BY <1>1, <1>2 DEF Upto
    <2>3. Upto(n)' \subseteq Txids \cup {n} /\ Upto(p) \subseteq Txids
      BY <1>1 DEF Upto
    <2> QED
      BY <2>1, <2>2, <2>3
  <1>7. ASSUME NEW op PROVE Of(op, n)' = Of(op, p) \cup (IF bx.op = op THEN {n} ELSE {})
    <2>1. Upto(p) \subseteq Txids
      BY DEF Upto
    <2> QED
      BY <1>1, <1>5, <1>6, <2>1 DEF Of
  <1> QED
    BY <1>1, <1>4, <1>7

(* The history of a deployment is itself.                                   *)
LEMMA DeployHistory ==
  ASSUME ChainInv, NEW bx, Typed(bx), Accept(bx), bx.prev = 0, NEW n, n = Len(chain) + 1
  PROVE  /\ n \in Txids' /\ n \notin Txids /\ chain'[n] = Mined(bx) /\ bx.op = "deploy"
         /\ chain'[n].out # NoOut /\ Meter(n)' = genesis_state
         /\ Of("action", n)' = {} /\ Of("recover", n)' = {}
  <1>1. /\ Txids' = Txids \cup {n} /\ n \notin Txids /\ \A u \in Txids : chain'[u] = chain[u]
        /\ chain'[n] = Mined(bx)
    BY AcceptAppends DEF ChainInv
  <1>2. bx.op = "deploy" /\ \E k \in Keys : bx.out = locking_script(k, genesis_state)
    BY DEF Accept, Valid
  <1>3. chain'[n].gen = n /\ chain'[n].op = "deploy" /\ chain'[n].out = bx.out
    BY <1>1, <1>2 DEF Mined, Gen
  <1>4. bx.out.m = genesis_state /\ bx.out \in IdentityOut
    BY <1>2 DEF locking_script, locking_script_ex, genesis_state, IdentityOut, Meters
  <1>5. \A u \in Txids : chain[u].gen # n
    <2>1. \A u \in Txids : u \in Nat /\ u < n
      BY DEF Txids, ChainInv, ChainTypeOK
    <2> QED
      BY <2>1 DEF ChainInv, GenesisFirst, ChainTypeOK
  <1>6. Upto(n)' \subseteq {n}
    BY <1>1, <1>3, <1>5 DEF Upto
  <1>7. Of("action", n)' = {} /\ Of("recover", n)' = {}
    BY <1>3, <1>6 DEF Of
  <1> QED
    BY <1>1, <1>2, <1>3, <1>4, <1>7, NoOutAssumption DEF Meter

(* A roll is what changes windowStart, because the window is not empty.     *)
LEMMA OpensIsRolls ==
  ASSUME ChainInv, NEW bx, Typed(bx), Accept(bx), bx.prev # 0, NEW n, n = Len(chain) + 1,
         bx.op = "action"
  PROVE  /\ Meter(n)' = apply_action(Meter(bx.prev), bx.amount, bx.now)
         /\ Meter(bx.prev) \in Meters /\ bx.amount \in Nat /\ bx.now \in Nat
         /\ Opens(n)' <=> Rolls(Meter(bx.prev), bx.now)
  <1> DEFINE p == bx.prev
  <1>1. /\ p \in Txids /\ chain[p].out \in IdentityOut /\ chain'[n] = Mined(bx)
    BY NewHistory
  <1>2. bx.amount \in Nat /\ bx.now \in Nat /\ Valid(bx)
    BY ChainBounds DEF Typed, Amounts, Accept
  <1>3. bx.out.m = apply_action(Meter(p), bx.amount, bx.now)
    BY <1>1, <1>2, SpendMeters DEF Meter
  <1>4. Meter(p) \in Meters
    BY <1>1 DEF Meter, IdentityOut
  <1>5. chain'[n].out = bx.out /\ chain'[n].op = "action" /\ chain'[n].prev = p
    BY <1>1 DEF Mined
  <1>6. Meter(n)' = apply_action(Meter(p), bx.amount, bx.now)
    BY <1>3, <1>5 DEF Meter
  <1>7. Meter(n)'.windowStart = IF Rolls(Meter(p), bx.now) THEN bx.now ELSE Meter(p).windowStart
    BY <1>2, <1>4, <1>6, ApplyActionIs
  <1>8. Rolls(Meter(p), bx.now) => bx.now # Meter(p).windowStart
    BY <1>2, <1>4, AgentTeaConstants DEF Rolls, Meters
  <1>9. chain'[p] = chain[p]
    BY <1>1, AcceptAppends DEF ChainInv
  <1>10. Opens(n)' <=> Meter(n)'.windowStart # Meter(p).windowStart
    BY <1>5, <1>9 DEF Opens, Meter
  <1> QED
    BY <1>2, <1>4, <1>6, <1>7, <1>8, <1>10

(* The window after one more transaction of the identity.                   *)
LEMMA NewWindow ==
  ASSUME ChainInv, Spends, NEW bx, Typed(bx), Accept(bx), bx.prev # 0,
         NEW n, n = Len(chain) + 1
  PROVE  /\ bx.op # "action" => WindowOf(n)' = WindowOf(bx.prev)
         /\ bx.op = "action" /\ Rolls(Meter(bx.prev), bx.now) => WindowOf(n)' = {n}
         /\ bx.op = "action" /\ ~ Rolls(Meter(bx.prev), bx.now)
              => WindowOf(n)' = WindowOf(bx.prev) \cup {n}
  <1> DEFINE p == bx.prev
  <1>1. /\ p \in Txids /\ n \notin Txids
        /\ Of("action", n)' = Of("action", p) \cup (IF bx.op = "action" THEN {n} ELSE {})
    BY NewHistory
  <1>2. Of("action", p) \subseteq Txids
    BY DEF Of, Upto
  <1>3. \A w \in Of("action", p) : (Opens(w)' <=> Opens(w)) /\ w < n /\ w \in Nat
    <2>1. \A w \in Txids : w < n /\ w \in Nat
      BY DEF Txids, ChainInv, ChainTypeOK
    <2> QED
      BY <1>2, <2>1, OldHistory
  <1>4. n \in Nat
    BY DEF ChainInv, ChainTypeOK
  <1>5. CASE bx.op # "action"
    BY <1>1, <1>3, <1>5 DEF WindowOf
  <1>6. CASE bx.op = "action"
    <2>1. Opens(n)' <=> Rolls(Meter(p), bx.now)
      BY <1>6, OpensIsRolls
    <2>2. CASE Rolls(Meter(p), bx.now)
      BY <1>1, <1>3, <1>4, <1>6, <2>1, <2>2 DEF WindowOf
    <2>3. CASE ~ Rolls(Meter(p), bx.now)
      BY <1>1, <1>3, <1>4, <1>6, <2>1, <2>3 DEF WindowOf
    <2> QED
      BY <1>6, <2>2, <2>3
  <1> QED
    BY <1>5, <1>6

(* And its sum.                                                             *)
LEMMA NewWindowSum ==
  ASSUME ChainInv, Spends, NEW bx, Typed(bx), Accept(bx), bx.prev # 0,
         NEW n, n = Len(chain) + 1
  PROVE  /\ bx.op # "action" => WindowSum(n)' = WindowSum(bx.prev)
         /\ bx.op = "action" /\ Rolls(Meter(bx.prev), bx.now) => WindowSum(n)' = bx.amount
         /\ bx.op = "action" /\ ~ Rolls(Meter(bx.prev), bx.now)
              => WindowSum(n)' = WindowSum(bx.prev) + bx.amount
  <1> DEFINE p == bx.prev
             W == WindowOf(p)
  <1>1. p \in Txids /\ n \notin Txids /\ chain'[n] = Mined(bx) /\ \A u \in Txids : chain'[u] = chain[u]
    BY NewHistory, AcceptAppends DEF ChainInv
  <1>2. IsFiniteSet(W) /\ W \subseteq Txids
    BY <1>1, OldHistory
  <1>3. \A u \in Txids : chain[u].amount \in Int
    <2>1. \A u \in Txids : chain[u] \in MinedTx
      BY DEF Txids, ChainInv, ChainTypeOK
    <2> QED
      BY <2>1, ChainBounds DEF MinedTx, Amounts
  <1>4. chain'[n].amount = bx.amount /\ bx.amount \in Int
    BY <1>1, ChainBounds DEF Mined, Typed, Amounts
  <1>5. WindowSum(p) = SumFunctionOnSet(AmountsOf(W), W)
    BY WindowSumIs DEF WindowSums
  <1>6. WindowSums'
    BY WindowSumIs, PTL
  <1>7. PICK V : V = WindowOf(n)'
    OBVIOUS
  <1>8. WindowSum(n)' = SumFunctionOnSet([u \in V |-> chain'[u].amount], V)
    BY <1>6, <1>7 DEF WindowSums, AmountsOf
  <1>9. PICK w : w = [u \in V |-> chain'[u].amount]
    OBVIOUS
  <1>10. PICK v : v = AmountsOf(W)
    OBVIOUS
  <1>11. \A u \in W : v[u] = chain[u].amount /\ v[u] \in Int
    BY <1>2, <1>3, <1>10 DEF AmountsOf
  <1>12. CASE bx.op # "action"
    <2>1. V = W
      BY <1>7, <1>12, NewWindow
    <2>2. \A u \in W : w[u] = v[u]
      BY <1>1, <1>2, <1>9, <1>11, <2>1
    <2>3. SumFunctionOnSet(w, W) = SumFunctionOnSet(v, W)
      BY <1>2, <2>2, SumSameWeights
    <2> QED
      BY <1>5, <1>8, <1>9, <1>10, <1>12, <2>1, <2>3
  <1>13. CASE bx.op = "action" /\ Rolls(Meter(p), bx.now)
    <2>1. V = {n}
      BY <1>7, <1>13, NewWindow
    <2>2. w[n] = bx.amount
      BY <1>4, <1>9, <2>1
    <2>3. SumFunctionOnSet(w, {n}) = w[n]
      BY <1>4, <2>2, SumSingle
    <2> QED
      BY <1>8, <1>9, <1>13, <2>1, <2>2, <2>3
  <1>14. CASE bx.op = "action" /\ ~ Rolls(Meter(p), bx.now)
    <2>1. V = W \cup {n} /\ n \notin W
      BY <1>1, <1>2, <1>7, <1>14, NewWindow
    <2>2. w[n] = bx.amount /\ w[n] \in Int
      BY <1>4, <1>9, <2>1
    <2>3. \A u \in W : w[u] = v[u] /\ w[u] \in Int
      BY <1>1, <1>2, <1>9, <1>11, <2>1
    <2> HIDE DEF W
    <2>4. SumFunctionOnSet(w, W \cup {n}) = w[n] + SumFunctionOnSet(w, W)
      BY <1>2, <2>1, <2>2, <2>3, SumInsert
    <2>5. SumFunctionOnSet(w, W) = SumFunctionOnSet(v, W)
      BY <1>2, <2>3, SumSameWeights
    <2>6. SumFunctionOnSet(w, W) \in Int
      BY <1>2, <2>3, SumInt
    <2>7. WindowSum(n)' = WindowSum(p) + bx.amount
      BY <1>5, <1>8, <1>9, <1>10, <2>1, <2>2, <2>4, <2>5, <2>6
    <2> QED
      BY <1>14, <2>7
  <1> QED
    BY <1>12, <1>13, <1>14

(* An accepted transaction keeps the meters' invariant: by the old members  *)
(* of the chain, then by the new one.                                       *)
LEMMA MeterAccept ==
  ASSUME MeterInv, NEW bx, Typed(bx), Accept(bx), UNCHANGED <<clock, approvals>>
  PROVE  MeterInv'
  <1>0. PICK n : n = Len(chain) + 1
    OBVIOUS
  <1> DEFINE p == bx.prev
  <1>1. /\ ChainInv /\ Spends /\ ActionsMade /\ MetersCountHistory /\ SpentIsSum
        /\ RollsBehind /\ RollsApart
    BY DEF MeterInv
  <1>2. ChainInv'
    BY <1>1, AcceptInv
  <1>3. /\ Txids' = Txids \cup {n} /\ n \notin Txids /\ \A t \in Txids : chain'[t] = chain[t]
        /\ chain'[n] = Mined(bx)
    BY <1>0, <1>1, AcceptAppends DEF ChainInv
  <1>4. \A t \in Txids :
          /\ Meter(t)' = Meter(t) /\ Amount(t)' = Amount(t) /\ Opens(t)' = Opens(t)
          /\ \A op : Of(op, t)' = Of(op, t) /\ Of(op, t) \subseteq Txids
          /\ WindowSum(t)' = WindowSum(t)
    <2>1. ASSUME NEW t \in Txids PROVE \A op : Of(op, t) \subseteq Txids
      BY DEF Of, Upto
    <2>2. ASSUME NEW t \in Txids PROVE Opens(t)' = Opens(t)
      <3>1. Opens(t)' <=> Opens(t)
        BY <1>1, OldHistory
      <3> QED
        BY <3>1 DEF Opens
    <2> QED
      BY <1>1, <2>1, <2>2, OldHistory
  <1>5. /\ chain'[n].op = bx.op /\ chain'[n].prev = p /\ chain'[n].out = bx.out
        /\ chain'[n].amount = bx.amount /\ chain'[n].now = bx.now
        /\ bx.amount \in Nat /\ bx.now \in Nat /\ Valid(bx)
    <2>1. /\ chain'[n].op = bx.op /\ chain'[n].prev = p /\ chain'[n].out = bx.out
          /\ chain'[n].amount = bx.amount /\ chain'[n].now = bx.now
      BY <1>3 DEF Mined
    <2>2. bx.amount \in Nat /\ bx.now \in Nat /\ Valid(bx)
      BY ChainBounds DEF Typed, Amounts, Accept
    <2> QED
      BY <2>1, <2>2
  <1>6. Meter(n)' = bx.out.m /\ Amount(n)' = bx.amount
    BY <1>5 DEF Meter, Amount
  <1>7. CASE p = 0
    <2>1. /\ bx.op = "deploy" /\ bx.out # NoOut /\ bx.out.m = genesis_state
          /\ Of("action", n)' = {} /\ Of("recover", n)' = {}
      BY <1>0, <1>1, <1>5, <1>6, <1>7, DeployHistory
    <2>2. Spends'
      BY <1>1, <1>3, <1>5, <2>1 DEF Spends
    <2>3. ActionsMade'
      BY <1>1, <1>3, <1>4, <1>5, <2>1 DEF ActionsMade, Spends
    <2>4. MetersCountHistory'
      <3>1. Cardinality({}) = 0
        BY FS_EmptySet
      <3>2. genesis_state.txCount = 0 /\ genesis_state.recoveryCount = 0 /\ genesis_state.tier # 2
        BY DEF genesis_state
      <3>3. /\ bx.out.m.txCount = Cardinality(Of("action", n)')
            /\ bx.out.m.recoveryCount = Cardinality(Of("recover", n)') /\ bx.out.m.tier # 2
        BY <2>1, <3>1, <3>2
      <3> QED
        BY <1>1, <1>3, <1>4, <1>6, <3>3 DEF MetersCountHistory
    <2>5. WindowSum(n)' = 0
      <3>1. WindowSums'
        BY WindowSumIs, PTL
      <3>2. WindowOf(n)' = {}
        BY <2>1 DEF WindowOf
      <3>3. WindowSum(n)' = SumFunctionOnSet(AmountsOf(WindowOf(n))', {})
        BY <3>1, <3>2 DEF WindowSums
      <3> QED
        BY <3>3, SumEmpty
    <2>6. SpentIsSum'
      BY <1>1, <1>3, <1>4, <1>6, <2>1, <2>5 DEF SpentIsSum, genesis_state
    <2>7. RollsBehind'
      BY <1>1, <1>3, <1>4, <2>1 DEF RollsBehind
    <2>8. RollsApart'
      BY <1>1, <1>3, <1>4, <1>5, <2>1 DEF RollsApart
    <2> QED
      BY <1>2, <2>2, <2>3, <2>4, <2>6, <2>7, <2>8 DEF MeterInv
  <1>8. CASE p # 0
    <2>1. /\ p \in Txids /\ chain[p].out \in IdentityOut /\ chain[p].out # NoOut
          /\ \A op : Of(op, n)' = Of(op, p) \cup (IF bx.op = op THEN {n} ELSE {})
      BY <1>0, <1>1, <1>8, NewHistory
    <2>2. /\ bx.op \in {"action", "stake", "slash", "recover", "revoke"}
          /\ bx.op = "action" =>
               /\ bx.out \in IdentityOut
               /\ bx.out.m = apply_action(Meter(p), bx.amount, bx.now)
               /\ bx.amount \in 1..PerTxLimit /\ bx.out.m.spentInWindow <= DailyLimit
          /\ bx.op = "recover" =>
               /\ bx.out.m.recoveryCount = Meter(p).recoveryCount + 1
               /\ bx.out.m.txCount = Meter(p).txCount /\ bx.out.m.tier = Meter(p).tier
               /\ bx.out.m.spentInWindow = Meter(p).spentInWindow
               /\ bx.out.m.windowStart = Meter(p).windowStart
          /\ bx.op = "stake" => bx.out.m = Meter(p)
          /\ bx.op \in {"slash", "revoke"} => bx.out = NoOut
      BY <1>5, <1>8, <2>1, SpendMeters DEF Meter
    <2>3. Meter(p) \in Meters
      BY <2>1 DEF IdentityOut, Meter
    <2>4. bx.op = "action" =>
            /\ bx.out.m.txCount = Meter(p).txCount + 1
            /\ bx.out.m.recoveryCount = Meter(p).recoveryCount
            /\ bx.out.m.windowStart = IF Rolls(Meter(p), bx.now) THEN bx.now ELSE Meter(p).windowStart
            /\ bx.out.m.spentInWindow =
                 (IF Rolls(Meter(p), bx.now) THEN 0 ELSE Meter(p).spentInWindow) + bx.amount
            /\ bx.out.m.tier = 2 => Meter(p).tier = 2 \/ Meter(p).txCount + 1 >= GraduationThreshold
      BY <1>5, <2>2, <2>3, ApplyActionIs
    <2>5. Spends'
      BY <1>1, <1>3, <1>5, <2>1 DEF Spends
    <2>6. ActionsMade'
      <3>1. bx.op = "action" => bx.out # NoOut
        BY <2>2, NoOutAssumption
      <3>2. ASSUME NEW t \in Txids, chain[t].op = "action" PROVE chain[t].prev \in Txids
        BY <1>1, <3>2 DEF Spends
      <3> QED
        BY <1>1, <1>3, <1>4, <1>5, <1>6, <2>1, <2>2, <3>1, <3>2 DEF ActionsMade
    <2>7. MetersCountHistory'
      <3>1. bx.out # NoOut =>
              /\ bx.out.m.txCount = Cardinality(Of("action", n)')
              /\ bx.out.m.recoveryCount = Cardinality(Of("recover", n)')
              /\ bx.out.m.tier = 2 => bx.out.m.txCount >= GraduationThreshold
        <4> SUFFICES ASSUME bx.out # NoOut
                     PROVE  /\ bx.out.m.txCount = Cardinality(Of("action", n)')
                            /\ bx.out.m.recoveryCount = Cardinality(Of("recover", n)')
                            /\ bx.out.m.tier = 2 => bx.out.m.txCount >= GraduationThreshold
          OBVIOUS
        <4>1. /\ Meter(p).txCount = Cardinality(Of("action", p))
              /\ Meter(p).recoveryCount = Cardinality(Of("recover", p))
              /\ Meter(p).tier = 2 => Meter(p).txCount >= GraduationThreshold
          BY <1>1, <2>1 DEF MetersCountHistory
        <4>2. ASSUME NEW op
              PROVE  /\ Cardinality(Of(op, p)) \in Nat
                     /\ Cardinality(Of(op, p) \cup {n}) = Cardinality(Of(op, p)) + 1
          <5>1. Of(op, p) \subseteq Txids /\ Of(op, p) \subseteq Upto(p)
            BY DEF Of, Upto
          <5>2. IsFiniteSet(Upto(p))
            BY <1>1, <2>1, OldHistory
          <5>3. IsFiniteSet(Of(op, p)) /\ n \notin Of(op, p)
            BY <1>3, <5>1, <5>2, FS_Subset
          <5> QED
            BY <5>3, FS_AddElement, FS_CardinalityType
        <4>3. Meter(p).txCount \in Nat /\ GraduationThreshold \in Nat
          BY <2>3, AgentTeaConstants DEF Meters
        <4>4. CASE bx.op = "action"
          <5>1. Of("action", n)' = Of("action", p) \cup {n} /\ Of("recover", n)' = Of("recover", p)
            BY <2>1, <4>4
          <5> QED
            BY <2>4, <4>1, <4>2, <4>3, <4>4, <5>1
        <4>5. CASE bx.op = "recover"
          <5>1. Of("recover", n)' = Of("recover", p) \cup {n} /\ Of("action", n)' = Of("action", p)
            BY <2>1, <4>5
          <5> QED
            BY <2>2, <4>1, <4>2, <4>5, <5>1
        <4>6. CASE bx.op = "stake"
          <5>1. Of("action", n)' = Of("action", p) /\ Of("recover", n)' = Of("recover", p)
            BY <2>1, <4>6
          <5> QED
            BY <2>2, <4>1, <4>6, <5>1
        <4> QED
          BY <2>2, <4>4, <4>5, <4>6
      <3> QED
        BY <1>1, <1>3, <1>4, <1>5, <1>6, <3>1 DEF MetersCountHistory
    <2>8. SpentIsSum'
      <3>1. Meter(p).spentInWindow = WindowSum(p) /\ Meter(p).spentInWindow \in Nat
        BY <1>1, <2>1, <2>3 DEF SpentIsSum, Meters
      <3>2. bx.out # NoOut => bx.out.m.spentInWindow = WindowSum(n)'
        BY <1>0, <1>1, <1>5, <1>8, <2>2, <2>4, <3>1, NewWindowSum
      <3> QED
        BY <1>1, <1>3, <1>4, <1>5, <1>6, <3>2 DEF SpentIsSum
    <2>9. \A w \in Of("action", p) : Opens(w)' => chain[w].now <= Meter(p).windowStart
      BY <1>1, <1>4, <2>1 DEF RollsBehind
    <2>10. \A w \in Of("action", p) : chain[w].now \in Nat /\ chain'[w] = chain[w] /\ w \in Txids
      <3>1. \A w \in Txids : chain[w] \in MinedTx
        BY <1>1 DEF ChainInv, ChainTypeOK, Txids
      <3> QED
        BY <1>3, <1>4, <2>1, <3>1 DEF MinedTx
    <2>11. bx.op = "action" => (Opens(n)' <=> Rolls(Meter(p), bx.now))
      BY <1>0, <1>1, <1>8, OpensIsRolls
    <2>12. RollsBehind'
      <3>1. ASSUME bx.out # NoOut, NEW w \in Of("action", n)', Opens(w)'
            PROVE  chain'[w].now <= bx.out.m.windowStart
        <4>1. Meter(p).windowStart \in Nat
          BY <2>3 DEF Meters
        <4>2. CASE w \in Of("action", p)
          <5>1. chain'[w].now \in Nat /\ chain'[w].now <= Meter(p).windowStart
            BY <2>9, <2>10, <3>1, <4>2
          <5>2. Meter(p).windowStart <= bx.out.m.windowStart /\ bx.out.m.windowStart \in Nat
            <6>1. CASE bx.op = "action" /\ Rolls(Meter(p), bx.now)
              BY <1>5, <2>4, <4>1, <6>1, AgentTeaConstants DEF Rolls
            <6>2. CASE bx.op = "action" /\ ~ Rolls(Meter(p), bx.now)
              BY <2>4, <4>1, <6>2
            <6>3. CASE bx.op # "action"
              BY <2>2, <3>1, <4>1, <6>3
            <6> QED
              BY <6>1, <6>2, <6>3
          <5> QED
            BY <4>1, <5>1, <5>2
        <4>3. CASE w \notin Of("action", p)
          <5>1. bx.op = "action" /\ w = n
            BY <2>1, <3>1, <4>3
          <5> QED
            BY <1>5, <2>4, <2>11, <3>1, <5>1
        <4> QED
          BY <4>2, <4>3
      <3>2. ASSUME NEW t \in Txids, chain'[t].out # NoOut, NEW w \in Of("action", t)', Opens(w)'
            PROVE  chain'[w].now <= Meter(t)'.windowStart
        BY <1>1, <1>3, <1>4, <3>2 DEF RollsBehind
      <3> QED
        BY <1>3, <1>5, <1>6, <3>1, <3>2 DEF RollsBehind
    <2>13. RollsApart'
      <3>1. ASSUME bx.op = "action", Opens(n)', NEW w \in Of("action", p), Opens(w)'
            PROVE  bx.now - chain'[w].now >= WindowDuration
        <4>1. bx.now - Meter(p).windowStart >= WindowDuration
          BY <2>11, <3>1 DEF Rolls
        <4>2. chain'[w].now <= Meter(p).windowStart /\ chain'[w].now \in Nat
          BY <2>9, <2>10, <3>1
        <4> QED
          BY <1>5, <2>3, <4>1, <4>2, AgentTeaConstants DEF Meters
      <3>2. ASSUME NEW t \in Txids, chain'[t].op = "action", Opens(t)',
                   NEW w \in Of("action", t)' \ {t}, Opens(w)'
            PROVE  chain'[t].now - chain'[w].now >= WindowDuration
        BY <1>1, <1>3, <1>4, <3>2 DEF RollsApart
      <3>3. bx.op = "action" => Of("action", n)' \ {n} \subseteq Of("action", p)
        BY <2>1
      <3> QED
        BY <1>3, <1>5, <3>1, <3>2, <3>3 DEF RollsApart
    <2> QED
      BY <1>2, <2>5, <2>6, <2>7, <2>8, <2>12, <2>13 DEF MeterInv
  <1> QED
    BY <1>7, <1>8

(* The meters' invariant holds of every reachable chain.                    *)
LEMMA MeterInvariant == ChainSpec => []MeterInv
  <1>1. ChainInit => MeterInv
    <2> SUFFICES ASSUME ChainInit PROVE MeterInv
      OBVIOUS
    <2>1. ChainInv
      BY InitInv
    <2>2. Txids = {}
      BY DEF ChainInit, Txids
    <2> QED
      BY <2>1, <2>2 DEF MeterInv, Spends, ActionsMade, MetersCountHistory, SpentIsSum, RollsBehind,
                        RollsApart
  <1>2. MeterInv /\ [ChainNext]_chainVars => MeterInv'
    <2> SUFFICES ASSUME MeterInv, [ChainNext]_chainVars PROVE MeterInv'
      OBVIOUS
    <2>1. ChainInv /\ ChainTypeOK
      BY DEF MeterInv, ChainInv
    <2>2. CASE UNCHANGED chain
      <3>1. ChainInv'
        BY <2>1, NextInv
      <3>2. UNCHANGED <<Txids, Spends, ActionsMade>>
        BY <2>2 DEF Txids, Spends, ActionsMade, Amount, Meter
      <3>3. UNCHANGED <<MetersCountHistory, RollsBehind, RollsApart>>
        BY <2>2 DEF Txids, MetersCountHistory, RollsBehind, RollsApart, Of, Upto, Opens, Meter
      <3>4. UNCHANGED SpentIsSum
        <4>1. WindowSums'
          BY WindowSumIs, PTL
        <4>2. ASSUME NEW t PROVE UNCHANGED <<WindowOf(t), AmountsOf(WindowOf(t))>>
          BY <2>2 DEF WindowOf, AmountsOf, Of, Upto, Opens, Meter, Txids
        <4>3. ASSUME NEW t PROVE UNCHANGED WindowSum(t)
          BY <4>1, <4>2, WindowSumIs DEF WindowSums
        <4> QED
          BY <2>2, <4>3 DEF SpentIsSum, Txids, Meter
      <3> QED
        BY <3>1, <3>2, <3>3, <3>4 DEF MeterInv
    <2>3. CASE ~ UNCHANGED chain
      BY <2>1, <2>3, StepShape, MeterAccept DEF chainVars
    <2> QED
      BY <2>2, <2>3
  <1> QED
    BY <1>1, <1>2, PTL DEF ChainSpec

(* The counters in an identity output count its actions and recoveries, and *)
(* the tier follows from them, whoever spent the outputs before it.         *)
THEOREM ChainMetersCountHistory == ChainSpec => []MetersCountHistory
  <1>1. MeterInv => MetersCountHistory
    BY DEF MeterInv
  <1> QED
    BY <1>1, MeterInvariant, PTL

(* Between two rolls of the window no more than dailyLimit is spent, in     *)
(* receipts of at most perTxLimit, and two rolls are a full window of       *)
(* claimed time apart: for any limits and any claimed times.                *)
THEOREM ChainWindowBudget == ChainSpec => []WindowBudget
  <1>1. MeterInv => WindowBudget
    BY DEF MeterInv, ActionsMade, SpentIsSum, RollsApart, WindowBudget, WindowSum
  <1> QED
    BY <1>1, MeterInvariant, PTL

-----------------------------------------------------------------------------
(* The refinement.  An unspent transaction of an identity is its tip, so    *)
(* the identity is read off that one.                                       *)
LEMMA TipIs ==
  ASSUME ChainTypeOK, OneTip, NEW t \in Txids, ~ Spent(t)
  PROVE  Tip(chain[t].gen) = t
  <1>1. \A u \in Txids : chain[u].gen = chain[t].gen /\ ~ Spent(u) => u = t
    <2>1. Txids \subseteq Nat
      BY DEF Txids
    <2> QED
      BY <2>1 DEF OneTip
  <1> QED
    BY <1>1 DEF Tip

(* What the identity of an unspent output is: ended if that is no output,   *)
(* live with what the output says otherwise.                                *)
LEMMA IdentityIs ==
  ChainTypeOK /\ OneTip =>
    \A t \in Txids : ~ Spent(t) =>
      Identity(chain[t].gen) =
        IF chain[t].out = NoOut THEN Ledger!Ended
        ELSE [phase |-> "live", agent |-> chain[t].out.agent, m |-> chain[t].out.m]
  <1> SUFFICES ASSUME ChainTypeOK, OneTip, NEW t \in Txids, ~ Spent(t)
               PROVE  Identity(chain[t].gen) =
                        IF chain[t].out = NoOut THEN Ledger!Ended
                        ELSE [phase |-> "live", agent |-> chain[t].out.agent, m |-> chain[t].out.m]
    OBVIOUS
  <1>1. Tip(chain[t].gen) = t
    BY TipIs
  <1>2. {u \in Txids : chain[u].gen = chain[t].gen} # {}
    OBVIOUS
  <1>3. genesis_state = Ledger!genesis_state
    BY DEF genesis_state, Ledger!genesis_state
  <1> QED
    BY <1>1, <1>2, <1>3 DEF Identity, Ledger!Ended

(* A genesis no transaction belongs to is an identity that is absent.       *)
LEMMA IdentityAbsent ==
  \A g : (\A t \in Txids : chain[t].gen # g) => Identity(g) = Ledger!Absent
  <1> SUFFICES ASSUME NEW g, \A t \in Txids : chain[t].gen # g
               PROVE  Identity(g) = Ledger!Absent
    OBVIOUS
  <1>1. {u \in Txids : chain[u].gen = g} = {}
    OBVIOUS
  <1>2. genesis_state = Ledger!genesis_state
    BY DEF genesis_state, Ledger!genesis_state
  <1> QED
    BY <1>1, <1>2 DEF Identity, Ledger!Absent

(* The empty chain is the ledger on which every identity is absent.         *)
LEMMA LedgerInitially == ChainInit => Ledger!LedgerInit
  <1> SUFFICES ASSUME ChainInit PROVE Ledger!LedgerInit
    OBVIOUS
  <1>1. Txids = {}
    BY DEF ChainInit, Txids
  <1>2. \A g : Identity(g) = Ledger!Absent
    BY <1>1, IdentityAbsent
  <1> QED
    BY <1>2 DEF Ledger!LedgerInit

(* The same facts of the next state.                                        *)
LEMMA IdentityNext ==
  /\ ChainTypeOK' /\ OneTip' =>
       \A t \in Txids' : ~ Spent(t)' =>
         Identity(chain[t].gen)' =
           IF chain'[t].out = NoOut THEN Ledger!Ended
           ELSE [phase |-> "live", agent |-> chain'[t].out.agent, m |-> chain'[t].out.m]
  /\ \A g : (\A t \in Txids' : chain'[t].gen # g) => Identity(g)' = Ledger!Absent
  <1>1. (ChainTypeOK /\ OneTip =>
          \A t \in Txids : ~ Spent(t) =>
            Identity(chain[t].gen) =
              IF chain[t].out = NoOut THEN Ledger!Ended
              ELSE [phase |-> "live", agent |-> chain[t].out.agent, m |-> chain[t].out.m])'
    BY IdentityIs, PTL
  <1>2. (\A g : (\A t \in Txids : chain[t].gen # g) => Identity(g) = Ledger!Absent)'
    BY IdentityAbsent, PTL
  <1>3. Ledger!Ended' = Ledger!Ended /\ Ledger!Absent' = Ledger!Absent
    BY DEF Ledger!Ended, Ledger!Absent, Ledger!genesis_state
  <1> QED
    BY <1>1, <1>2, <1>3

(* The ledger's metering is the contract's.                                 *)
LEMMA SameMetering ==
  \A m, a, now : Ledger!apply_action(m, a, now) = apply_action(m, a, now)
  BY DEF apply_action, Ledger!apply_action, Rolls, Ledger!Rolls

(* An accepted transaction touches the identity it belongs to only.         *)
LEMMA OthersStay ==
  ASSUME ChainInv, ChainInv', NEW bx, Typed(bx), Accept(bx), NEW h, h # Gen(bx)
  PROVE  Identity(h)' = Identity(h)
  <1> DEFINE n == Len(chain) + 1
  <1>0. /\ ChainTypeOK /\ OneTip /\ SomeTip /\ GenesisFirst /\ PrevFirst
        /\ ChainTypeOK' /\ OneTip'
    BY DEF ChainInv
  <1>1. /\ Txids' = Txids \cup {n} /\ \A t \in Txids : chain'[t] = chain[t]
        /\ chain'[n] = Mined(bx)
    BY <1>0, AcceptAppends
  <1>2. chain'[n].gen = Gen(bx)
    BY <1>1 DEF Mined
  <1>3. \A t \in Txids : Spent(t)' <=> Spent(t) \/ t = bx.prev
    BY <1>0, AcceptSpends
  <1>4. CASE \A t \in Txids : chain[t].gen # h
    <2>1. \A t \in Txids' : chain'[t].gen # h
      BY <1>1, <1>2, <1>4
    <2> QED
      BY <1>4, <2>1, IdentityAbsent, IdentityNext
  <1>5. ASSUME NEW t \in Txids, chain[t].gen = h PROVE Identity(h)' = Identity(h)
    <2>1. PICK u \in Txids : chain[u].gen = h /\ ~ Spent(u)
      BY <1>0, <1>5 DEF SomeTip
    <2>2. u # bx.prev
      <3>1. CASE bx.prev = 0
        BY <3>1 DEF Txids
      <3>2. CASE bx.prev # 0
        BY <2>1, <3>2 DEF Gen
      <3> QED
        BY <3>1, <3>2
    <2>3. u \in Txids' /\ chain'[u] = chain[u] /\ ~ Spent(u)'
      BY <1>1, <1>3, <2>1, <2>2
    <2>4. Identity(h) = IF chain[u].out = NoOut THEN Ledger!Ended
                        ELSE [phase |-> "live", agent |-> chain[u].out.agent, m |-> chain[u].out.m]
      BY <1>0, <2>1, IdentityIs
    <2>5. Identity(chain[u].gen)' = IF chain'[u].out = NoOut THEN Ledger!Ended
                        ELSE [phase |-> "live", agent |-> chain'[u].out.agent, m |-> chain'[u].out.m]
      BY <1>0, <2>3, IdentityNext
    <2>6. Identity(chain[u].gen)' = Identity(h)'
      BY <2>1, <2>3 DEF Identity, Tip
    <2> QED
      BY <2>3, <2>4, <2>5, <2>6
  <1> QED
    BY <1>4, <1>5

(* Its own identity goes through one operation of the ledger.               *)
LEMMA OwnOperates ==
  ASSUME ChainInv, ChainInv', NEW bx, Typed(bx), Accept(bx), NEW g, g = Gen(bx)
  PROVE  Identity(g)' = Identity(g) \/ Ledger!Operation(Identity(g), Identity(g)')
  <1> DEFINE n == Len(chain) + 1
             p == bx.prev
             after == IF bx.out = NoOut THEN Ledger!Ended
                      ELSE [phase |-> "live", agent |-> bx.out.agent, m |-> bx.out.m]
  <1>0. /\ ChainTypeOK /\ OneTip /\ GenesisFirst /\ PrevFirst /\ ChainTypeOK' /\ OneTip'
    BY DEF ChainInv
  <1>1. /\ Txids' = Txids \cup {n} /\ chain'[n] = Mined(bx) /\ Valid(bx)
        /\ \A t \in Txids : chain'[t] = chain[t]
    BY <1>0, AcceptAppends DEF Accept
  <1>2. chain'[n].gen = g /\ chain'[n].out = bx.out
    BY <1>1 DEF Mined
  <1>3. Identity(g)' = after
    <2>1. \A t \in Txids' : chain'[t].prev # n
      BY <1>0, AcceptSpends
    <2>2. PICK k : k = n
      OBVIOUS
    <2>3. k \in Txids' /\ ~ Spent(k)' /\ chain'[k].gen = g /\ chain'[k].out = bx.out
      BY <1>1, <1>2, <2>1, <2>2 DEF Spent
    <2>4. Identity(chain[k].gen)' = IF chain'[k].out = NoOut THEN Ledger!Ended
                        ELSE [phase |-> "live", agent |-> chain'[k].out.agent, m |-> chain'[k].out.m]
      BY <1>0, <2>3, IdentityNext
    <2>5. Identity(chain[k].gen)' = Identity(g)'
      BY <2>3 DEF Identity, Tip
    <2> QED
      BY <2>3, <2>4, <2>5
  <1>4. CASE p = 0
    <2>1. \A t \in Txids : chain[t].gen # g
      BY <1>0, <1>4 DEF Gen, GenesisFirst, Txids, ChainTypeOK
    <2>2. Identity(g) = Ledger!Absent
      BY <2>1, IdentityAbsent
    <2>3. PICK k \in Keys : bx.out = locking_script(k, genesis_state)
      BY <1>1, <1>4 DEF Valid
    <2>4. bx.out \in IdentityOut
      BY <2>3 DEF locking_script, locking_script_ex, genesis_state, IdentityOut, Meters
    <2>5. after = [phase |-> "live", agent |-> k, m |-> Ledger!genesis_state]
      BY <2>3, <2>4, NoOutAssumption DEF locking_script, locking_script_ex, genesis_state, Ledger!genesis_state
    <2> QED
      BY <1>3, <2>2, <2>5 DEF Ledger!Operation, Ledger!Create
  <1>5. CASE p # 0
    <2>1. Live(p)
      BY <1>1, <1>5 DEF Valid
    <2>2. p \in Txids /\ chain[p].out \in IdentityOut /\ chain[p].out # NoOut /\ ~ Spent(p) /\ g = chain[p].gen
      BY <1>0, <1>5, <2>1, SpendsTheLast DEF Live, Gen
    <2> DEFINE prev == chain[p].out
               before == [phase |-> "live", agent |-> prev.agent, m |-> prev.m]
    <2>3. Identity(g) = before
      BY <1>0, <2>2, IdentityIs
    <2>4. CASE bx.out = NoOut
      BY <1>3, <2>3, <2>4 DEF Ledger!Operation, Ledger!End
    <2>5. CASE bx.op = "action" /\ bx.out # NoOut
      <3>1. /\ bx.now <= clock /\ bx.amount > 0 /\ bx.amount <= PerTxLimit
            /\ apply_action(prev.m, bx.amount, bx.now).spentInWindow <= DailyLimit
            /\ bx.out = [prev EXCEPT !.m = apply_action(prev.m, bx.amount, bx.now)]
        BY <1>1, <1>5, <2>5 DEF Valid, executeAction
      <3>2. bx.amount \in 1..MaxAmount /\ bx.now \in 0..clock
        BY <1>0, <3>1, ChainBounds DEF Typed, Amounts, ChainTypeOK
      <3>3. after = [before EXCEPT !.m = apply_action(prev.m, bx.amount, bx.now)]
        BY <2>2, <2>5, <3>1 DEF IdentityOut
      <3>4. Ledger!Act(before, after)
        BY <3>1, <3>2, <3>3, SameMetering DEF Ledger!Act
      <3> QED
        BY <1>3, <2>3, <3>4 DEF Ledger!Operation
    <2>6. CASE bx.op = "recover" /\ bx.out # NoOut
      <3>1. bx.out = [prev EXCEPT !.agent = bx.out.agent, !.m.recoveryCount = @ + 1] /\ bx.out.agent \in Keys
        BY <1>1, <1>5, <2>6 DEF Valid, recover, Typed
      <3>2. bx.out.m = [prev.m EXCEPT !.recoveryCount = @ + 1]
        BY <2>2, <3>1 DEF IdentityOut
      <3>3. after = [before EXCEPT !.agent = bx.out.agent, !.m.recoveryCount = @ + 1]
        <4>1. after = [phase |-> "live", agent |-> bx.out.agent,
                       m |-> [prev.m EXCEPT !.recoveryCount = @ + 1]]
          BY <2>6, <3>2
        <4>2. before \in [phase : {"live"}, agent : Keys, m : Meters]
          <5>1. prev.agent \in Keys /\ prev.m \in Meters
            BY <2>2 DEF IdentityOut
          <5> QED
            BY <5>1
        <4> HIDE DEF before
        <4>3. PICK x : x = [before EXCEPT !.agent = bx.out.agent, !.m.recoveryCount = @ + 1]
          OBVIOUS
        <4>4. x = [phase |-> before.phase, agent |-> bx.out.agent,
                   m |-> [before.m EXCEPT !.recoveryCount = @ + 1]]
          BY <4>2, <4>3
        <4>5. before.phase = "live" /\ before.m = prev.m
          BY DEF before
        <4> QED
          BY <4>1, <4>3, <4>4, <4>5
      <3>4. Ledger!Rotate(before, after)
        BY <3>1, <3>3 DEF Ledger!Rotate
      <3> QED
        BY <1>3, <2>3, <3>4 DEF Ledger!Operation
    <2>7. CASE bx.op \in {"stake", "slash", "revoke"} /\ bx.out # NoOut
      <3>1. bx.out = prev
        BY <1>1, <1>5, <2>7 DEF Valid, stake, slashValidator, revoke
      <3> QED
        BY <1>3, <2>3, <2>7, <3>1
    <2> QED
      BY <1>1, <1>5, <2>4, <2>5, <2>6, <2>7 DEF Valid
  <1> QED
    BY <1>4, <1>5
(* Every step of the chain is one operation on one identity, or none.       *)
LEMMA LedgerStep ==
  ASSUME ChainInv, ChainInv', [ChainNext]_chainVars
  PROVE  [Ledger!LedgerNext]_([g \in 1..MaxTx |-> Identity(g)])
  <1> DEFINE ident == [g \in 1..MaxTx |-> Identity(g)]
  <1>1. ASSUME UNCHANGED chain PROVE UNCHANGED ident
    <2>1. \A g \in 1..MaxTx : Identity(g)' = Identity(g)
      BY <1>1 DEF Identity, Tip, Spent, Txids
    <2> QED
      BY <2>1
  <1>2. ASSUME NEW bx, Typed(bx), Accept(bx), UNCHANGED clock PROVE [Ledger!LedgerNext]_ident
    <2> DEFINE g == Gen(bx)
    <2>1. g \in 1..MaxTx
      <3>1. Mined(bx) \in MinedTx
        BY <1>2, AcceptAppends DEF ChainInv
      <3> QED
        BY <3>1 DEF Mined, MinedTx
    <2>2. PICK k \in 1..MaxTx : k = Gen(bx)
      BY <2>1
    <2>3. \A h \in (1..MaxTx) \ {k} : Identity(h)' = Identity(h)
      BY <1>2, <2>2, OthersStay
    <2>4. Identity(k)' = Identity(k) \/ Ledger!Operation(Identity(k), Identity(k)')
      BY <1>2, <2>2, OwnOperates
    <2>5. CASE Identity(k)' = Identity(k)
      BY <2>3, <2>5
    <2>6. CASE Identity(k)' # Identity(k) /\ Ledger!Operation(Identity(k), Identity(k)')
      <3>1. \A h \in 1..MaxTx : ident[h] = Identity(h) /\ ident'[h] = Identity(h)'
        OBVIOUS
      <3>2. /\ ident'[k] # ident[k] /\ Ledger!Operation(ident[k], ident'[k])
            /\ \A h \in (1..MaxTx) \ {k} : ident'[h] = ident[h]
        BY <2>3, <2>6, <3>1
      <3> QED
        BY <1>2, <3>2 DEF Ledger!LedgerNext
    <2> QED
      BY <2>4, <2>5, <2>6
  <1>3. CASE UNCHANGED chainVars
    BY <1>1, <1>3 DEF chainVars
  <1>4. CASE ChainNext
    <2>1. ChainTypeOK
      BY DEF ChainInv
    <2> QED
      BY <1>1, <1>2, <1>4, <2>1, StepShape
  <1> QED
    BY <1>3, <1>4

(* The chain of outputs behaves as one object per identity that changes by  *)
(* one atomic operation at a time: whoever competes for an output, what is  *)
(* accepted is an operation the abstract identity allows.                   *)
THEOREM ChainImplementsLedger == ChainSpec => ImplementsLedger
  <1>1. ChainInv /\ ChainInv' /\ [ChainNext]_chainVars
          => [Ledger!LedgerNext]_([g \in 1..MaxTx |-> Identity(g)])
    BY LedgerStep
  <1> QED
    BY <1>1, LedgerInitially, ChainInvariant, PTL DEF ChainSpec, ImplementsLedger, Ledger!LedgerSpec

-----------------------------------------------------------------------------
(* The links of the chain: a spend continues the identity of the output it  *)
(* takes, a revocation leaves none, and no output is spent twice.           *)
LinksSound ==
  /\ \A t \in Txids : chain[t].op = "deploy" => chain[t].prev = 0 /\ chain[t].gen = t
  /\ \A t \in Txids : chain[t].op # "deploy" =>
       /\ chain[t].prev \in Txids /\ chain[chain[t].prev].out # NoOut
       /\ chain[t].gen = chain[chain[t].prev].gen
  /\ \A t \in Txids : chain[t].op = "revoke" => chain[t].out = NoOut
  /\ \A t, u \in Txids : chain[t].prev = chain[u].prev /\ chain[t].prev # 0 => t = u

(* What is on the chain stays there.                                        *)
Grows == Txids \subseteq Txids' /\ \A t \in Txids : chain'[t] = chain[t]

(* An accepted transaction keeps the links sound.                           *)
LEMMA LinksAccept ==
  ASSUME ChainInv, LinksSound, NEW tr, Typed(tr), Accept(tr)
  PROVE  LinksSound'
  <1>0. PICK n : n = Len(chain) + 1
    OBVIOUS
  <1>1. /\ Txids' = Txids \cup {n} /\ n \notin Txids /\ \A t \in Txids : chain'[t] = chain[t]
        /\ chain'[n] = Mined(tr)
    BY <1>0, AcceptAppends DEF ChainInv
  <1>2. /\ chain'[n].op = tr.op /\ chain'[n].prev = tr.prev /\ chain'[n].out = tr.out
        /\ chain'[n].gen = IF tr.prev = 0 THEN n ELSE chain[tr.prev].gen
    BY <1>0, <1>1 DEF Mined, Gen
  <1>3. \/ tr.prev = 0 /\ tr.op = "deploy"
        \/ /\ tr.prev \in Txids /\ tr.prev # 0 /\ tr.op # "deploy"
           /\ chain[tr.prev].out # NoOut /\ ~ Spent(tr.prev)
    BY DEF Accept, Valid, Live
  <1>4. tr.op = "revoke" => tr.out = NoOut
    BY DEF Accept, Valid, revoke
  <1>5. \A t \in Txids : chain[t].op = "deploy" => chain[t].prev = 0 /\ chain[t].gen = t
    BY DEF LinksSound
  <1>6. \A t \in Txids : chain[t].op # "deploy" =>
          /\ chain[t].prev \in Txids /\ chain[chain[t].prev].out # NoOut
          /\ chain[t].gen = chain[chain[t].prev].gen
    BY DEF LinksSound
  <1>7. \A t \in Txids' : chain'[t].op = "deploy" => chain'[t].prev = 0 /\ chain'[t].gen = t
    BY <1>1, <1>2, <1>3, <1>5
  <1>8. ASSUME NEW t \in Txids', chain'[t].op # "deploy"
        PROVE  /\ chain'[t].prev \in Txids' /\ chain'[chain'[t].prev].out # NoOut
               /\ chain'[t].gen = chain'[chain'[t].prev].gen
    <2>1. CASE t \in Txids
      BY <1>1, <1>6, <1>8, <2>1
    <2>2. CASE t = n
      BY <1>1, <1>2, <1>3, <1>8, <2>2
    <2> QED
      BY <1>1, <2>1, <2>2
  <1>9. \A t \in Txids' : chain'[t].op = "revoke" => chain'[t].out = NoOut
    BY <1>1, <1>2, <1>4 DEF LinksSound
  <1>10. ASSUME NEW t \in Txids', NEW u \in Txids', chain'[t].prev = chain'[u].prev,
                chain'[t].prev # 0
         PROVE  t = u
    <2>1. \A v \in Txids : chain[v].prev = tr.prev => tr.prev = 0
      BY <1>3 DEF Spent
    <2> QED
      BY <1>1, <1>2, <1>10, <2>1 DEF LinksSound
  <1> QED
    BY <1>7, <1>8, <1>9, <1>10 DEF LinksSound

(* One step of the chain: a transaction is accepted, or it is left alone.   *)
ChainStep ==
  \/ UNCHANGED <<clock, approvals>> /\ \E tr : Typed(tr) /\ Accept(tr)
  \/ UNCHANGED chain /\ clock' \in Nat /\ approvals' \subseteq Sigs

(* Such a step keeps what is known of the chain.                            *)
LEMMA ChainStepKeeps ==
  ASSUME ChainInv, LinksSound, ChainStep
  PROVE  ChainInv' /\ LinksSound' /\ Grows
  <1>1. CASE UNCHANGED <<clock, approvals>> /\ \E tr : Typed(tr) /\ Accept(tr)
    <2>1. PICK tr : Typed(tr) /\ Accept(tr)
      BY <1>1
    <2>2. ChainInv' /\ LinksSound'
      BY <1>1, <2>1, AcceptInv, LinksAccept
    <2>3. Grows
      BY <2>1, AcceptAppends DEF ChainInv, Grows
    <2> QED
      BY <2>2, <2>3
  <1>2. CASE UNCHANGED chain /\ clock' \in Nat /\ approvals' \subseteq Sigs
    <2>1. ChainInv'
      BY <1>2, StillInv
    <2>2. LinksSound' /\ Grows
      BY <1>2 DEF LinksSound, Grows, Txids
    <2> QED
      BY <2>1, <2>2
  <1> QED
    BY <1>1, <1>2 DEF ChainStep

-----------------------------------------------------------------------------
(* A file agentd wrote: the lineage of its identity, from the deploy to the *)
(* tip it mirrors and the revocation that spent the tip, if it records one. *)
GoodFile(f) ==
  /\ f \in StateFile /\ MirrorsTip(f)
  /\ LET h == f.history
         n == Len(h) IN
     /\ n >= 1 /\ h[1] = f.genesis
     /\ \A i \in 1..n : h[i] \in Txids /\ h[i] <= h[n]
     /\ \A i \in 2..n : chain[h[i]].prev = h[i-1]
     /\ IF f.status = "revoked"
        THEN n > 1 /\ chain[h[n]].op = "revoke" /\ h[n-1] = f.tip
        ELSE h[n] = f.tip

(* It stays one.                                                            *)
LEMMA GoodFileStable ==
  ASSUME Grows, NEW f, GoodFile(f) PROVE GoodFile(f)'
  <1>1. MirrorsTip(f)'
    BY DEF Grows, GoodFile, MirrorsTip
  <1>2. f \in StateFile /\ f.history \in Seq(1..MaxTx) /\ Len(f.history) \in Nat
    BY DEF GoodFile, StateFile
  <1>3. \A i \in 1..Len(f.history) : f.history[i] \in Txids /\ chain'[f.history[i]] = chain[f.history[i]]
    BY DEF Grows, GoodFile
  <1>4. /\ \A i \in 1..Len(f.history) : f.history[i] \in Txids'
                                        /\ f.history[i] <= f.history[Len(f.history)]
        /\ \A i \in 2..Len(f.history) : chain'[f.history[i]].prev = f.history[i-1]
    BY <1>2, <1>3 DEF Grows, GoodFile
  <1>5. IF f.status = "revoked"
        THEN /\ Len(f.history) > 1 /\ chain'[f.history[Len(f.history)]].op = "revoke"
             /\ f.history[Len(f.history) - 1] = f.tip
        ELSE f.history[Len(f.history)] = f.tip
    BY <1>2, <1>3 DEF GoodFile
  <1> QED
    BY <1>1, <1>2, <1>4, <1>5 DEF GoodFile

-----------------------------------------------------------------------------
(* The files anybody has: on the disk, or in the memory of a process.       *)
Files == {file, durable} \cup {st[p] : p \in Procs}

Steps == {"idle", "preflight", "build", "broadcast", "journal", "rename", "sync", "keys"}
Busy(p) == pc[p] \in {"preflight", "build", "broadcast", "journal", "rename"}
Sent(p) == pc[p] \in {"journal", "rename"}

AgentdTypeOK ==
  /\ pc \in [Procs -> Steps] /\ cmd \in [Procs -> Commands \cup {"none"}]
  /\ st = [p \in Procs |-> st[p]] /\ tx = [p \in Procs |-> tx[p]] /\ txid \in [Procs -> Nat]
  /\ (\A p \in Procs : Typed(tx[p]))
  /\ clock >= StartClock

FilesGood == \A f \in Files : f # NoFile => GoodFile(f)

(* A command works on the file it read, a deploy on none; what it has built *)
(* spends the tip of that file.                                             *)
CmdsMatch == \A p \in Procs :
  Busy(p) => cmd[p] \in Commands /\ (cmd[p] = "deploy" <=> st[p] = NoFile)
BuiltMatch == \A p \in Procs : pc[p] = "broadcast" =>
  tx[p].op = cmd[p] /\ tx[p].prev = IF cmd[p] = "deploy" THEN 0 ELSE st[p].tip

(* Once the chain has taken the spend, the file about to be written is good *)
(* already.                                                                 *)
SentGood == \A p \in Procs : Sent(p) =>
  /\ txid[p] \in Txids
  /\ cmd[p] # "deploy" => st[p].status # "revoked" /\ chain[txid[p]].prev = st[p].tip
  /\ GoodFile(NewState(cmd[p], st[p], tx[p], txid[p]))

(* And its transaction is in no file, nobody but strangers has built on it, *)
(* and no other process is about to record it.                              *)
Fresh == \A p \in Procs : Sent(p) =>
  /\ \A f \in Files : txid[p] \notin Recorded(f)
  /\ \A t \in Txids : chain[t].prev = txid[p] => t \in unrecorded
  /\ \A q \in Procs \ {p} : Sent(q) => txid[q] # txid[p]

(* No process remembers more of the identity on the disk than the disk.     *)
Ahead == \A p \in Procs : st[p] # NoFile /\ file # NoFile /\ st[p].genesis = file.genesis =>
  Len(st[p].history) <= Len(file.history)

Journaled ==
  /\ \A f \in Files : Recorded(f) \subseteq journal \cup unjournaled
  /\ \A p \in Procs : pc[p] = "rename" => txid[p] \in journal \cup unjournaled

AgentdInv ==
  /\ ChainInv /\ LinksSound /\ AgentdTypeOK
  /\ FilesGood /\ CmdsMatch /\ BuiltMatch /\ SentGood /\ Fresh /\ Ahead /\ Journaled
  /\ TipSpendAccounted

(* A file is a state file with a history of at least one transaction.       *)
LEMMA GoodFileFacts ==
  ASSUME NEW f, GoodFile(f)
  PROVE  /\ f \in StateFile /\ f # NoFile
         /\ f.history \in Seq(1..MaxTx) /\ Len(f.history) \in Nat \ {0}
         /\ f.history[1] = f.genesis
         /\ f.tip \in Recorded(f) /\ f.genesis \in Recorded(f)
         /\ Recorded(f) = {f.history[i] : i \in 1..Len(f.history)}
         /\ Recorded(f) \subseteq Txids
         /\ f.status # "revoked" => f.history[Len(f.history)] = f.tip
         /\ chain[f.tip].out \in IdentityOut \cup {NoOut} => chain[f.tip].out \in IdentityOut
  <1>1. f \in StateFile /\ f # NoFile
    BY AgentdConstants DEF GoodFile
  <1>2. /\ f.history \in Seq(1..MaxTx) /\ Len(f.history) \in Nat \ {0}
        /\ f.history[1] = f.genesis
    BY <1>1 DEF GoodFile, StateFile
  <1>3. Recorded(f) = {f.history[i] : i \in 1..Len(f.history)}
    BY <1>1 DEF Recorded
  <1>4. Recorded(f) \subseteq Txids
    BY <1>3 DEF GoodFile
  <1>5. f.genesis \in Recorded(f)
    BY <1>2, <1>3
  <1>6. \E i \in 1..Len(f.history) : f.history[i] = f.tip
    <2>1. CASE f.status = "revoked"
      <3>1. Len(f.history) > 1 /\ f.history[Len(f.history) - 1] = f.tip
        BY <2>1 DEF GoodFile
      <3>2. Len(f.history) - 1 \in 1..Len(f.history)
        BY <1>2, <3>1
      <3> QED
        BY <3>1, <3>2
    <2>2. CASE f.status # "revoked"
      <3>1. f.history[Len(f.history)] = f.tip
        BY <2>2 DEF GoodFile
      <3>2. Len(f.history) \in 1..Len(f.history)
        BY <1>2
      <3> QED
        BY <3>1, <3>2
    <2> QED
      BY <2>1, <2>2
  <1>7. f.tip \in Recorded(f)
    BY <1>3, <1>6
  <1>8. chain[f.tip].out # NoOut
    BY DEF GoodFile, MirrorsTip
  <1> QED
    BY <1>1, <1>2, <1>3, <1>4, <1>5, <1>7, <1>8 DEF GoodFile

(* The state file after one more entry of the history.                      *)
LEMMA GoodFileTip ==
  ASSUME ChainInv, NEW f, GoodFile(f)
  PROVE  /\ f.tip \in Txids /\ chain[f.tip].out \in IdentityOut
         /\ chain[f.tip].gen = f.genesis
         /\ chain[f.tip].out.m = f.m /\ chain[f.tip].out.agent = f.agent
  <1>1. /\ f.tip \in Txids /\ chain[f.tip].out # NoOut
        /\ chain[f.tip].gen = f.genesis
        /\ chain[f.tip].out.m = f.m /\ chain[f.tip].out.agent = f.agent
    BY DEF GoodFile, MirrorsTip
  <1>2. chain[f.tip] \in MinedTx
    BY <1>1 DEF ChainInv, ChainTypeOK, Txids
  <1> QED
    BY <1>1, <1>2 DEF MinedTx

(* What a process builds.                                                   *)
LEMMA BuildsMatch ==
  ASSUME AgentdInv, NEW p \in Procs, pc[p] = "build", NEW t \in Builds(p)
  PROVE  /\ Typed(t) /\ t.op = cmd[p]
         /\ t.prev = IF cmd[p] = "deploy" THEN 0 ELSE st[p].tip
  <1> DEFINE f == st[p]
  <1>1. cmd[p] \in Commands /\ (cmd[p] # "deploy" => GoodFile(f))
    BY DEF AgentdInv, CmdsMatch, Busy, FilesGood, Files
  <1>2. 0 \in Amounts /\ 0 \in 0..MaxTx /\ {} \in SUBSET Sigs
    BY ChainBounds DEF Amounts
  <1>3. cmd[p] # "deploy" =>
          /\ f.tip \in 0..MaxTx /\ f.genesis \in 1..MaxTx /\ chain[f.tip].out \in IdentityOut
    <2> SUFFICES ASSUME cmd[p] # "deploy"
                 PROVE  /\ f.tip \in 0..MaxTx /\ f.genesis \in 1..MaxTx
                        /\ chain[f.tip].out \in IdentityOut
      OBVIOUS
    <2>1. f \in StateFile /\ chain[f.tip].out \in IdentityOut
      BY <1>1, GoodFileFacts, GoodFileTip DEF AgentdInv
    <2> QED
      BY <2>1, ChainBounds DEF StateFile
  <1>4. CASE cmd[p] = "deploy"
    <2>1. PICK k \in Keys : t = Unsigned("deploy", 0, locking_script(k, genesis_state))
      BY <1>4 DEF Builds, build_deploy
    <2> QED
      BY <1>2, <1>4, <2>1 DEF Unsigned, Typed, Ops
  <1>5. CASE cmd[p] = "action"
    <2>1. t \in build_action(f)
      BY <1>5 DEF Builds
    <2> DEFINE R(a, k, back) ==
          [Unsigned("action", f.tip,
                    locking_script(instance_at_tip(f).agent,
                                   apply_action(instance_at_tip(f).m, a, clock - back)))
           EXCEPT !.signer = k, !.amount = a, !.now = clock - back]
    <2>0. build_action(f) = {R(a, k, back) : a \in Amounts, k \in Keys, back \in 0..MaxBackdate}
      BY DEF build_action, Unsigned
    <2>2. PICK a \in Amounts, k \in Keys, back \in 0..MaxBackdate : t = R(a, k, back)
      <3> HIDE DEF R
      <3> QED BY <2>0, <2>1
    <2>3. /\ t.op = "action" /\ t.prev = f.tip /\ t.amount = a /\ t.now = clock - back
          /\ t.sigs = {}
      <3> DEFINE o == locking_script(instance_at_tip(f).agent,
                                     apply_action(instance_at_tip(f).m, a, clock - back))
                 e == clock - back
      <3>1. t = [Unsigned("action", f.tip, o) EXCEPT !.signer = k, !.amount = a, !.now = e]
        BY <2>2, Zenon
      <3> HIDE DEF o, e, f, R
      <3>2. t.op = "action" /\ t.prev = f.tip /\ t.amount = a /\ t.now = e /\ t.sigs = {}
        BY <3>1 DEF Unsigned
      <3> QED
        BY <3>2 DEF e
    <2>4. clock - back \in Nat
      <3>1. clock \in Nat /\ clock >= StartClock
        BY Zenon DEF AgentdInv, AgentdTypeOK, ChainInv, ChainTypeOK
      <3>2. StartClock \in Nat /\ MaxBackdate \in Nat /\ WindowDuration \in Nat /\ StartClock - MaxBackdate >= WindowDuration
        BY AgentdConstants, ChainBounds, AgentTeaConstants
      <3>3. back \in Int /\ 0 <= back /\ back <= MaxBackdate
        BY <2>2, <3>2
      <3> QED BY <3>1, <3>2, <3>3
    <2> QED
      BY <1>2, <1>3, <1>5, <2>3, <2>4 DEF Typed, Ops
  <1>6. CASE cmd[p] = "recover"
    <2>1. t \in build_recover(f)
      BY <1>6 DEF Builds
    <2> DEFINE inst == instance_at_tip(f)
               next == [inst.m EXCEPT !.recoveryCount = @ + 1]
    <2>0. PICK k \in Keys : \E s \in recover_sigs(f, k) :
            t = [Unsigned("recover", f.tip, locking_script_ex(inst.agent, k, next)) EXCEPT !.sigs = s]
      BY <2>1 DEF build_recover
    <2>2. PICK s \in recover_sigs(f, k) :
            t = [Unsigned("recover", f.tip, locking_script_ex(inst.agent, k, next)) EXCEPT !.sigs = s]
      BY <2>0
    <2>3. /\ t.op = "recover" /\ t.prev = f.tip /\ t.amount = 0 /\ t.now = 0 /\ t.sigs = s
          /\ t.out.agent = k
      BY <2>2 DEF Unsigned, locking_script_ex
    <2>4. s \subseteq Sigs
      <3>1. CASE s \subseteq approvals
        BY <3>1 DEF AgentdInv, ChainInv, ChainTypeOK
      <3>2. CASE s = custodial_sigs(f, k)
        <4>1. recoveryMsg(k, chain[f.tip].out.m.recoveryCount) \in [newAgent : Keys, count : Nat]
          BY <1>3, <1>6 DEF recoveryMsg, IdentityOut, Meters
        <4> DEFINE msg == recoveryMsg(k, chain[f.tip].out.m.recoveryCount)
        <4>2. f.genesis \in 1..MaxTx
          BY <1>3, <1>6
        <4>3. s = {[by |-> g, gen |-> f.genesis, msg |-> msg] : g \in Guardians}
          BY <3>2 DEF custodial_sigs
        <4> HIDE DEF msg, f
        <4> QED
          BY <4>1, <4>2, <4>3 DEF Sigs, msg
      <3> QED
        BY <3>1, <3>2 DEF recover_sigs
    <2> QED
      BY <1>2, <1>3, <1>6, <2>3, <2>4 DEF Typed, Ops
  <1>7. CASE cmd[p] = "revoke"
    <2>1. t \in build_revoke(f)
      BY <1>7 DEF Builds
    <2>2. PICK k \in Keys : t = [Unsigned("revoke", f.tip, NoOut) EXCEPT !.signer = k]
      BY <2>1 DEF build_revoke
    <2>3. t.op = "revoke" /\ t.prev = f.tip /\ t.amount = 0 /\ t.now = 0 /\ t.sigs = {}
      BY <2>2 DEF Unsigned
    <2> QED
      BY <1>2, <1>3, <1>7, <2>3 DEF Typed, Ops
  <1> QED
    BY <1>1, <1>4, <1>5, <1>6, <1>7 DEF Commands

-----------------------------------------------------------------------------
(* A step that replaces no file and whose spends nobody will record: every  *)
(* process stays as it is, is gone, or goes on to its next step.            *)
Same(p) == /\ pc'[p] = pc[p] /\ cmd'[p] = cmd[p] /\ st'[p] = st[p] /\ tx'[p] = tx[p]
           /\ txid'[p] = txid[p]
Gone(p) == /\ pc'[p] = "idle" /\ cmd'[p] = "none" /\ st'[p] = NoFile /\ tx'[p] = NoTx
           /\ txid'[p] = 0 /\ InFlight(p) \subseteq unrecorded'
Moves(p) == /\ \/ pc[p] = "preflight" /\ pc'[p] = "build"
               \/ pc[p] = "sync" /\ pc'[p] = "keys"
               \/ pc[p] = "journal" /\ pc'[p] = "rename" /\ txid[p] \in journal' \cup unjournaled'
            /\ cmd'[p] = cmd[p] /\ st'[p] = st[p] /\ tx'[p] = tx[p] /\ txid'[p] = txid[p]
Starts(p) == /\ pc[p] = "idle" /\ pc'[p] \in {"preflight", "build"}
             /\ cmd'[p] \in Commands /\ st'[p] \in {NoFile, file}
             /\ cmd'[p] = "deploy" <=> st'[p] = NoFile
             /\ tx'[p] = tx[p] /\ txid'[p] = txid[p]
Signs(p) == /\ pc[p] = "build" /\ pc'[p] = "broadcast"
            /\ cmd'[p] = cmd[p] /\ st'[p] = st[p] /\ txid'[p] = txid[p]
            /\ Typed(tx'[p]) /\ tx'[p].op = cmd[p]
            /\ tx'[p].prev = IF cmd[p] = "deploy" THEN 0 ELSE st[p].tip

ProcFunctions ==
  /\ pc = [p \in Procs |-> pc[p]] /\ cmd = [p \in Procs |-> cmd[p]]
  /\ st = [p \in Procs |-> st[p]] /\ tx = [p \in Procs |-> tx[p]]
  /\ txid = [p \in Procs |-> txid[p]]

Quiet ==
  /\ ChainStep /\ clock' >= StartClock /\ Txids' \ Txids \subseteq unrecorded'
  /\ file' = file /\ durable' \in {durable, file}
  /\ journal \subseteq journal' /\ unjournaled \subseteq unjournaled'
  /\ unrecorded \subseteq unrecorded'
  /\ ProcFunctions'
  /\ \A p \in Procs : Same(p) \/ Gone(p) \/ Moves(p) \/ Starts(p) \/ Signs(p)

(* The placeholder is a typed transaction.                                  *)
LEMMA NoTxTyped == Typed(NoTx)
  <1>1. 0 \in Amounts /\ 0 \in 0..MaxTx /\ {} \in SUBSET Sigs
    BY ChainBounds DEF Amounts
  <1> QED
    BY <1>1 DEF Typed, NoTx, Unsigned, Ops

(* The new record of a process that has broadcast stays good and is the     *)
(* same while the chain grows.                                              *)
LEMMA SentStays ==
  ASSUME AgentdInv, Grows, NEW p \in Procs, Sent(p), cmd'[p] = cmd[p], st'[p] = st[p],
         tx'[p] = tx[p], txid'[p] = txid[p]
  PROVE  /\ txid'[p] \in Txids'
         /\ cmd'[p] # "deploy" => st'[p].status # "revoked" /\ chain'[txid'[p]].prev = st'[p].tip
         /\ GoodFile(NewState(cmd[p], st[p], tx[p], txid[p]))'
  <1> DEFINE g == NewState(cmd[p], st[p], tx[p], txid[p])
  <1>1. PICK f : f = g
    OBVIOUS
  <1>2. GoodFile(f)
    BY <1>1 DEF AgentdInv, SentGood
  <1>3. GoodFile(f)'
    BY <1>2, GoodFileStable
  <1>4. g' = g
    BY DEF NewState, deployed_state, actioned_state, recovered_state, revoked_state, advance_json
  <1>5. GoodFile(g)'
    BY <1>1, <1>3, <1>4 DEF GoodFile, MirrorsTip
  <1>6. txid[p] \in Txids /\ chain'[txid[p]] = chain[txid[p]]
    BY DEF AgentdInv, SentGood, Grows
  <1> QED
    BY <1>5, <1>6 DEF AgentdInv, SentGood, Grows

(* A quiet step keeps the invariant.                                        *)
LEMMA QuietInv ==
  ASSUME AgentdInv, Quiet PROVE AgentdInv'
  <1>1. ChainInv' /\ LinksSound' /\ Grows
    BY ChainStepKeeps DEF AgentdInv, Quiet
  <1>2. AgentdTypeOK'
    <2>1. \A p \in Procs : pc'[p] \in Steps /\ cmd'[p] \in Commands \cup {"none"} /\ txid'[p] \in Nat
      BY DEF AgentdInv, AgentdTypeOK, Quiet, Same, Gone, Moves, Starts, Signs, Steps
    <2>2. \A p \in Procs : Typed(tx'[p])
      BY NoTxTyped DEF AgentdInv, AgentdTypeOK, Quiet, Same, Gone, Moves, Starts, Signs
    <2>3. ProcFunctions' /\ clock' >= StartClock
      BY DEF Quiet
    <2> QED
      BY <2>1, <2>2, <2>3 DEF AgentdTypeOK, ProcFunctions, Typed
  <1>3. \A f \in Files' : f = NoFile \/ f \in Files
    BY DEF Quiet, Same, Gone, Moves, Starts, Signs, Files
  <1>4. FilesGood'
    <2>1. \A f \in Files : f # NoFile => GoodFile(f)'
      BY <1>1, GoodFileStable DEF AgentdInv, FilesGood
    <2> QED
      BY <1>3, <2>1 DEF FilesGood
  <1>5. \A p \in Procs : Sent(p)' => /\ Sent(p) /\ cmd'[p] = cmd[p] /\ st'[p] = st[p]
                                     /\ tx'[p] = tx[p] /\ txid'[p] = txid[p]
    BY DEF Quiet, Same, Gone, Moves, Starts, Signs, Sent
  <1>6. CmdsMatch'
    BY DEF Quiet, Same, Gone, Moves, Starts, Signs, AgentdInv, CmdsMatch, Busy
  <1>7. BuiltMatch'
    BY DEF Quiet, Same, Gone, Moves, Starts, Signs, AgentdInv, BuiltMatch
  <1>8. SentGood'
    <2> SUFFICES ASSUME NEW p \in Procs, Sent(p)'
                 PROVE  /\ txid'[p] \in Txids'
                        /\ cmd'[p] # "deploy" => st'[p].status # "revoked" /\ chain'[txid'[p]].prev = st'[p].tip
                        /\ GoodFile(NewState(cmd[p], st[p], tx[p], txid[p]))'
      BY DEF SentGood
    <2> QED
      BY <1>1, <1>5, SentStays
  <1>9. Fresh'
    <2> SUFFICES ASSUME NEW p \in Procs, Sent(p)'
                 PROVE  /\ \A f \in Files' : txid'[p] \notin Recorded(f)
                        /\ \A t \in Txids' : chain'[t].prev = txid'[p] => t \in unrecorded'
                        /\ \A q \in Procs \ {p} : Sent(q)' => txid'[q] # txid'[p]
      BY DEF Fresh, Recorded
    <2>1. Sent(p) /\ txid'[p] = txid[p]
      BY <1>5
    <2>2. /\ \A f \in Files : txid[p] \notin Recorded(f)
          /\ \A t \in Txids : chain[t].prev = txid[p] => t \in unrecorded
          /\ \A q \in Procs \ {p} : Sent(q) => txid[q] # txid[p]
      BY <2>1 DEF AgentdInv, Fresh
    <2>3. \A f \in Files' : txid'[p] \notin Recorded(f)
      BY <1>3, <2>1, <2>2 DEF Recorded
    <2>4. \A t \in Txids' : chain'[t].prev = txid'[p] => t \in unrecorded'
      BY <1>1, <2>1, <2>2 DEF Quiet, Grows
    <2>5. \A q \in Procs \ {p} : Sent(q)' => txid'[q] # txid'[p]
      BY <1>5, <2>1, <2>2
    <2> QED
      BY <2>3, <2>4, <2>5
  <1>10. Ahead'
    BY DEF Quiet, Same, Gone, Moves, Starts, Signs, AgentdInv, Ahead
  <1>11. Journaled'
    <2>1. \A f \in Files' : Recorded(f) \subseteq journal' \cup unjournaled'
      BY <1>3 DEF Quiet, AgentdInv, Journaled, Recorded
    <2>2. \A p \in Procs : pc'[p] = "rename" => txid'[p] \in journal' \cup unjournaled'
      BY DEF Quiet, AgentdInv, Journaled, Same, Gone, Moves, Starts, Signs
    <2> QED
      BY <2>1, <2>2 DEF Journaled, Recorded
  <1>12. TipSpendAccounted'
    <2> SUFFICES ASSUME file # NoFile, NEW t \in Txids', chain'[t].prev = file.tip
                 PROVE  \/ t \in unrecorded'
                        \/ \E p \in Procs : t \in InFlight(p)'
                        \/ chain'[t].op = "revoke" /\ file.status = "revoked"
      BY DEF TipSpendAccounted, Quiet
    <2>1. CASE t \notin Txids
      BY <2>1 DEF Quiet
    <2>2. CASE t \in Txids
      <3>1. chain'[t] = chain[t]
        BY <1>1, <2>2 DEF Grows
      <3>2. \/ t \in unrecorded
            \/ \E p \in Procs : t \in InFlight(p)
            \/ chain[t].op = "revoke" /\ file.status = "revoked"
        BY <2>2, <3>1 DEF AgentdInv, TipSpendAccounted
      <3>3. ASSUME NEW p \in Procs, t \in InFlight(p) PROVE t \in InFlight(p)' \/ t \in unrecorded'
        BY <3>3 DEF Quiet, Same, Gone, Moves, Starts, Signs, InFlight
      <3> QED
        BY <3>1, <3>2, <3>3 DEF Quiet
    <2> QED
      BY <2>1, <2>2
  <1> QED
    BY <1>1, <1>2, <1>4, <1>6, <1>7, <1>8, <1>9, <1>10, <1>11, <1>12 DEF AgentdInv

(* A process that exits is gone, and the others stay.                       *)
LEMMA ExitIsQuiet ==
  ASSUME AgentdTypeOK, NEW p \in Procs, Exit(p), InFlight(p) \subseteq unrecorded'
  PROVE  ProcFunctions' /\ \A q \in Procs : Same(q) \/ Gone(q) \/ Moves(q)
  <1>1. /\ pc = [q \in Procs |-> pc[q]] /\ cmd = [q \in Procs |-> cmd[q]]
        /\ st = [q \in Procs |-> st[q]] /\ tx = [q \in Procs |-> tx[q]]
        /\ txid = [q \in Procs |-> txid[q]]
    BY DEF AgentdTypeOK
  <1>2. ProcFunctions'
    BY <1>1 DEF ProcFunctions, Exit
  <1>3. Gone(p)
    BY <1>1 DEF Gone, Exit
  <1>4. \A q \in Procs \ {p} : Same(q)
    BY <1>1 DEF Same, Exit
  <1> QED
    BY <1>2, <1>3, <1>4

(* The chain does nothing, which is one of its steps.                       *)
LEMMA StillIsQuiet ==
  ASSUME AgentdInv, UNCHANGED chainVars
  PROVE  ChainStep /\ clock' >= StartClock /\ Txids' = Txids
  BY DEF AgentdInv, AgentdTypeOK, ChainInv, ChainTypeOK, ChainStep, chainVars, Txids

(* What the processes are when none of them takes a step.                   *)
LEMMA AllSame ==
  ASSUME AgentdTypeOK, UNCHANGED procs
  PROVE  ProcFunctions' /\ \A q \in Procs : Same(q)
  BY DEF AgentdTypeOK, ProcFunctions, procs, Same

(* A process that goes one step further without touching its memory.        *)
LEMMA GotoIsQuiet ==
  ASSUME AgentdTypeOK, NEW p \in Procs, NEW s, Goto(p, s), UNCHANGED <<cmd, st, tx, txid>>,
         (pc[p] = "preflight" /\ s = "build") \/ (pc[p] = "sync" /\ s = "keys")
  PROVE  ProcFunctions' /\ \A q \in Procs : Same(q) \/ Gone(q) \/ Moves(q)
  BY DEF AgentdTypeOK, ProcFunctions, Goto, Same, Moves

(* The accepted transaction is a step of the chain.                         *)
LEMMA AcceptIsStep ==
  ASSUME AgentdInv, NEW p \in Procs, Accept(tx[p]), UNCHANGED <<clock, approvals>>
  PROVE  /\ ChainStep /\ clock' >= StartClock
         /\ Txids' = Txids \cup {Len(chain) + 1}
  <1>1. Typed(tx[p]) /\ clock >= StartClock /\ ChainTypeOK
    BY DEF AgentdInv, AgentdTypeOK, ChainInv
  <1>2. Txids' = Txids \cup {Len(chain) + 1}
    BY <1>1, AcceptAppends
  <1> QED
    BY <1>1, <1>2 DEF ChainStep

(* The steps that are quiet.                                                *)
LEMMA QuietSteps ==
  ASSUME AgentdInv, NEW p \in Procs,
         \/ PreflightUnspent(p) \/ GiveUp(p) \/ BroadcastAnswerLost(p) \/ BroadcastRefused(p)
         \/ WriteFailed(p) \/ SyncDir(p) \/ SyncFailed(p) \/ SaveKeys(p) \/ Kill(p)
  PROVE  Quiet
  <1>0. AgentdTypeOK
    BY DEF AgentdInv
  <1>1. CASE PreflightUnspent(p)
    BY <1>0, <1>1, StillIsQuiet, GotoIsQuiet DEF PreflightUnspent, Quiet, disk, ghost
  <1>2. CASE GiveUp(p) \/ BroadcastRefused(p)
    <2>1. InFlight(p) \subseteq unrecorded'
      BY <1>2 DEF GiveUp, BroadcastRefused, InFlight
    <2> QED
      BY <1>0, <1>2, <2>1, StillIsQuiet, ExitIsQuiet DEF GiveUp, BroadcastRefused, Quiet, disk, ghost
  <1>3. CASE BroadcastAnswerLost(p)
    <2>1. InFlight(p) \subseteq unrecorded'
      BY <1>3 DEF BroadcastAnswerLost, InFlight
    <2>2. ChainStep /\ clock' >= StartClock /\ Txids' = Txids \cup {Len(chain) + 1}
      BY <1>3, AcceptIsStep DEF BroadcastAnswerLost
    <2>3. ProcFunctions' /\ \A q \in Procs : Same(q) \/ Gone(q) \/ Moves(q)
      BY <1>0, <1>3, <2>1, ExitIsQuiet DEF BroadcastAnswerLost
    <2> QED
      BY <1>3, <2>2, <2>3 DEF BroadcastAnswerLost, Quiet, disk
  <1>4. CASE WriteFailed(p) \/ Kill(p)
    <2>1. InFlight(p) \subseteq unrecorded'
      BY <1>4 DEF WriteFailed, Kill, InFlight
    <2> QED
      BY <1>0, <1>4, <2>1, StillIsQuiet, ExitIsQuiet DEF WriteFailed, Kill, Quiet, disk
  <1>5. CASE SyncDir(p)
    <2>1. InFlight(p) \subseteq unrecorded'
      BY <1>5 DEF SyncDir, InFlight
    <2>2. ProcFunctions' /\ \A q \in Procs : Same(q) \/ Gone(q) \/ Moves(q)
      BY <1>0, <1>5, <2>1, ExitIsQuiet, GotoIsQuiet DEF SyncDir
    <2> QED
      BY <1>5, <2>2, StillIsQuiet DEF SyncDir, Quiet, ghost
  <1>6. CASE SyncFailed(p) \/ SaveKeys(p)
    <2>1. InFlight(p) \subseteq unrecorded'
      BY <1>6 DEF SyncFailed, SaveKeys, InFlight
    <2>2. ProcFunctions' /\ \A q \in Procs : Same(q) \/ Gone(q) \/ Moves(q)
      BY <1>0, <1>6, <2>1, ExitIsQuiet DEF SyncFailed, SaveKeys
    <2> QED
      BY <1>6, <2>2, StillIsQuiet DEF SyncFailed, SaveKeys, Quiet, disk
  <1> QED
    BY <1>1, <1>2, <1>3, <1>4, <1>5, <1>6

(* Other parties only add transactions nobody has recorded.                 *)
LEMMA OthersQuiet ==
  ASSUME AgentdInv, Others PROVE Quiet
  <1>1. ChainStep
    BY StepShape DEF AgentdInv, ChainInv, Others, ChainNext, ChainStep
  <1>2. clock' >= StartClock
    <2>1. clock' \in {clock, clock + 1}
      BY DEF Others, Environment, OtherAction, OtherStake, OtherSlash, OtherRecover, OtherRevoke,
             GuardianSigns, Tick
    <2> QED
      BY <2>1, ChainBounds DEF AgentdInv, AgentdTypeOK, ChainInv, ChainTypeOK
  <1>3. Txids = DOMAIN chain /\ Txids' = DOMAIN chain'
    <2>1. ChainInv /\ ChainInv'
      BY <1>1, ChainStepKeeps DEF AgentdInv
    <2> QED
      BY <2>1 DEF ChainInv, ChainTypeOK, Txids
  <1>4. ProcFunctions' /\ \A q \in Procs : Same(q)
    BY AllSame DEF AgentdInv, Others
  <1> QED
    BY <1>1, <1>2, <1>3, <1>4 DEF Others, Quiet, disk

(* A stuttering step is quiet too.                                          *)
LEMMA StutterQuiet ==
  ASSUME AgentdInv, UNCHANGED vars PROVE Quiet
  <1>1. ChainStep /\ clock' >= StartClock /\ Txids' = Txids
    BY StillIsQuiet DEF vars
  <1>2. ProcFunctions' /\ \A q \in Procs : Same(q)
    BY AllSame DEF AgentdInv, vars
  <1> QED
    BY <1>1, <1>2 DEF vars, disk, ghost, Quiet

(* A command that starts reads the file that is there, or none.             *)
LEMMA InvokeQuiet ==
  ASSUME AgentdInv, NEW p \in Procs, NEW c \in Commands, Invoke(p, c) PROVE Quiet
  <1>0. /\ pc = [q \in Procs |-> pc[q]] /\ cmd = [q \in Procs |-> cmd[q]]
        /\ st = [q \in Procs |-> st[q]] /\ tx = [q \in Procs |-> tx[q]]
        /\ txid = [q \in Procs |-> txid[q]]
    BY DEF AgentdInv, AgentdTypeOK
  <1>1. ProcFunctions'
    BY <1>0 DEF Invoke, Goto, ProcFunctions
  <1>2. Starts(p)
    BY <1>0 DEF Invoke, Goto, Starts
  <1>3. \A q \in Procs \ {p} : Same(q)
    BY <1>0 DEF Invoke, Goto, Same
  <1>4. ChainStep /\ clock' >= StartClock /\ Txids' = Txids
    BY StillIsQuiet DEF Invoke
  <1> QED
    BY <1>1, <1>2, <1>3, <1>4 DEF Invoke, Quiet, disk, ghost

(* The transaction a process builds spends the tip of its file.             *)
LEMMA BuildQuiet ==
  ASSUME AgentdInv, NEW p \in Procs, Build(p) PROVE Quiet
  <1>0. /\ pc = [q \in Procs |-> pc[q]] /\ cmd = [q \in Procs |-> cmd[q]]
        /\ st = [q \in Procs |-> st[q]] /\ tx = [q \in Procs |-> tx[q]]
        /\ txid = [q \in Procs |-> txid[q]]
    BY DEF AgentdInv, AgentdTypeOK
  <1>1. PICK t \in Builds(p) : tx' = [tx EXCEPT ![p] = t] /\ approvals' = approvals \cup t.sigs
    BY DEF Build
  <1>2. /\ Typed(t) /\ t.op = cmd[p]
        /\ t.prev = IF cmd[p] = "deploy" THEN 0 ELSE st[p].tip
    BY BuildsMatch DEF Build
  <1>3. ProcFunctions'
    BY <1>0, <1>1 DEF Build, Goto, ProcFunctions
  <1>4. Signs(p)
    BY <1>0, <1>1, <1>2 DEF Build, Goto, Signs
  <1>5. \A q \in Procs \ {p} : Same(q)
    BY <1>0, <1>1 DEF Build, Goto, Same
  <1>6. ChainStep /\ clock' >= StartClock /\ Txids' = Txids
    <2>1. approvals' \subseteq Sigs
      BY <1>1, <1>2 DEF Typed, AgentdInv, ChainInv, ChainTypeOK
    <2> QED
      BY <2>1 DEF Build, ChainStep, AgentdInv, AgentdTypeOK, ChainInv, ChainTypeOK, Txids
  <1> QED
    BY <1>3, <1>4, <1>5, <1>6 DEF Build, Quiet, disk, ghost

(* The journal entry comes before the process may replace the file.         *)
LEMMA JournalQuiet ==
  ASSUME AgentdInv, NEW p \in Procs, Journal(p) PROVE Quiet
  <1>0. /\ pc = [q \in Procs |-> pc[q]] /\ cmd = [q \in Procs |-> cmd[q]]
        /\ st = [q \in Procs |-> st[q]] /\ tx = [q \in Procs |-> tx[q]]
        /\ txid = [q \in Procs |-> txid[q]]
    BY DEF AgentdInv, AgentdTypeOK
  <1>1. ProcFunctions'
    BY <1>0 DEF Journal, Goto, ProcFunctions
  <1>2. Moves(p)
    BY <1>0 DEF Journal, Goto, Moves
  <1>3. \A q \in Procs \ {p} : Same(q)
    BY <1>0 DEF Journal, Goto, Same
  <1>4. ChainStep /\ clock' >= StartClock /\ Txids' = Txids
    BY StillIsQuiet DEF Journal
  <1> QED
    BY <1>1, <1>2, <1>3, <1>4 DEF Journal, Quiet

-----------------------------------------------------------------------------
(* cmd_action's arithmetic is the contract's.                               *)
LEMMA SameArithmetic ==
  ASSUME NEW m \in Meters, NEW a, NEW now
  PROVE  advance_json(m, a, now) = apply_action(m, a, now)
  <1> DEFINE start == IF Rolls(m, now) THEN now ELSE m.windowStart
             spent == (IF Rolls(m, now) THEN 0 ELSE m.spentInWindow) + a
             tier  == IF m.txCount + 1 >= GraduationThreshold /\ m.tier < 2 THEN 2 ELSE m.tier
  <1>1. apply_action(m, a, now) =
          [m EXCEPT !.windowStart = start, !.spentInWindow = spent,
                    !.txCount = m.txCount + 1, !.tier = tier]
    BY DEF apply_action
  <1>2. advance_json(m, a, now) =
          [txCount |-> m.txCount + 1, spentInWindow |-> spent, windowStart |-> start,
           tier |-> tier, recoveryCount |-> m.recoveryCount]
    BY DEF advance_json, Rolls
  <1> HIDE DEF start, spent, tier
  <1> QED
    BY <1>1, <1>2, Zenon DEF Meters

(* The lineage, as GoodFile has it, with one more transaction at its end.   *)
Lineage(h) ==
  /\ Len(h) >= 1
  /\ \A i \in 1..Len(h) : h[i] \in Txids /\ h[i] <= h[Len(h)]
  /\ \A i \in 2..Len(h) : chain[h[i]].prev = h[i-1]

(* A spend of the last transaction of a lineage extends it.                 *)
LEMMA LineageExtends ==
  ASSUME ChainInv, NEW t, Typed(t), Accept(t), NEW n, n = Len(chain) + 1,
         NEW h \in Seq(1..MaxTx), Lineage(h), t.prev = h[Len(h)]
  PROVE  /\ Append(h, n) \in Seq(1..MaxTx) /\ Lineage(Append(h, n))'
         /\ Len(Append(h, n)) = Len(h) + 1
         /\ Append(h, n)[Len(h) + 1] = n
         /\ \A i \in 1..Len(h) : Append(h, n)[i] = h[i]
  <1>1. /\ n \in 1..MaxTx /\ Txids' = Txids \cup {n} /\ n \notin Txids
        /\ \A u \in Txids : chain'[u] = chain[u]
        /\ chain'[n].prev = t.prev
    <2>1. /\ n \in 1..MaxTx /\ Txids' = Txids \cup {n} /\ n \notin Txids
          /\ \A u \in Txids : chain'[u] = chain[u]
          /\ chain'[n] = Mined(t)
      BY AcceptAppends DEF ChainInv
    <2> QED
      BY <2>1 DEF Mined
  <1>2. PICK g : g = Append(h, n)
    OBVIOUS
  <1>3. /\ g \in Seq(1..MaxTx) /\ Len(g) = Len(h) + 1 /\ Len(h) \in Nat
        /\ g[Len(h) + 1] = n /\ \A i \in 1..Len(h) : g[i] = h[i]
    BY <1>1, <1>2, AppendProperties
  <1>4. \A u \in Txids : u <= n
    BY DEF ChainInv, ChainTypeOK, Txids
  <1>5. \A i \in 1..Len(g) : g[i] \in Txids' /\ g[i] <= g[Len(g)]
    <2>1. g[Len(g)] = n /\ \A i \in 1..Len(g) : i \in 1..Len(h) \/ i = Len(h) + 1
      BY <1>3
    <2>2. \A i \in 1..Len(h) : g[i] \in Txids
      BY <1>3 DEF Lineage
    <2>3. \A i \in 1..Len(g) : g[i] \in Txids \/ g[i] = n
      BY <1>3, <2>1, <2>2
    <2> QED
      BY <1>1, <1>4, <2>1, <2>3
  <1>6. ASSUME NEW i \in 2..Len(g) PROVE chain'[g[i]].prev = g[i-1]
    <2>1. CASE i <= Len(h)
      <3>1. i \in 2..Len(h) /\ i \in 1..Len(h) /\ i - 1 \in 1..Len(h)
        BY <1>3, <2>1
      <3>2. g[i] = h[i] /\ g[i-1] = h[i-1] /\ h[i] \in Txids /\ chain[h[i]].prev = h[i-1]
        BY <1>3, <3>1 DEF Lineage
      <3> QED
        BY <1>1, <3>2
    <2>2. CASE i = Len(h) + 1
      <3>1. Len(h) \in 1..Len(h) /\ i - 1 = Len(h)
        BY <1>3, <2>2 DEF Lineage
      <3> QED
        BY <1>1, <1>3, <2>2, <3>1
    <2> QED
      BY <1>3, <2>1, <2>2
  <1>7. Lineage(g)'
    BY <1>3, <1>5, <1>6 DEF Lineage
  <1>8. Lineage(Append(h, n))'
    BY <1>2, <1>7 DEF Lineage
  <1> QED
    BY <1>2, <1>3, <1>8

(* GoodFile in these terms.                                                 *)
LEMMA GoodFileIs ==
  ASSUME NEW f
  PROVE  GoodFile(f) <=>
           /\ f \in StateFile /\ MirrorsTip(f)
           /\ Lineage(f.history) /\ f.history[1] = f.genesis
           /\ IF f.status = "revoked"
              THEN /\ Len(f.history) > 1 /\ chain[f.history[Len(f.history)]].op = "revoke"
                   /\ f.history[Len(f.history) - 1] = f.tip
              ELSE f.history[Len(f.history)] = f.tip
  BY DEF GoodFile, Lineage

(* What the chain makes of a spend agentd built is what agentd writes.      *)
LEMMA AcceptedIsGood ==
  ASSUME ChainInv, LinksSound, NEW t, Typed(t), Accept(t), NEW n, n = Len(chain) + 1,
         NEW c \in Commands, t.op = c, NEW f,
         c = "deploy" => t.prev = 0, c # "deploy" => GoodFile(f) /\ t.prev = f.tip
  PROVE  /\ GoodFile(NewState(c, f, t, n))' /\ chain'[n].prev = t.prev
         /\ c # "deploy" => f.status # "revoked"
  <1> DEFINE g == NewState(c, f, t, n)
             h == f.history
  <1>1. /\ n \in 1..MaxTx /\ Txids' = Txids \cup {n} /\ n \notin Txids
        /\ \A u \in Txids : chain'[u] = chain[u]
        /\ chain'[n] = Mined(t) /\ chain'[n] \in MinedTx
    BY AcceptAppends DEF ChainInv
  <1>2. /\ chain'[n].op = t.op /\ chain'[n].prev = t.prev /\ chain'[n].out = t.out
        /\ chain'[n].gen = IF t.prev = 0 THEN n ELSE chain[t.prev].gen
    BY <1>1 DEF Mined, Gen
  <1>3. CASE c = "deploy"
    <2>1. PICK k \in Keys : t.out = locking_script(k, genesis_state)
      BY <1>3 DEF Accept, Valid
    <2>2. /\ t.out # NoOut /\ t.out.agent = k /\ t.out.m = genesis_state /\ genesis_state \in Meters
      BY <2>1, NoOutAssumption DEF locking_script, locking_script_ex, IdentityOut, genesis_state, Meters
    <2>3. g = deployed_state(t, n)
      BY <1>3 DEF NewState
    <2>4. /\ g.genesis = n /\ g.agent = k /\ g.m = genesis_state /\ g.tip = n
          /\ g.status = "deployed" /\ g.history = <<n>>
      BY <2>2, <2>3 DEF deployed_state
    <2>0. /\ <<n>> \in Seq(1..MaxTx) /\ Len(<<n>>) = 1 /\ <<n>>[1] = n
          /\ 1..1 = {1} /\ 2..1 = {}
      BY <1>1
    <2>5. g \in StateFile
      <3>1. PICK h1 : h1 = <<n>>
        OBVIOUS
      <3>2. h1 \in Seq(1..MaxTx) /\ "deployed" \in Statuses
        BY <2>0, <3>1 DEF Statuses
      <3>3. g = [genesis |-> n, agent |-> k, m |-> genesis_state, tip |-> n,
                 status |-> "deployed", history |-> h1]
        BY <2>2, <2>3, <3>1 DEF deployed_state
      <3> HIDE DEF g
      <3> QED
        BY <1>1, <2>2, <3>2, <3>3 DEF StateFile
    <2>6. PICK w : w = g
      OBVIOUS
    <2>7. MirrorsTip(w)'
      BY <1>1, <1>2, <1>3, <2>2, <2>4, <2>6 DEF MirrorsTip
    <2>8. Lineage(w.history)' /\ w.history[1] = n
      <3>1. PICK h1 : h1 = <<n>>
        OBVIOUS
      <3>2. Len(h1) = 1 /\ h1[1] = n /\ n \in Txids' /\ n <= n
        BY <1>1, <2>0, <3>1
      <3>3. Lineage(h1)'
        BY <2>0, <3>2 DEF Lineage
      <3>4. w.history = h1
        BY <2>4, <2>6, <3>1
      <3> QED
        BY <3>2, <3>3, <3>4 DEF Lineage
    <2>9. GoodFile(w)'
      <3> HIDE DEF g
      <3> QED BY <2>4, <2>5, <2>6, <2>7, <2>8 DEF GoodFile, Lineage
    <2> QED
      BY <1>2, <1>3, <2>6, <2>9 DEF GoodFile, MirrorsTip
  <1>4. CASE c # "deploy"
    <2> DEFINE prev == chain[f.tip].out
               h2 == Append(h, n)
    <2>1. /\ f.tip \in Txids /\ prev \in IdentityOut /\ chain[f.tip].gen = f.genesis
          /\ prev.m = f.m /\ prev.agent = f.agent
      BY <1>4, GoodFileTip
    <2>2. /\ f \in StateFile /\ h \in Seq(1..MaxTx) /\ Len(h) \in Nat \ {0} /\ h[1] = f.genesis
          /\ Lineage(h)
      BY <1>4, GoodFileFacts, GoodFileIs
    <2>3. t.prev # 0 /\ ~ Spent(f.tip) /\ t.op = c /\ Valid(t)
      <3>1. f.tip # 0
        BY <2>1 DEF Txids
      <3> QED
        BY <1>4, <3>1 DEF Accept, Valid, Live
    <2>4. f.status # "revoked"
      <3> SUFFICES ASSUME f.status = "revoked" PROVE FALSE
        OBVIOUS
      <3>1. Len(h) > 1 /\ h[Len(h) - 1] = f.tip
        BY <1>4, GoodFileIs
      <3>2. Len(h) \in 2..Len(h) /\ Len(h) \in 1..Len(h)
        BY <2>2, <3>1
      <3>3. h[Len(h)] \in Txids /\ chain[h[Len(h)]].prev = f.tip
        BY <2>2, <3>1, <3>2 DEF Lineage
      <3> QED
        BY <2>3, <3>3 DEF Spent
    <2>5. h[Len(h)] = f.tip
      BY <1>4, <2>4, GoodFileIs
    <2>6. /\ h2 \in Seq(1..MaxTx) /\ Lineage(h2)' /\ Len(h2) = Len(h) + 1
          /\ h2[Len(h) + 1] = n /\ \A i \in 1..Len(h) : h2[i] = h[i]
      BY <1>4, <2>2, <2>5, LineageExtends
    <2>7. h2[1] = f.genesis
      BY <2>2, <2>6
    <2>8. f.tip \in Txids' /\ chain'[f.tip] = chain[f.tip]
      BY <1>1, <2>1
    <2>9. chain'[n].gen = f.genesis
      BY <1>2, <1>4, <2>1, <2>3
    <2>10. f = [genesis |-> f.genesis, agent |-> f.agent, m |-> f.m, tip |-> f.tip,
                status |-> f.status, history |-> h]
           /\ f.genesis \in 1..MaxTx /\ f.agent \in Keys /\ f.m \in Meters /\ f.tip \in 1..MaxTx
           /\ f.status \in Statuses
      BY <2>2 DEF StateFile
    <2> HIDE DEF h2, h, prev
    <2>11. ASSUME NEW w \in StateFile, MirrorsTip(w)', w.history = h2, w.genesis = f.genesis,
                  IF w.status = "revoked" THEN chain'[n].op = "revoke" /\ w.tip = f.tip
                  ELSE w.tip = n
           PROVE  GoodFile(w)'
      <3>1. Lineage(w.history)' /\ w.history[1] = w.genesis
        BY <2>6, <2>7, <2>11 DEF Lineage
      <3>2. Len(h2) > 1 /\ Len(h2) - 1 = Len(h) /\ Len(h) \in 1..Len(h)
        BY <2>2, <2>6
      <3>3. h2[Len(h2)] = n /\ h2[Len(h2) - 1] = f.tip
        BY <2>5, <2>6, <3>2
      <3> QED
        BY <2>11, <3>1, <3>2, <3>3 DEF GoodFile, Lineage
    <2>12. CASE c = "action"
      <3>1. g = actioned_state(f, t, n)
        BY <2>12 DEF NewState
      <3>2. t.out = [prev EXCEPT !.m = apply_action(prev.m, t.amount, t.now)]
        BY <1>4, <2>3, <2>12 DEF Valid, executeAction, prev
      <3>3. PICK m : m = apply_action(f.m, t.amount, t.now)
        OBVIOUS
      <3>4. m \in Meters /\ m = advance_json(f.m, t.amount, t.now)
        <4>1. t.amount \in Nat /\ t.now \in Nat
          BY ChainBounds DEF Typed, Amounts
        <4> QED
          BY <2>10, <3>3, <4>1, ApplyActionType, SameArithmetic
      <3>5. t.out = [code |-> prev.code, agent |-> f.agent, m |-> m] /\ prev.code \in Keys
        BY <2>1, <3>2, <3>3 DEF IdentityOut
      <3>6. t.out # NoOut /\ t.out.agent = f.agent /\ t.out.m = m
        BY <2>10, <3>4, <3>5, NoOutAssumption DEF IdentityOut
      <3>7. g = [f EXCEPT !.m = m, !.status = "actioned", !.tip = n, !.history = h2]
        BY <3>1, <3>4 DEF actioned_state, h2, h
      <3>8. g = [genesis |-> f.genesis, agent |-> f.agent, m |-> m, tip |-> n,
                 status |-> "actioned", history |-> h2]
        <4> HIDE DEF g
        <4> QED BY <2>10, <3>7
      <3>9. PICK w : w = g
        OBVIOUS
      <3> HIDE DEF g
      <3>10. w \in StateFile
        BY <1>1, <2>6, <2>10, <3>4, <3>8, <3>9 DEF StateFile, Statuses
      <3>11. /\ w.tip = n /\ w.history = h2 /\ w.genesis = f.genesis /\ w.status = "actioned"
             /\ w.m = m /\ w.agent = f.agent
        BY <3>8, <3>9
      <3>12. MirrorsTip(w)'
        BY <1>1, <1>2, <2>9, <3>6, <3>11 DEF MirrorsTip
      <3>13. GoodFile(w)'
        BY <2>11, <3>10, <3>11, <3>12
      <3>14. GoodFile(g)'
        BY <3>9, <3>13 DEF GoodFile, MirrorsTip, g
      <3> QED
        BY <1>2, <2>4, <3>14 DEF g
    <2>13. CASE c = "recover"
      <3>1. g = recovered_state(f, t, n)
        BY <2>13 DEF NewState
      <3>2. t.out = [prev EXCEPT !.agent = t.out.agent, !.m.recoveryCount = @ + 1]
        BY <1>4, <2>3, <2>13 DEF Valid, recover, prev
      <3>3. PICK m : m = [f.m EXCEPT !.recoveryCount = @ + 1]
        OBVIOUS
      <3>4. m \in Meters
        BY <2>10, <3>3 DEF Meters
      <3>5. t.out = [code |-> prev.code, agent |-> t.out.agent, m |-> m] /\ prev.code \in Keys
        BY <2>1, <3>2, <3>3 DEF IdentityOut
      <3>6. t.out # NoOut /\ t.out.agent \in Keys /\ t.out.m = m
        <4>1. t.out.agent \in Keys
          BY <2>13 DEF Typed
        <4> QED
          BY <3>4, <3>5, <4>1, NoOutAssumption DEF IdentityOut
      <3>7. g = [f EXCEPT !.agent = t.out.agent, !.m = m, !.tip = n, !.history = h2]
        BY <2>10, <3>1, <3>3 DEF recovered_state, h2, h
      <3>8. g = [genesis |-> f.genesis, agent |-> t.out.agent, m |-> m, tip |-> n,
                 status |-> f.status, history |-> h2]
        <4> HIDE DEF g
        <4> QED BY <2>10, <3>7
      <3>9. PICK w : w = g
        OBVIOUS
      <3> HIDE DEF g
      <3>10. w \in StateFile
        BY <1>1, <2>6, <2>10, <3>4, <3>6, <3>8, <3>9 DEF StateFile
      <3>11. /\ w.tip = n /\ w.history = h2 /\ w.genesis = f.genesis /\ w.status # "revoked"
             /\ w.m = m /\ w.agent = t.out.agent
        BY <2>4, <3>8, <3>9
      <3>12. MirrorsTip(w)'
        BY <1>1, <1>2, <2>9, <3>6, <3>11 DEF MirrorsTip
      <3>13. GoodFile(w)'
        BY <2>11, <3>10, <3>11, <3>12
      <3>14. GoodFile(g)'
        BY <3>9, <3>13 DEF GoodFile, MirrorsTip, g
      <3> QED
        BY <1>2, <2>4, <3>14 DEF g
    <2>14. CASE c = "revoke"
      <3>1. g = revoked_state(f, n)
        BY <2>14 DEF NewState
      <3>2. g = [f EXCEPT !.status = "revoked", !.history = h2]
        BY <3>1 DEF revoked_state, h2, h
      <3>3. g = [genesis |-> f.genesis, agent |-> f.agent, m |-> f.m, tip |-> f.tip,
                 status |-> "revoked", history |-> h2]
        <4> HIDE DEF g
        <4> QED BY <2>10, <3>2
      <3>4. PICK w : w = g
        OBVIOUS
      <3> HIDE DEF g
      <3>5. w \in StateFile
        BY <1>1, <2>6, <2>10, <3>3, <3>4 DEF StateFile, Statuses
      <3>6. /\ w.tip = f.tip /\ w.history = h2 /\ w.genesis = f.genesis /\ w.status = "revoked"
            /\ w.m = f.m /\ w.agent = f.agent
        BY <3>3, <3>4
      <3>7. MirrorsTip(f)
        BY <1>4, GoodFileIs
      <3>8. MirrorsTip(w)'
        BY <2>8, <3>6, <3>7 DEF MirrorsTip
      <3>9. GoodFile(w)'
        BY <1>2, <2>11, <2>14, <3>5, <3>6, <3>8
      <3>10. GoodFile(g)'
        BY <3>4, <3>9 DEF GoodFile, MirrorsTip, g
      <3> QED
        BY <1>2, <2>4, <3>10 DEF g
    <2> QED
      BY <1>4, <2>12, <2>13, <2>14 DEF Commands
  <1> QED
    BY <1>3, <1>4

(* The broadcast: the transaction is new to everybody.                      *)
LEMMA BroadcastInv ==
  ASSUME AgentdInv, NEW p \in Procs, BroadcastAccepted(p) PROVE AgentdInv'
  <1>0. /\ pc = [q \in Procs |-> pc[q]] /\ txid = [q \in Procs |-> txid[q]]
        /\ pc[p] = "broadcast" /\ Accept(tx[p]) /\ Typed(tx[p])
        /\ UNCHANGED <<file, durable, journal, cmd, st, tx, unrecorded, unjournaled>>
    BY DEF AgentdInv, AgentdTypeOK, BroadcastAccepted, disk, ghost
  <1>1. PICK n : n = Len(chain) + 1
    OBVIOUS
  <1>2. /\ pc'[p] = "journal" /\ txid'[p] = n
        /\ \A q \in Procs \ {p} : pc'[q] = pc[q] /\ txid'[q] = txid[q]
        /\ pc' = [q \in Procs |-> pc'[q]] /\ txid' = [q \in Procs |-> txid'[q]]
    BY <1>0, <1>1 DEF BroadcastAccepted, Goto
  <1>3. ChainInv' /\ LinksSound' /\ Grows /\ clock' >= StartClock
    <2>1. ChainStep /\ clock' >= StartClock
      BY AcceptIsStep DEF BroadcastAccepted
    <2> QED
      BY <2>1, ChainStepKeeps DEF AgentdInv
  <1>4. /\ Txids' = Txids \cup {n} /\ n \notin Txids /\ n \in Nat /\ 0 \notin Txids
        /\ chain'[n].prev = tx[p].prev /\ \A t \in Txids' : chain'[t].prev # n
    <2>1. ChainTypeOK /\ PrevFirst
      BY DEF AgentdInv, ChainInv
    <2>2. /\ Txids' = Txids \cup {n} /\ n \notin Txids /\ n \in 1..MaxTx /\ chain'[n] = Mined(tx[p])
      BY <1>0, <1>1, <2>1, AcceptAppends
    <2>3. \A t \in Txids' : chain'[t].prev # n
      BY <1>0, <1>1, <2>1, AcceptSpends
    <2> QED
      BY <2>2, <2>3 DEF Mined, Txids
  <1>5. cmd[p] \in Commands /\ (cmd[p] = "deploy" <=> st[p] = NoFile)
        /\ tx[p].op = cmd[p] /\ tx[p].prev = IF cmd[p] = "deploy" THEN 0 ELSE st[p].tip
    BY <1>0 DEF AgentdInv, CmdsMatch, BuiltMatch, Busy
  <1>6. st[p] \in Files /\ (cmd[p] # "deploy" => GoodFile(st[p]) /\ st[p].tip \in Recorded(st[p]))
    <2>1. st[p] \in Files
      BY DEF Files
    <2> QED
      BY <1>5, <2>1, GoodFileFacts DEF AgentdInv, FilesGood
  <1>7. AgentdTypeOK'
    <2>1. /\ \A q \in Procs : pc'[q] \in Steps /\ txid'[q] \in Nat
          /\ tx' = tx /\ \A q \in Procs : Typed(tx[q])
      BY <1>0, <1>2, <1>4 DEF AgentdInv, AgentdTypeOK, Steps
    <2> QED
      BY <1>0, <1>2, <1>3, <2>1 DEF AgentdInv, AgentdTypeOK, Typed
  <1>8. Files' = Files
    BY <1>0 DEF Files
  <1>9. FilesGood'
    <2>1. \A f \in Files : f # NoFile => GoodFile(f)'
      BY <1>3, GoodFileStable DEF AgentdInv, FilesGood
    <2> QED
      BY <1>8, <2>1 DEF FilesGood
  <1>10. CmdsMatch' /\ BuiltMatch'
    BY <1>0, <1>2, <1>5 DEF AgentdInv, CmdsMatch, BuiltMatch, Busy
  <1>11. SentGood'
    <2> SUFFICES ASSUME NEW q \in Procs, Sent(q)'
                 PROVE  /\ txid'[q] \in Txids'
                        /\ cmd'[q] # "deploy" => st'[q].status # "revoked" /\ chain'[txid'[q]].prev = st'[q].tip
                        /\ GoodFile(NewState(cmd[q], st[q], tx[q], txid[q]))'
      BY DEF SentGood
    <2>1. CASE q # p
      BY <1>0, <1>2, <1>3, <2>1, SentStays DEF Sent
    <2>2. CASE q = p
      <3>1. PICK c, f, t : c = cmd[p] /\ f = st[p] /\ t = tx[p]
        OBVIOUS
      <3>2. /\ GoodFile(NewState(c, f, t, n))' /\ chain'[n].prev = t.prev
            /\ c # "deploy" => f.status # "revoked"
        BY <1>0, <1>1, <1>5, <1>6, <3>1, AcceptedIsGood DEF AgentdInv
      <3>3. NewState(c, f, t, n) = NewState(cmd[p], st[p], tx[p], txid[p])'
        BY <1>0, <1>2, <3>1 DEF NewState, deployed_state, actioned_state, recovered_state, revoked_state, advance_json
      <3>4. GoodFile(NewState(cmd[p], st[p], tx[p], txid[p]))'
        BY <3>2, <3>3 DEF GoodFile, MirrorsTip
      <3> QED
        BY <1>0, <1>2, <1>4, <1>5, <2>2, <3>1, <3>2, <3>4
    <2> QED
      BY <2>1, <2>2
  <1>12. Fresh'
    <2> SUFFICES ASSUME NEW q \in Procs, Sent(q)'
                 PROVE  /\ \A f \in Files' : txid'[q] \notin Recorded(f)
                        /\ \A t \in Txids' : chain'[t].prev = txid'[q] => t \in unrecorded'
                        /\ \A r \in Procs \ {q} : Sent(r)' => txid'[r] # txid'[q]
      BY DEF Fresh, Recorded
    <2>1. \A f \in Files : Recorded(f) \subseteq Txids
      BY GoodFileFacts DEF AgentdInv, FilesGood, Recorded
    <2>2. \A r \in Procs \ {p} : Sent(r)' => Sent(r) /\ txid'[r] = txid[r] /\ txid[r] \in Txids
      BY <1>2 DEF AgentdInv, SentGood, Sent
    <2>3. CASE q = p
      BY <1>2, <1>4, <1>8, <2>1, <2>2, <2>3
    <2>4. CASE q # p
      <3>1. tx[p].prev # txid[q]
        BY <1>4, <1>5, <1>6, <2>2, <2>4 DEF AgentdInv, Fresh
      <3>2. \A t \in Txids' : chain'[t].prev = txid'[q] => t \in unrecorded'
        BY <1>0, <1>3, <1>4, <2>2, <2>4, <3>1 DEF AgentdInv, Fresh, Grows
      <3>3. \A f \in Files' : txid'[q] \notin Recorded(f)
        BY <1>8, <2>2, <2>4 DEF AgentdInv, Fresh
      <3>4. \A r \in Procs \ {q} : Sent(r)' => txid'[r] # txid'[q]
        BY <1>2, <1>4, <2>2, <2>4 DEF AgentdInv, Fresh
      <3> QED
        BY <3>2, <3>3, <3>4
    <2> QED
      BY <2>3, <2>4
  <1>13. Ahead'
    BY <1>0 DEF AgentdInv, Ahead
  <1>14. Journaled'
    <2>1. \A f \in Files' : Recorded(f) \subseteq journal' \cup unjournaled'
      BY <1>0, <1>8 DEF AgentdInv, Journaled
    <2>2. \A q \in Procs : pc'[q] = "rename" => txid'[q] \in journal' \cup unjournaled'
      BY <1>0, <1>2 DEF AgentdInv, Journaled
    <2> QED
      BY <2>1, <2>2 DEF Journaled, Recorded
  <1>15. TipSpendAccounted'
    <2> SUFFICES ASSUME file # NoFile, NEW t \in Txids', chain'[t].prev = file.tip
                 PROVE  \/ t \in unrecorded
                        \/ \E q \in Procs : t \in InFlight(q)'
                        \/ chain'[t].op = "revoke" /\ file.status = "revoked"
      BY <1>0 DEF TipSpendAccounted
    <2>1. CASE t = n
      BY <1>2, <2>1 DEF InFlight
    <2>2. CASE t \in Txids
      <3>1. chain'[t] = chain[t]
        BY <1>3, <2>2 DEF Grows
      <3>2. \/ t \in unrecorded
            \/ \E q \in Procs : t \in InFlight(q)
            \/ chain[t].op = "revoke" /\ file.status = "revoked"
        BY <2>2, <3>1 DEF AgentdInv, TipSpendAccounted
      <3>3. ASSUME NEW q \in Procs, t \in InFlight(q) PROVE t \in InFlight(q)'
        BY <1>0, <1>2, <3>3 DEF InFlight
      <3> QED
        BY <3>1, <3>2, <3>3
    <2> QED
      BY <1>4, <2>1, <2>2
  <1> QED
    BY <1>3, <1>7, <1>9, <1>10, <1>11, <1>12, <1>13, <1>14, <1>15 DEF AgentdInv

-----------------------------------------------------------------------------
(* A set of indices that is not empty has a least element.                  *)
LEMMA LeastIndex ==
  ASSUME NEW n \in Nat, NEW T, T \subseteq 1..n, T # {}
  PROVE  \E i \in T : \A j \in T : i <= j
  <1> DEFINE U == 1..n
             B == {1..i : i \in T}
  <1>0. IsFiniteSet(U)
    BY FS_Interval
  <1>1. B \subseteq SUBSET U /\ B # {}
    <2>1. \A i \in T : 1..i \subseteq 1..n
      OBVIOUS
    <2> QED
      BY <2>1
  <1> HIDE DEF U, B
  <1>2. PICK x \in B : \A y \in B : y \subseteq x => y = x
    BY <1>0, <1>1, SmallestSubset
  <1> USE DEF B
  <1>3. PICK i \in T : x = 1..i
    OBVIOUS
  <1>4. ASSUME NEW j \in T, j < i PROVE FALSE
    <2>1. 1..j \in B /\ 1..j \subseteq 1..i
      BY <1>4
    <2>2. 1..j = 1..i
      BY <1>2, <1>3, <2>1
    <2>3. i \in 1..i /\ i \notin 1..j
      BY <1>4
    <2> QED
      BY <2>2, <2>3
  <1> QED
    BY <1>4

(* Two lineages that start with the same deploy agree as far as both go:    *)
(* no output is spent twice.                                                *)
LEMMA LineagesAgree ==
  ASSUME LinksSound, NEW h \in Seq(1..MaxTx), NEW k \in Seq(1..MaxTx), Lineage(h), Lineage(k),
         h[1] = k[1], Len(h) <= Len(k)
  PROVE  \A i \in 1..Len(h) : h[i] = k[i]
  <1> DEFINE T == {i \in 1..Len(h) : h[i] # k[i]}
  <1> SUFFICES ASSUME T # {} PROVE FALSE
    OBVIOUS
  <1>1. Len(h) \in Nat /\ Len(k) \in Nat /\ T \subseteq 1..Len(h)
    OBVIOUS
  <1>2. PICK i \in T : \A j \in T : i <= j
    <2> HIDE DEF T
    <2> QED BY <1>1, LeastIndex
  <1>3. i \in 2..Len(h) /\ i \in 2..Len(k) /\ i \in 1..Len(h) /\ i \in 1..Len(k)
        /\ i - 1 \in 1..Len(h) /\ i - 1 < i
    BY <1>1
  <1>4. h[i-1] = k[i-1]
    BY <1>2, <1>3
  <1>5. /\ chain[h[i]].prev = h[i-1] /\ chain[k[i]].prev = k[i-1]
        /\ h[i] \in Txids /\ k[i] \in Txids /\ h[i-1] \in Txids
    BY <1>3 DEF Lineage
  <1>6. h[i-1] # 0
    BY <1>5 DEF Txids
  <1>7. h[i] = k[i]
    BY <1>4, <1>5, <1>6 DEF LinksSound
  <1> QED
    BY <1>7

(* The record about to be written, in terms of the one that was read.       *)
LEMMA NewStateIs ==
  ASSUME AgentdInv, NEW p \in Procs, Sent(p), NEW g, g = NewState(cmd[p], st[p], tx[p], txid[p])
  PROVE  /\ GoodFile(g) /\ cmd[p] \in Commands
         /\ cmd[p] = "deploy" => g.genesis = txid[p] /\ g.history = <<txid[p]>> /\ st[p] = NoFile
         /\ cmd[p] # "deploy" =>
              /\ GoodFile(st[p]) /\ st[p].status # "revoked" /\ st[p] \in Files
              /\ g.genesis = st[p].genesis /\ g.history = Append(st[p].history, txid[p])
         /\ IF cmd[p] = "revoke" THEN g.tip = st[p].tip /\ g.status = "revoked"
            ELSE g.tip = txid[p] /\ g.status # "revoked"
         /\ g.history[Len(g.history)] = txid[p]
         /\ Recorded(g) = Recorded(st[p]) \cup {txid[p]}
  <1> DEFINE f == st[p]
             id == txid[p]
  <1>1. GoodFile(g) /\ cmd[p] \in Commands /\ (cmd[p] = "deploy" <=> f = NoFile)
    BY DEF AgentdInv, SentGood, CmdsMatch, Busy, Sent
  <1>2. g \in StateFile /\ g # NoFile
        /\ Recorded(g) = {g.history[i] : i \in 1..Len(g.history)}
    BY <1>1, GoodFileFacts
  <1>3. CASE cmd[p] = "deploy"
    <2>1. g = deployed_state(tx[p], id)
      BY <1>3 DEF NewState
    <2>2. g.genesis = id /\ g.tip = id /\ g.status = "deployed" /\ g.history = <<id>>
      BY <2>1 DEF deployed_state
    <2>3. Len(<<id>>) = 1 /\ <<id>>[1] = id /\ 1..1 = {1}
      OBVIOUS
    <2>4. Recorded(g) = {id}
      BY <1>2, <2>2, <2>3
    <2>5. Recorded(f) = {}
      BY <1>1, <1>3 DEF Recorded
    <2> QED
      BY <1>1, <1>3, <2>2, <2>3, <2>4, <2>5
  <1>4. CASE cmd[p] # "deploy"
    <2>1. f \in Files /\ GoodFile(f) /\ f.status # "revoked" /\ id \in Txids
      <3>1. f \in Files
        BY DEF Files
      <3> QED
        BY <1>1, <1>4, <3>1 DEF AgentdInv, FilesGood, SentGood
    <2>2. f \in StateFile /\ f.history \in Seq(1..MaxTx)
          /\ Recorded(f) = {f.history[i] : i \in 1..Len(f.history)}
      BY <2>1, GoodFileFacts
    <2>3. /\ g.genesis = f.genesis /\ g.history = Append(f.history, id)
          /\ IF cmd[p] = "revoke" THEN g.tip = f.tip /\ g.status = "revoked"
             ELSE g.tip = id /\ g.status # "revoked"
      <3>0. f = [genesis |-> f.genesis, agent |-> f.agent, m |-> f.m, tip |-> f.tip,
                 status |-> f.status, history |-> f.history]
        BY <2>2 DEF StateFile
      <3>1. CASE cmd[p] = "action"
        <4>1. g = [f EXCEPT !.m = advance_json(f.m, tx[p].amount, tx[p].now), !.status = "actioned",
                            !.tip = id, !.history = Append(f.history, id)]
          BY <3>1 DEF NewState, actioned_state
        <4> HIDE DEF f, id
        <4> QED
          BY <2>1, <3>0, <3>1, <4>1
      <3>2. CASE cmd[p] = "recover"
        <4>1. PICK m : g = [f EXCEPT !.agent = tx[p].out.agent, !.m = m, !.tip = id,
                                     !.history = Append(f.history, id)]
          <5>1. g = [f EXCEPT !.agent = tx[p].out.agent, !.m = [f.m EXCEPT !.recoveryCount = @ + 1],
                              !.tip = id, !.history = Append(f.history, id)]
            BY <2>2, <3>2 DEF NewState, recovered_state, StateFile
          <5> QED
            BY <5>1
        <4> HIDE DEF f, id
        <4> QED
          BY <2>1, <3>0, <3>2, <4>1
      <3>3. CASE cmd[p] = "revoke"
        <4>1. g = [f EXCEPT !.status = "revoked", !.history = Append(f.history, id)]
          BY <3>3 DEF NewState, revoked_state
        <4> HIDE DEF f, id
        <4> QED
          BY <2>1, <3>0, <3>3, <4>1
      <3> QED
        BY <1>1, <1>4, <3>1, <3>2, <3>3 DEF Commands
    <2>4. id \in 1..MaxTx
      BY <2>1, ChainBounds DEF Txids, AgentdInv, ChainInv, ChainTypeOK
    <2>5. /\ Len(g.history) = Len(f.history) + 1 /\ g.history[Len(f.history) + 1] = id
          /\ Len(f.history) \in Nat /\ \A i \in 1..Len(f.history) : g.history[i] = f.history[i]
      BY <2>2, <2>3, <2>4, AppendProperties
    <2>6. Recorded(g) = Recorded(f) \cup {id}
      <3>1. 1..(Len(f.history) + 1) = 1..Len(f.history) \cup {Len(f.history) + 1}
        BY <2>5
      <3>2. ASSUME NEW x \in Recorded(g) PROVE x \in Recorded(f) \cup {id}
        <4>1. PICK i \in 1..(Len(f.history) + 1) : x = g.history[i]
          BY <1>2, <2>5
        <4> QED
          BY <2>2, <2>5, <3>1, <4>1
      <3>3. Recorded(f) \subseteq Recorded(g)
        BY <1>2, <2>2, <2>5, <3>1
      <3>4. Len(f.history) + 1 \in 1..Len(g.history)
        BY <2>5
      <3>5. id \in Recorded(g)
        BY <1>2, <2>5, <3>4
      <3> QED
        BY <3>2, <3>3, <3>5
    <2> QED
      BY <1>1, <1>4, <2>1, <2>3, <2>5, <2>6
  <1> QED
    BY <1>3, <1>4

(* No file of the same identity goes beyond the one the process had read:   *)
(* it would record the spend that only this process knows of.               *)
LEMMA NoneKnowsMore ==
  ASSUME AgentdInv, NEW p \in Procs, Sent(p), NEW g, g = NewState(cmd[p], st[p], tx[p], txid[p]),
         NEW f \in Files, f # NoFile, f.genesis = g.genesis
  PROVE  /\ cmd[p] # "deploy" /\ f.genesis = st[p].genesis
         /\ Len(f.history) <= Len(st[p].history)
         /\ \A i \in 1..Len(f.history) : f.history[i] = st[p].history[i]
  <1>1. /\ GoodFile(f) /\ f.history \in Seq(1..MaxTx) /\ f.history[1] = f.genesis
        /\ f.genesis \in Recorded(f) /\ Recorded(f) = {f.history[i] : i \in 1..Len(f.history)}
        /\ Len(f.history) \in Nat /\ Lineage(f.history)
    <2>1. GoodFile(f)
      BY DEF AgentdInv, FilesGood
    <2> QED
      BY <2>1, GoodFileFacts, GoodFileIs
  <1>2. txid[p] \notin Recorded(f) /\ LinksSound
    BY DEF AgentdInv, Fresh
  <1>3. cmd[p] # "deploy"
    BY <1>1, <1>2, NewStateIs
  <1>4. /\ GoodFile(st[p]) /\ GoodFile(g) /\ g.genesis = st[p].genesis
        /\ g.history = Append(st[p].history, txid[p]) /\ g.history[Len(g.history)] = txid[p]
    BY <1>3, NewStateIs
  <1> DEFINE h == st[p].history
             k == g.history
  <1>5. /\ h \in Seq(1..MaxTx) /\ k \in Seq(1..MaxTx) /\ Lineage(h) /\ Lineage(k)
        /\ h[1] = f.genesis /\ k[1] = f.genesis /\ Len(h) \in Nat /\ Len(k) = Len(h) + 1
    <2>1. h \in Seq(1..MaxTx) /\ k \in Seq(1..MaxTx)
      BY <1>4, GoodFileFacts
    <2>2. Lineage(h) /\ Lineage(k) /\ h[1] = f.genesis /\ k[1] = f.genesis
      BY <1>4, GoodFileIs
    <2>3. Len(h) \in Nat /\ Len(k) = Len(h) + 1
      BY <1>4, <2>1
    <2> QED
      BY <2>1, <2>2, <2>3
  <1> HIDE DEF h, k
  <1>6. Len(f.history) <= Len(h)
    <2> SUFFICES ASSUME Len(k) <= Len(f.history) PROVE FALSE
      BY <1>1, <1>5
    <2>1. \A i \in 1..Len(k) : k[i] = f.history[i]
      BY <1>1, <1>2, <1>5, LineagesAgree
    <2>2. Len(k) \in 1..Len(k) /\ Len(k) \in 1..Len(f.history)
      BY <1>1, <1>5
    <2> QED
      BY <1>1, <1>2, <1>4, <2>1, <2>2 DEF k
  <1>7. \A i \in 1..Len(f.history) : f.history[i] = h[i]
    BY <1>1, <1>2, <1>5, <1>6, LineagesAgree
  <1> QED
    BY <1>3, <1>4, <1>6, <1>7 DEF h

(* The rename: the new file is good, nobody is ahead of it, and only spends *)
(* without a record can have gone further.                                  *)
LEMMA RenameInv ==
  ASSUME AgentdInv, NEW p \in Procs, Rename(p) PROVE AgentdInv'
  <1>0. /\ pc = [q \in Procs |-> pc[q]] /\ pc[p] = "rename" /\ Sent(p)
        /\ UNCHANGED <<durable, journal, cmd, st, tx, txid, unrecorded, unjournaled>>
        /\ UNCHANGED chainVars
    BY DEF AgentdInv, AgentdTypeOK, Rename, Sent, ghost
  <1>1. /\ pc'[p] = "sync" /\ \A q \in Procs \ {p} : pc'[q] = pc[q]
        /\ pc' = [q \in Procs |-> pc'[q]]
    BY <1>0 DEF Rename, Goto
  <1>2. ChainInv' /\ LinksSound' /\ Grows /\ clock' = clock /\ Txids' = Txids /\ chain' = chain
    <2>1. ChainStep /\ Txids' = Txids
      BY <1>0, StillIsQuiet
    <2> QED
      BY <1>0, <2>1, ChainStepKeeps DEF AgentdInv, chainVars
  <1>3. PICK g : g = NewState(cmd[p], st[p], tx[p], txid[p])
    OBVIOUS
  <1>4. /\ GoodFile(g) /\ cmd[p] \in Commands /\ g # NoFile /\ file' = g
        /\ Recorded(g) = Recorded(st[p]) \cup {txid[p]}
    BY <1>0, <1>3, NewStateIs, GoodFileFacts DEF Rename
  <1>5. AgentdTypeOK'
    <2>1. /\ \A q \in Procs : pc'[q] \in Steps
          /\ tx' = tx /\ \A q \in Procs : Typed(tx[q])
      BY <1>0, <1>1 DEF AgentdInv, AgentdTypeOK, Steps
    <2> QED
      BY <1>0, <1>1, <1>2, <2>1 DEF AgentdInv, AgentdTypeOK, Typed
  <1>6. Files' \subseteq Files \cup {g}
    BY <1>0, <1>4 DEF Files
  <1>7. FilesGood'
    <2>1. \A f \in Files \cup {g} : f # NoFile => GoodFile(f)'
      BY <1>2, <1>4, GoodFileStable DEF AgentdInv, FilesGood
    <2> QED
      BY <1>6, <2>1 DEF FilesGood
  <1>8. CmdsMatch' /\ BuiltMatch'
    BY <1>0, <1>1 DEF AgentdInv, CmdsMatch, BuiltMatch, Busy
  <1>9. \A q \in Procs : Sent(q)' => Sent(q) /\ q # p
    BY <1>0, <1>1 DEF Sent
  <1>10. SentGood'
    <2> SUFFICES ASSUME NEW q \in Procs, Sent(q)'
                 PROVE  /\ txid'[q] \in Txids'
                        /\ cmd'[q] # "deploy" => st'[q].status # "revoked" /\ chain'[txid'[q]].prev = st'[q].tip
                        /\ GoodFile(NewState(cmd[q], st[q], tx[q], txid[q]))'
      BY DEF SentGood
    <2> QED
      BY <1>0, <1>2, <1>9, SentStays
  <1>11. Fresh'
    <2> SUFFICES ASSUME NEW q \in Procs, Sent(q)'
                 PROVE  /\ \A f \in Files' : txid'[q] \notin Recorded(f)
                        /\ \A t \in Txids' : chain'[t].prev = txid'[q] => t \in unrecorded'
                        /\ \A r \in Procs \ {q} : Sent(r)' => txid'[r] # txid'[q]
      BY DEF Fresh, Recorded
    <2>1. Sent(q) /\ q # p /\ st[p] \in Files
      BY <1>9 DEF Files
    <2>2. /\ \A f \in Files : txid[q] \notin Recorded(f)
          /\ \A t \in Txids : chain[t].prev = txid[q] => t \in unrecorded
          /\ \A r \in Procs \ {q} : Sent(r) => txid[r] # txid[q]
      BY <2>1 DEF AgentdInv, Fresh
    <2>3. txid[q] \notin Recorded(g)
      BY <1>0, <1>4, <2>1, <2>2
    <2> QED
      BY <1>0, <1>2, <1>6, <1>9, <2>2, <2>3
  <1>12. Ahead'
    <2> SUFFICES ASSUME NEW q \in Procs, st[q] # NoFile, st[q].genesis = g.genesis
                 PROVE  Len(st[q].history) <= Len(g.history)
      BY <1>0, <1>4 DEF Ahead
    <2>1. st[q] \in Files
      BY DEF Files
    <2>2. cmd[p] # "deploy" /\ Len(st[q].history) <= Len(st[p].history)
      BY <1>0, <1>3, <2>1, NoneKnowsMore
    <2>3. g.history = Append(st[p].history, txid[p]) /\ GoodFile(st[p]) /\ GoodFile(st[q])
      BY <1>0, <1>3, <2>1, <2>2, NewStateIs DEF AgentdInv, FilesGood
    <2>4. Len(st[p].history) \in Nat /\ Len(st[q].history) \in Nat /\ st[p].history \in Seq(1..MaxTx)
      BY <2>3, GoodFileFacts
    <2> QED
      BY <2>2, <2>3, <2>4
  <1>13. Journaled'
    <2>1. \A f \in Files' : Recorded(f) \subseteq journal' \cup unjournaled'
      <3>1. st[p] \in Files
        BY DEF Files
      <3> QED
        BY <1>0, <1>4, <1>6, <3>1 DEF AgentdInv, Journaled
    <2>2. \A q \in Procs : pc'[q] = "rename" => txid'[q] \in journal' \cup unjournaled'
      BY <1>0, <1>1 DEF AgentdInv, Journaled
    <2> QED
      BY <2>1, <2>2 DEF Journaled, Recorded
  <1>14. TipSpendAccounted'
    <2> SUFFICES ASSUME NEW t \in Txids, chain[t].prev = g.tip
                 PROVE  t \in unrecorded \/ (chain[t].op = "revoke" /\ g.status = "revoked")
      BY <1>0, <1>2, <1>4 DEF TipSpendAccounted
    <2>1. CASE cmd[p] # "revoke"
      <3>1. g.tip = txid[p]
        BY <1>0, <1>3, <2>1, NewStateIs
      <3> QED
        BY <1>0, <3>1 DEF AgentdInv, Fresh
    <2>2. CASE cmd[p] = "revoke"
      <3>1. g.tip = st[p].tip /\ g.status = "revoked" /\ g.history[Len(g.history)] = txid[p]
        BY <1>0, <1>3, <2>2, NewStateIs
      <3>2. chain[txid[p]].prev = st[p].tip /\ txid[p] \in Txids
        BY <1>0, <2>2 DEF AgentdInv, SentGood
      <3>3. chain[txid[p]].op = "revoke"
        BY <1>4, <3>1, GoodFileIs
      <3>4. g.tip # 0
        BY <1>4 DEF GoodFile, MirrorsTip, Txids
      <3>5. t = txid[p]
        BY <3>1, <3>2, <3>4 DEF AgentdInv, LinksSound
      <3> QED
        BY <3>1, <3>3, <3>5
    <2> QED
      BY <2>1, <2>2
  <1> QED
    BY <1>2, <1>5, <1>7, <1>8, <1>10, <1>11, <1>12, <1>13, <1>14 DEF AgentdInv

(* A power loss: the file that survives is good, and what it does not       *)
(* record is lost.                                                          *)
LEMMA PowerLossInv ==
  ASSUME AgentdInv, PowerLoss PROVE AgentdInv'
  <1>0. /\ file' \in {file, durable} /\ durable' = file'
        /\ unrecorded' = unrecorded \cup (Txids \ Recorded(file'))
        /\ pc' = [p \in Procs |-> "idle"] /\ st' = [p \in Procs |-> NoFile]
        /\ tx' = [p \in Procs |-> NoTx] /\ txid' = [p \in Procs |-> 0]
        /\ cmd' = [p \in Procs |-> "none"]
        /\ journal' = journal /\ unjournaled' = unjournaled /\ UNCHANGED chainVars
    BY DEF PowerLoss
  <1>1. ChainInv' /\ LinksSound' /\ Grows /\ clock' = clock /\ Txids' = Txids /\ chain' = chain
    <2>1. ChainStep /\ Txids' = Txids
      BY <1>0, StillIsQuiet
    <2> QED
      BY <1>0, <2>1, ChainStepKeeps DEF AgentdInv, chainVars
  <1>2. AgentdTypeOK'
    <2>1. Typed(NoTx)' /\ NoTx' = NoTx
      BY NoTxTyped DEF Typed, NoTx, Unsigned
    <2>2. \A p \in Procs : Typed(tx[p])'
      BY <1>0, <2>1 DEF Typed
    <2> QED
      BY <1>0, <1>1, <2>2 DEF AgentdInv, AgentdTypeOK, Steps
  <1>3. \A f \in Files' : f = NoFile \/ f \in Files
    BY <1>0 DEF Files
  <1>4. FilesGood'
    <2>1. \A f \in Files : f # NoFile => GoodFile(f)'
      BY <1>1, GoodFileStable DEF AgentdInv, FilesGood
    <2> QED
      BY <1>3, <2>1 DEF FilesGood
  <1>5. CmdsMatch' /\ BuiltMatch' /\ SentGood' /\ Fresh' /\ Ahead'
    BY <1>0 DEF CmdsMatch, BuiltMatch, SentGood, Fresh, Ahead, Busy, Sent
  <1>6. Journaled'
    <2>1. \A f \in Files' : Recorded(f) \subseteq journal' \cup unjournaled'
      BY <1>0, <1>3 DEF AgentdInv, Journaled, Recorded
    <2> QED
      BY <1>0, <2>1 DEF Journaled, Recorded
  <1>7. TipSpendAccounted'
    <2>1. PICK f : f = file'
      OBVIOUS
    <2> SUFFICES ASSUME f # NoFile, NEW t \in Txids, chain[t].prev = f.tip, t \in Recorded(f)
                 PROVE  chain[t].op = "revoke" /\ f.status = "revoked"
      BY <1>0, <1>1, <2>1 DEF TipSpendAccounted, Recorded
    <2>2. GoodFile(f) /\ LinksSound /\ PrevFirst
      BY <1>0, <2>1 DEF AgentdInv, FilesGood, Files, ChainInv
    <2> DEFINE h == f.history
    <2>3. h \in Seq(1..MaxTx) /\ Len(h) \in Nat \ {0} /\ Recorded(f) = {h[i] : i \in 1..Len(h)}
      BY <2>2, GoodFileFacts
    <2>4. t <= h[Len(h)] /\ h[Len(h)] \in Txids /\ Lineage(h)
      <3>1. Lineage(h)
        BY <2>2, GoodFileIs
      <3>2. Len(h) \in 1..Len(h)
        BY <2>3
      <3> QED
        BY <2>3, <3>1, <3>2 DEF Lineage
    <2>5. CASE f.status # "revoked"
      <3>1. h[Len(h)] = f.tip
        BY <2>2, <2>5, GoodFileIs
      <3>2. f.tip \in 0..(t - 1)
        BY <2>2 DEF PrevFirst
      <3> QED
        BY <2>4, <3>1, <3>2 DEF Txids
    <2>6. CASE f.status = "revoked"
      <3>1. Len(h) > 1 /\ chain[h[Len(h)]].op = "revoke" /\ h[Len(h) - 1] = f.tip
        BY <2>2, <2>6, GoodFileIs
      <3>2. Len(h) \in 2..Len(h)
        BY <2>3, <3>1
      <3>3. chain[h[Len(h)]].prev = f.tip
        BY <2>4, <3>1, <3>2 DEF Lineage
      <3>4. f.tip # 0
        BY <2>2 DEF GoodFile, MirrorsTip, Txids
      <3>5. t = h[Len(h)]
        BY <2>2, <2>4, <3>3, <3>4 DEF LinksSound
      <3> QED
        BY <2>6, <3>1, <3>5
    <2> QED
      BY <2>5, <2>6
  <1> QED
    BY <1>1, <1>2, <1>4, <1>5, <1>6, <1>7 DEF AgentdInv

(* It holds at the start.                                                   *)
LEMMA AgentdInitInv == Init => AgentdInv
  <1> SUFFICES ASSUME Init PROVE AgentdInv
    OBVIOUS
  <1>1. ChainInv
    BY InitInv DEF Init
  <1>2. Txids = {} /\ clock = StartClock
    BY DEF Init, ChainInit, Txids
  <1>3. LinksSound
    BY <1>2 DEF LinksSound
  <1>4. AgentdTypeOK
    <2>1. \A p \in Procs : Typed(tx[p])
      BY NoTxTyped DEF Init
    <2> QED
      BY <1>2, <2>1, ChainBounds DEF Init, AgentdTypeOK, Steps
  <1>5. Files \subseteq {NoFile} /\ Recorded(NoFile) = {}
    BY DEF Init, Files, Recorded
  <1>6. /\ FilesGood /\ CmdsMatch /\ BuiltMatch /\ SentGood /\ Fresh /\ Ahead /\ Journaled
        /\ TipSpendAccounted
    BY <1>5 DEF Init, FilesGood, CmdsMatch, BuiltMatch, SentGood, Fresh, Ahead, Journaled, Busy, Sent, TipSpendAccounted
  <1> QED
    BY <1>1, <1>3, <1>4, <1>6 DEF AgentdInv

(* Every step keeps the invariant.                                          *)
LEMMA AgentdNextInv == AgentdInv /\ [Next]_vars => AgentdInv'
  <1> SUFFICES ASSUME AgentdInv, [Next]_vars PROVE AgentdInv'
    OBVIOUS
  <1>1. ASSUME NEW p \in Procs, NEW c \in Commands, Invoke(p, c) PROVE AgentdInv'
    BY <1>1, InvokeQuiet, QuietInv
  <1>2. ASSUME NEW p \in Procs, Step(p) \/ Kill(p) PROVE AgentdInv'
    <2>1. CASE \/ PreflightUnspent(p) \/ GiveUp(p) \/ BroadcastAnswerLost(p) \/ BroadcastRefused(p)
               \/ WriteFailed(p) \/ SyncDir(p) \/ SyncFailed(p) \/ SaveKeys(p) \/ Kill(p)
      BY <2>1, QuietSteps, QuietInv
    <2>2. CASE Build(p)
      BY <2>2, BuildQuiet, QuietInv
    <2>3. CASE Journal(p)
      BY <2>3, JournalQuiet, QuietInv
    <2>4. CASE BroadcastAccepted(p)
      BY <2>4, BroadcastInv
    <2>5. CASE Rename(p)
      BY <2>5, RenameInv
    <2> QED
      BY <1>2, <2>1, <2>2, <2>3, <2>4, <2>5 DEF Step
  <1>3. CASE PowerLoss
    BY <1>3, PowerLossInv
  <1>4. CASE Others
    BY <1>4, OthersQuiet, QuietInv
  <1>5. CASE UNCHANGED vars
    BY <1>5, StutterQuiet, QuietInv
  <1> QED
    BY <1>1, <1>2, <1>3, <1>4, <1>5 DEF Next

(* The invariant of agentd.                                                 *)
LEMMA AgentdInvariant == Spec => []AgentdInv
  BY AgentdInitInv, AgentdNextInv, PTL DEF Spec

-----------------------------------------------------------------------------
(* The meters and the agent key in STATE_FILE, kept by agentd's own         *)
(* arithmetic, are the ones the contract committed in the tip output,       *)
(* whatever overlaps, fails or is lost (cmd_action, cmd_recover).           *)
THEOREM AgentdFileMirrorsTip == Spec => []FileMirrorsTip
  <1>1. AgentdInv => FileMirrorsTip
    BY DEF AgentdInv, FilesGood, Files, GoodFile, FileMirrorsTip
  <1> QED
    BY <1>1, AgentdInvariant, PTL

(* The history in STATE_FILE is the lineage of its identity, from the       *)
(* deploy to the tip, without a gap.                                        *)
THEOREM AgentdHistoryIsLineage == Spec => []HistoryIsLineage
  <1>1. AgentdInv => HistoryIsLineage
    <2> SUFFICES ASSUME AgentdInv, file # NoFile PROVE HistoryIsLineage
      BY DEF HistoryIsLineage
    <2>1. GoodFile(file)
      BY DEF AgentdInv, FilesGood, Files
    <2> QED
      BY <2>1 DEF GoodFile, HistoryIsLineage
  <1> QED
    BY <1>1, AgentdInvariant, PTL

(* A transaction STATE_FILE records is in the fsynced journal, or its       *)
(* append failed: the journal is written first.                             *)
THEOREM AgentdJournalFirst == Spec => []JournalFirst
  <1>1. AgentdInv => JournalFirst
    BY DEF AgentdInv, Journaled, Files, JournalFirst
  <1> QED
    BY <1>1, AgentdInvariant, PTL

(* A spend of the recorded tip that STATE_FILE does not show is in flight,  *)
(* foreign, or was lost by a fault.                                         *)
THEOREM AgentdTipSpendAccounted == Spec => []TipSpendAccounted
  <1>1. AgentdInv => TipSpendAccounted
    BY DEF AgentdInv
  <1> QED
    BY <1>1, AgentdInvariant, PTL

(* An identity recorded as revoked has no live output: the recorded         *)
(* revocation is the last transaction of its lineage on the chain.          *)
THEOREM AgentdRevokedIsDead == Spec => []RevokedIsDead
  <1>1. AgentdInv => RevokedIsDead
    <2> SUFFICES ASSUME AgentdInv, file # NoFile, file.status = "revoked"
                 PROVE  /\ \E t \in Txids : chain[t].prev = file.tip /\ chain[t].op = "revoke"
                        /\ \A t \in Txids : chain[t].gen = file.genesis => ~ Live(t)
      BY DEF RevokedIsDead
    <2> DEFINE h == file.history
    <2>1. GoodFile(file) /\ LinksSound /\ OneTip /\ Len(chain) \in Nat
      BY DEF AgentdInv, FilesGood, Files, ChainInv, ChainTypeOK
    <2>2. PICK r : r = h[Len(h)]
      OBVIOUS
    <2>3. /\ r \in Txids /\ chain[r].op = "revoke" /\ chain[r].prev = file.tip
          /\ chain[file.tip].gen = file.genesis
      <3>1. Len(h) > 1 /\ chain[h[Len(h)]].op = "revoke" /\ h[Len(h) - 1] = file.tip
            /\ Lineage(h) /\ MirrorsTip(file)
        BY <2>1, GoodFileIs
      <3>2. Len(h) \in 2..Len(h) /\ Len(h) \in 1..Len(h)
        BY <2>1, <3>1, GoodFileFacts
      <3> QED
        BY <2>2, <3>1, <3>2 DEF Lineage, MirrorsTip
    <2>4. chain[r].gen = file.genesis /\ chain[r].out = NoOut
      BY <2>1, <2>3 DEF LinksSound
    <2>5. ~ Spent(r)
      <3> SUFFICES ASSUME NEW u \in Txids, chain[u].prev = r PROVE FALSE
        BY DEF Spent
      <3>1. r # 0
        BY <2>3 DEF Txids
      <3> QED
        BY <2>1, <2>4, <3>1 DEF LinksSound
    <2>6. ASSUME NEW t \in Txids, chain[t].gen = file.genesis, Live(t) PROVE FALSE
      <3>1. t \in Nat /\ r \in Nat /\ ~ Spent(t) /\ chain[t].out # NoOut
        BY <2>1, <2>3, <2>6 DEF Live, Txids
      <3>2. t # r
        BY <2>4, <3>1
      <3> QED
        BY <2>1, <2>3, <2>4, <2>5, <2>6, <3>1, <3>2 DEF OneTip
    <2> QED
      BY <2>3, <2>6
  <1> QED
    BY <1>1, AgentdInvariant, PTL

(* Replacing STATE_FILE extends the history of its identity by exactly one  *)
(* spend and never follows a revocation: overlapping commands cannot take   *)
(* the file back, only a power loss can.                                    *)
THEOREM AgentdFileNeverGoesBack == Spec => FileNeverGoesBack
  <1> DEFINE Forward == /\ file' # NoFile
                        /\ file'.genesis = file.genesis =>
                             file.status # "revoked" /\ Extends(file, file')
  <1>1. ASSUME AgentdInv, [Next]_vars, file # NoFile, file' # file, ~ PowerLoss
        PROVE  Forward
    <2>1. PICK p \in Procs : Rename(p)
      BY <1>1 DEF Next, Step, Invoke, PreflightUnspent, GiveUp, Build, BroadcastAccepted,
                  BroadcastAnswerLost, BroadcastRefused, Journal, WriteFailed, SyncDir, SyncFailed,
                  SaveKeys, Kill, Others, disk, vars
    <2>2. PICK g : g = NewState(cmd[p], st[p], tx[p], txid[p])
      OBVIOUS
    <2>3. file' = g /\ Sent(p) /\ GoodFile(g) /\ g # NoFile
      BY <1>1, <2>1, <2>2, NewStateIs, GoodFileFacts DEF Rename, Sent
    <2> SUFFICES ASSUME g.genesis = file.genesis
                 PROVE  file.status # "revoked" /\ Extends(file, g)
      BY <2>3 DEF Extends
    <2>4. file \in Files /\ GoodFile(file)
      BY <1>1 DEF Files, AgentdInv, FilesGood
    <2>5. /\ cmd[p] # "deploy" /\ file.genesis = st[p].genesis
          /\ Len(file.history) <= Len(st[p].history)
          /\ \A i \in 1..Len(file.history) : file.history[i] = st[p].history[i]
      BY <1>1, <2>2, <2>3, <2>4, NoneKnowsMore
    <2>6. /\ GoodFile(st[p]) /\ st[p].status # "revoked" /\ st[p] # NoFile
          /\ g.history = Append(st[p].history, txid[p])
      BY <1>1, <2>2, <2>3, <2>5, NewStateIs, GoodFileFacts
    <2> DEFINE h == file.history
               k == st[p].history
    <2>7. /\ h \in Seq(1..MaxTx) /\ k \in Seq(1..MaxTx)
          /\ Len(h) \in Nat \ {0} /\ Len(k) \in Nat \ {0}
      BY <2>4, <2>6, GoodFileFacts
    <2>8. Len(k) <= Len(h)
      BY <1>1, <2>5, <2>6 DEF AgentdInv, Ahead
    <2>9. Len(h) = Len(k)
      BY <2>5, <2>7, <2>8
    <2>10. h = k
      BY <2>5, <2>7, <2>9
    <2>11. txid[p] \in 1..MaxTx
      <3>1. txid[p] \in Txids
        BY <1>1, <2>3 DEF AgentdInv, SentGood
      <3> QED
        BY <1>1, <3>1, ChainBounds DEF Txids, AgentdInv, ChainInv, ChainTypeOK
    <2>12. Extends(file, g)
      <3>1. /\ Len(g.history) = Len(h) + 1 /\ g.history \in Seq(1..MaxTx)
            /\ \A i \in 1..Len(h) : g.history[i] = h[i]
        BY <2>6, <2>7, <2>10, <2>11, AppendProperties
      <3>2. SubSeq(g.history, 1, Len(h)) = h
        <4>1. \A i \in 1..Len(h) : g.history[i] \in 1..MaxTx
          <5>1. \A i \in 1..Len(h) : h[i] \in 1..MaxTx
            BY <2>7, ElementOfSeq
          <5> QED
            BY <3>1, <5>1
        <4>2. PICK s : s = SubSeq(g.history, 1, Len(h))
          OBVIOUS
        <4>3. /\ s \in Seq(1..MaxTx) /\ Len(s) = Len(h)
              /\ \A i \in 1..Len(h) : s[i] = g.history[i]
          BY <2>7, <4>1, <4>2, SubSeqProperties
        <4> QED
          BY <2>7, <3>1, <4>2, <4>3
      <3> QED
        BY <3>1, <3>2 DEF Extends
    <2>13. file.status # "revoked"
      <3> SUFFICES ASSUME file.status = "revoked" PROVE FALSE
        OBVIOUS
      <3>1. chain[h[Len(h)]].op = "revoke" /\ k[Len(k)] = st[p].tip
        BY <2>4, <2>6, GoodFileIs
      <3>2. st[p].tip \in Txids /\ chain[st[p].tip].out # NoOut
        BY <2>6 DEF GoodFile, MirrorsTip
      <3> QED
        BY <1>1, <2>10, <3>1, <3>2 DEF AgentdInv, LinksSound
    <2> QED
      BY <2>12, <2>13
  <1>2. AgentdInv /\ [Next]_vars =>
          [file # NoFile /\ file' # file /\ ~ PowerLoss => Forward]_vars
    BY <1>1
  <1> QED
    BY <1>2, AgentdInvariant, PTL DEF Spec, FileNeverGoesBack
=============================================================================
