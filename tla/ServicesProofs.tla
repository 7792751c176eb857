--------------------------- MODULE ServicesProofs ---------------------------
(***************************************************************************)
(* Theorems about four of the services next to the chain, each by itself,  *)
(* for any constants: the thread of a RicardianTea identity with the C     *)
(* builders that spend it and the indexer that walks it, the sandboxed     *)
(* agent between meter, enclave and effect, the charter verifier and its   *)
(* audit, and the manifest registry with its log.                          *)
(*                                                                         *)
(* The arguments.  A receipt carries the counter of the state it spends,   *)
(* and every receipt moves that counter on; a walk has collected, in       *)
(* rising or falling order, the receipts of the interval it has walked.    *)
(* A key is minted once and for one identity, and is in the vault or       *)
(* erased; the actions since the meter last rolled add up to what it       *)
(* shows, and what is less than a window older than that roll adds up to   *)
(* one budget at most.  The scanner of a charter has an error at a line    *)
(* exactly if the lines up to it are not well formed, and otherwise has    *)
(* found those lines, no two of a key, so that counting them decides       *)
(* whether every required key is there.  Replaying the log gives, for all  *)
(* but a few extensions, the answers of the store: every failed write      *)
(* adds at most two, one of them only once the line it left open has       *)
(* been continued.                                                         *)
(***************************************************************************)
EXTENDS RicardianThread, Sandbox, Charter, ManifestRegistry, SumTheorems, SequenceTheorems

ThreadSpec == ThreadInit /\ [][ThreadNext]_threadVars
SandboxSpec == SandboxInit /\ [][SandboxNext]_sandboxVars
CharterSpec == CharterInit /\ [][CharterNext]_charterVars
RegistrySpec == RegistryInit /\ [][RegistryNext]_registryVars

-----------------------------------------------------------------------------
(* The identity's thread.                                                   *)
TeaStates == [txCount : Nat, spentInWindow : Int, windowStart : Nat, tier : {1, 2}, slashCheckpointHash : Int]
Executed(s, a, c, t) == <<State(s), P2PKH("counterparty"), Receipt(<<a, c, t>>)>>
Paid == {<<P2PKH(w)>> : w \in {"owner", "reporter"}}
TeaSpends == {<<State(s)>> : s \in TeaStates} \cup Paid
             \cup {Executed(s, a, c, t) : s \in TeaStates, a \in Int, c \in Nat, t \in Nat}
ThreadTypeOK == tea \in TeaStates /\ thread \in Seq(TeaSpends)

(* Receipts are numbered by the counter of the state they spend.            *)
Number(i) == thread[i][3].hash[2]
ReceiptsNumbered ==
  /\ \A i \in 1..Len(thread) : parse_receipt_hash(i) => Number(i) \in 0..(tea.txCount - 1)
  /\ \A i, j \in 1..Len(thread) :
       i # j /\ parse_receipt_hash(i) /\ parse_receipt_hash(j) => Number(i) # Number(j)

(* The successor state, as contract and builder write it, field by field.   *)
Successor(s, amount, now) ==
  [txCount |-> s.txCount + 1,
   spentInWindow |-> (IF now - s.windowStart >= windowDuration THEN 0 ELSE s.spentInWindow) + amount,
   windowStart |-> IF now - s.windowStart >= windowDuration THEN now ELSE s.windowStart,
   tier |-> IF s.txCount + 1 >= graduationThreshold /\ s.tier < 2 THEN 2 ELSE s.tier,
   slashCheckpointHash |-> s.slashCheckpointHash]

(* The updates of a state, in the order of the contract and of the C code.  *)
ByContract(s, c, p, w, t) == [s EXCEPT !.txCount = c, !.spentInWindow = p, !.windowStart = w, !.tier = t]
ByBuilder(s, c, p, w) == [s EXCEPT !.windowStart = w, !.spentInWindow = p, !.txCount = c]

(* Either way the fields are the same.                                      *)
LEMMA TeaUpdates ==
  ASSUME NEW s \in TeaStates, NEW c, NEW p, NEW w, NEW t
  PROVE  /\ ByContract(s, c, p, w, t) =
              [txCount |-> c, spentInWindow |-> p, windowStart |-> w, tier |-> t,
               slashCheckpointHash |-> s.slashCheckpointHash]
         /\ ByBuilder(s, c, p, w) =
              [txCount |-> c, spentInWindow |-> p, windowStart |-> w, tier |-> s.tier,
               slashCheckpointHash |-> s.slashCheckpointHash]
  <1>1. s = [txCount |-> s.txCount, spentInWindow |-> s.spentInWindow, windowStart |-> s.windowStart,
             tier |-> s.tier, slashCheckpointHash |-> s.slashCheckpointHash]
    BY DEF TeaStates
  <1>2. PICK x : x = [s EXCEPT !.txCount = c]
    OBVIOUS
  <1>3. x = [txCount |-> c, spentInWindow |-> s.spentInWindow, windowStart |-> s.windowStart,
             tier |-> s.tier, slashCheckpointHash |-> s.slashCheckpointHash]
    BY <1>2 DEF TeaStates
  <1>4. PICK y : y = [x EXCEPT !.spentInWindow = p]
    OBVIOUS
  <1>5. y = [txCount |-> c, spentInWindow |-> p, windowStart |-> s.windowStart,
             tier |-> s.tier, slashCheckpointHash |-> s.slashCheckpointHash]
    BY <1>3, <1>4
  <1>6. PICK z : z = [y EXCEPT !.windowStart = w]
    OBVIOUS
  <1>7. z = [txCount |-> c, spentInWindow |-> p, windowStart |-> w,
             tier |-> s.tier, slashCheckpointHash |-> s.slashCheckpointHash]
    BY <1>5, <1>6
  <1>8. [z EXCEPT !.tier = t] = [txCount |-> c, spentInWindow |-> p, windowStart |-> w,
             tier |-> t, slashCheckpointHash |-> s.slashCheckpointHash]
    BY <1>7
  <1>9. [s EXCEPT !.txCount = c, !.spentInWindow = p, !.windowStart = w, !.tier = t] = [z EXCEPT !.tier = t]
    BY <1>2, <1>4, <1>6, Zenon
  <1>10. PICK k : k = [s EXCEPT !.windowStart = w]
    OBVIOUS
  <1>11. k = [txCount |-> s.txCount, spentInWindow |-> s.spentInWindow, windowStart |-> w,
              tier |-> s.tier, slashCheckpointHash |-> s.slashCheckpointHash]
    BY <1>10 DEF TeaStates
  <1>12. PICK l : l = [k EXCEPT !.spentInWindow = p]
    OBVIOUS
  <1>13. l = [txCount |-> s.txCount, spentInWindow |-> p, windowStart |-> w,
              tier |-> s.tier, slashCheckpointHash |-> s.slashCheckpointHash]
    BY <1>11, <1>12
  <1>14. [l EXCEPT !.txCount = c] = [txCount |-> c, spentInWindow |-> p, windowStart |-> w,
              tier |-> s.tier, slashCheckpointHash |-> s.slashCheckpointHash]
    BY <1>13
  <1>15. [s EXCEPT !.windowStart = w, !.spentInWindow = p, !.txCount = c] = [l EXCEPT !.txCount = c]
    BY <1>10, <1>12, Zenon
  <1> QED
    BY <1>8, <1>9, <1>14, <1>15, Zenon DEF ByContract, ByBuilder

(* The C builder's successor is the contract's.                             *)
LEMMA AppliesSuccessor ==
  ASSUME NEW s \in TeaStates, NEW amount \in Int, NEW now \in Nat
  PROVE  /\ Successor(s, amount, now) \in TeaStates
         /\ ricardian_tea_apply_action(s, amount, now) = Successor(s, amount, now)
  <1>1. Successor(s, amount, now) \in TeaStates
    BY DEF Successor, TeaStates
  <1> DEFINE rolls == now - s.windowStart >= windowDuration
             w == IF rolls THEN now ELSE s.windowStart
             p == (IF rolls THEN 0 ELSE s.spentInWindow) + amount
             c == s.txCount + 1
             next == ByBuilder(s, c, p, w)
  <1>2. ricardian_tea_apply_action(s, amount, now) =
          IF next.txCount >= graduationThreshold /\ s.tier < 2 THEN [next EXCEPT !.tier = 2] ELSE next
    BY Zenon DEF ricardian_tea_apply_action, ByBuilder
  <1>3. Successor(s, amount, now) =
          [txCount |-> c, spentInWindow |-> p, windowStart |-> w,
           tier |-> IF c >= graduationThreshold /\ s.tier < 2 THEN 2 ELSE s.tier,
           slashCheckpointHash |-> s.slashCheckpointHash]
    BY Zenon DEF Successor
  <1> HIDE DEF w, p, c
  <1>4. next = [txCount |-> c, spentInWindow |-> p, windowStart |-> w, tier |-> s.tier,
                slashCheckpointHash |-> s.slashCheckpointHash]
    BY TeaUpdates
  <1> HIDE DEF next
  <1>5. next.txCount = c /\ [next EXCEPT !.tier = 2] =
          [txCount |-> c, spentInWindow |-> p, windowStart |-> w, tier |-> 2,
           slashCheckpointHash |-> s.slashCheckpointHash]
    BY <1>4
  <1>6. CASE c >= graduationThreshold /\ s.tier < 2
    <2>1. Successor(s, amount, now) =
            [txCount |-> c, spentInWindow |-> p, windowStart |-> w, tier |-> 2,
             slashCheckpointHash |-> s.slashCheckpointHash]
      BY <1>3, <1>6, Zenon
    <2>2. ricardian_tea_apply_action(s, amount, now) = [next EXCEPT !.tier = 2]
      BY <1>2, <1>5, <1>6, Zenon
    <2> QED
      BY <1>1, <1>5, <2>1, <2>2, Zenon
  <1>7. CASE ~ (c >= graduationThreshold /\ s.tier < 2)
    <2>1. Successor(s, amount, now) =
            [txCount |-> c, spentInWindow |-> p, windowStart |-> w, tier |-> s.tier,
             slashCheckpointHash |-> s.slashCheckpointHash]
      BY <1>3, <1>7, Zenon
    <2>2. ricardian_tea_apply_action(s, amount, now) = next
      BY <1>2, <1>5, <1>7, Zenon
    <2> QED
      BY <1>1, <1>4, <2>1, <2>2, Zenon
  <1> QED
    BY <1>6, <1>7

(* So what executeTea demands is what the builder makes, receipt and all.   *)
LEMMA ExecuteFits ==
  ASSUME NEW s \in TeaStates, NEW amount \in Int, NEW attested, NEW now \in Nat
  PROVE  /\ build_ricardian_tea_execute(s, amount, now) =
              Executed(Successor(s, amount, now), amount, s.txCount, now)
         /\ executeTea(s, amount, attested, now) \subseteq {build_ricardian_tea_execute(s, amount, now)}
  <1>1. build_ricardian_tea_execute(s, amount, now) =
          Executed(Successor(s, amount, now), amount, s.txCount, now)
    BY AppliesSuccessor DEF build_ricardian_tea_execute, ricardian_tea_receipt_hash, Executed
  <1> DEFINE rolls == now - s.windowStart >= windowDuration
             w == IF rolls THEN now ELSE s.windowStart
             p == (IF rolls THEN 0 ELSE s.spentInWindow) + amount
             c == s.txCount + 1
             t == IF c >= graduationThreshold /\ s.tier < 2 THEN 2 ELSE s.tier
             next == ByContract(s, c, p, w, t)
  <1>2. executeTea(s, amount, attested, now)
          \subseteq {<<State(next), P2PKH("counterparty"), Receipt(<<amount, s.txCount, now>>)>>}
    BY Zenon DEF executeTea, ByContract
  <1>3. Successor(s, amount, now) =
          [txCount |-> c, spentInWindow |-> p, windowStart |-> w, tier |-> t,
           slashCheckpointHash |-> s.slashCheckpointHash]
    BY Zenon DEF Successor
  <1> HIDE DEF w, p, c, t
  <1>4. next = [txCount |-> c, spentInWindow |-> p, windowStart |-> w, tier |-> t,
                slashCheckpointHash |-> s.slashCheckpointHash]
    BY TeaUpdates
  <1> HIDE DEF next
  <1>5. next = Successor(s, amount, now)
    BY <1>3, <1>4
  <1> QED
    BY <1>1, <1>2, <1>5, Zenon DEF Executed

(* Only an execution leaves a receipt, and in third place.                  *)
HasReceipt(b) == {i \in 1..Len(b) : b[i].type = "receipt"} # {}

(* The receipts of a bounty or of a new thread are among its coins.         *)
LEMMA ReceiptForms ==
  /\ \A s : ~ HasReceipt(<<State(s)>>)
  /\ \A b \in Paid : ~ HasReceipt(b)
  /\ \A s, a, c, t : HasReceipt(Executed(s, a, c, t)) /\ Executed(s, a, c, t)[3].hash[2] = c
  <1>1. ASSUME NEW x, x.type # "receipt" PROVE ~ HasReceipt(<<x>>)
    BY <1>1 DEF HasReceipt
  <1>2. \A s : State(s).type # "receipt"
    BY DEF State
  <1>3. \A w : P2PKH(w).type # "receipt"
    BY DEF P2PKH
  <1>4. ASSUME NEW s, NEW a, NEW c, NEW t
        PROVE HasReceipt(Executed(s, a, c, t)) /\ Executed(s, a, c, t)[3].hash[2] = c
    <2>1. Executed(s, a, c, t)[3] = Receipt(<<a, c, t>>) /\ Len(Executed(s, a, c, t)) = 3
      BY DEF Executed
    <2>2. Receipt(<<a, c, t>>).type = "receipt" /\ Receipt(<<a, c, t>>).hash = <<a, c, t>>
      BY DEF Receipt
    <2> QED
      BY <2>1, <2>2 DEF HasReceipt
  <1> QED
    BY <1>1, <1>2, <1>3, <1>4 DEF Paid

(* A spend without a receipt leaves the counter alone; one with a receipt   *)
(* writes the counter on it and moves it on.                                *)
TeaSpent(b) ==
  /\ b \in TeaSpends /\ thread' = Append(thread, b) /\ tea' \in TeaStates
  /\ \/ ~ HasReceipt(b) /\ tea'.txCount = tea.txCount
     \/ HasReceipt(b) /\ b[3].hash[2] = tea.txCount /\ tea'.txCount = tea.txCount + 1

(* What the steps do to the thread.                                         *)
LEMMA TeaSteps ==
  ASSUME ThreadTypeOK, [ThreadNext]_threadVars
  PROVE  UNCHANGED <<thread, tea>> \/ \E b \in TeaSpends : TeaSpent(b)
  <1>0. tea \in TeaStates
    BY DEF ThreadTypeOK
  <1>1. \A s : <<State(s)>>[1].type = "state" /\ <<State(s)>>[1].state = s
    BY DEF State
  <1>2. CASE Execute
    <2>1. PICK amount \in Amounts, attested \in Amounts, now \in Times :
            SpendTea(build_ricardian_tea_execute(tea, amount, now), executeTea(tea, amount, attested, now))
      BY <1>2 DEF Execute
    <2>2. amount \in Int /\ now \in Nat
      BY ThreadConstants
    <2>3. PICK s \in TeaStates : s = Successor(tea, amount, now)
      BY <1>0, <2>2, AppliesSuccessor
    <2>4. PICK b : b = Executed(s, amount, tea.txCount, now)
      OBVIOUS
    <2>5. build_ricardian_tea_execute(tea, amount, now) = b
      BY <1>0, <2>2, <2>3, <2>4, ExecuteFits
    <2>6. b[1] = State(s)
      BY <2>4 DEF Executed
    <2>7. thread' = Append(thread, b) /\ tea' = s
      BY <2>1, <2>5, <2>6 DEF SpendTea, State
    <2>8. s.txCount = tea.txCount + 1 /\ tea.txCount \in Nat
      BY <1>0, <2>3 DEF Successor, TeaStates
    <2>9. b \in TeaSpends
      BY <2>2, <2>4, <2>8 DEF TeaSpends
    <2>10. HasReceipt(b) /\ b[3].hash[2] = tea.txCount
      BY <2>4, ReceiptForms
    <2> QED
      BY <2>7, <2>8, <2>9, <2>10 DEF TeaSpent
  <1>3. CASE Checkpoint
    <2>1. PICK headers \in 0..1 :
            SpendTea(build_ricardian_tea_checkpoint(tea, tea.slashCheckpointHash + headers),
                     updateSlashCheckpoint(tea, headers))
      BY <1>3 DEF Checkpoint
    <2>2. PICK s : s = [tea EXCEPT !.slashCheckpointHash = tea.slashCheckpointHash + headers]
      OBVIOUS
    <2>3. tea.slashCheckpointHash + headers \in Int
      BY <1>0 DEF TeaStates
    <2>4. s \in TeaStates /\ s.txCount = tea.txCount
      BY <1>0, <2>2, <2>3 DEF TeaStates
    <2>5. build_ricardian_tea_checkpoint(tea, tea.slashCheckpointHash + headers) = <<State(s)>>
      BY <2>2, Zenon DEF build_ricardian_tea_checkpoint
    <2>6. thread' = Append(thread, <<State(s)>>) /\ tea' = s
      BY <1>1, <2>1, <2>5 DEF SpendTea
    <2>7. <<State(s)>> \in TeaSpends /\ ~ HasReceipt(<<State(s)>>)
      BY <2>4, ReceiptForms DEF TeaSpends
    <2> QED
      BY <2>4, <2>6, <2>7 DEF TeaSpent
  <1>4. ASSUME NEW b \in Paid, NEW demanded, SpendTea(b, demanded) PROVE \E c \in TeaSpends : TeaSpent(c)
    <2>1. b[1].type # "state"
      BY <1>4 DEF Paid, P2PKH
    <2>2. thread' = Append(thread, b) /\ tea' = tea
      BY <1>4, <2>1 DEF SpendTea
    <2>3. b \in TeaSpends /\ ~ HasReceipt(b)
      BY <1>4, ReceiptForms DEF TeaSpends
    <2> QED
      BY <1>0, <2>2, <2>3 DEF TeaSpent
  <1>5. build_ricardian_tea_slash \in Paid /\ build_ricardian_tea_revoke \in Paid
    BY DEF build_ricardian_tea_slash, build_ricardian_tea_revoke, build_payout_to_pubkey, Paid
  <1>6. CASE Slash \/ Revoke
    BY <1>4, <1>5, <1>6 DEF Slash, Revoke
  <1>7. CASE IndexSpend \/ BeginForward \/ ForwardHop \/ BeginBackward \/ BackwardHop \/ WalkFails
             \/ WalkEnds \/ UNCHANGED threadVars
    BY <1>7 DEF IndexSpend, BeginForward, ForwardHop, BeginBackward, BackwardHop, WalkFails, WalkEnds,
                threadVars
  <1> QED
    BY <1>2, <1>3, <1>6, <1>7 DEF ThreadNext

(* The counter on the newest receipt is the next one.                       *)
LEMMA NumbersStep ==
  ASSUME ThreadTypeOK, ReceiptsNumbered, [ThreadNext]_threadVars
  PROVE  ThreadTypeOK' /\ ReceiptsNumbered'
  <1>1. CASE UNCHANGED <<thread, tea>>
    BY <1>1 DEF ThreadTypeOK, ReceiptsNumbered, Number, parse_receipt_hash
  <1>2. CASE \E b \in TeaSpends : TeaSpent(b)
    <2>1. PICK b \in TeaSpends : TeaSpent(b)
      BY <1>2
    <2>2. thread \in Seq(TeaSpends) /\ tea.txCount \in Nat /\ tea' \in TeaStates /\ tea'.txCount \in Nat
      BY <2>1 DEF ThreadTypeOK, TeaStates, TeaSpent
    <2>3. PICK n \in Nat : n = Len(thread)
      BY <2>2
    <2>4. /\ thread' \in Seq(TeaSpends) /\ Len(thread') = n + 1 /\ thread'[n + 1] = b
          /\ \A i \in 1..n : thread'[i] = thread[i]
      BY <2>1, <2>2, <2>3, AppendProperties DEF TeaSpent
    <2>5. \A i \in 1..Len(thread') : i \in 1..n \/ i = n + 1
      BY <2>4
    <2>6. \A i \in 1..n : parse_receipt_hash(i)' = parse_receipt_hash(i) /\ Number(i)' = Number(i)
      BY <2>4 DEF parse_receipt_hash, Number
    <2>7. parse_receipt_hash(n + 1)' = HasReceipt(b) /\ Number(n + 1)' = b[3].hash[2]
      BY <2>4 DEF parse_receipt_hash, Number, HasReceipt
    <2>8. \A i \in 1..n : parse_receipt_hash(i) => Number(i) \in 0..(tea.txCount - 1)
      BY <2>3 DEF ReceiptsNumbered
    <2>9. \A i, j \in 1..n : i # j /\ parse_receipt_hash(i) /\ parse_receipt_hash(j) => Number(i) # Number(j)
      BY <2>3 DEF ReceiptsNumbered
    <2>10. \A i \in 1..Len(thread') : parse_receipt_hash(i)' => Number(i)' \in 0..(tea'.txCount - 1)
      BY <2>1, <2>2, <2>5, <2>6, <2>7, <2>8 DEF TeaSpent
    <2>11. HasReceipt(b) => b[3].hash[2] = tea.txCount
      BY <2>1 DEF TeaSpent
    <2>12. \A i, j \in 1..Len(thread') :
             i # j /\ parse_receipt_hash(i)' /\ parse_receipt_hash(j)' => Number(i)' # Number(j)'
      BY <2>2, <2>5, <2>6, <2>7, <2>8, <2>9, <2>11
    <2> QED
      BY <2>2, <2>4, <2>10, <2>12 DEF ThreadTypeOK, ReceiptsNumbered
  <1> QED
    BY <1>1, <1>2, TeaSteps

(* "output[0] of an executeTea spend MUST carry these advances or ... the   *)
(* tx is unminable": in every state a thread gets into the builders make    *)
(* what the contract demands, and no two receipts of a thread are the same. *)
THEOREM ServicesTeaBuildersFit == ThreadSpec => []TeaBuildersFit
PROOF
<1> DEFINE IInv == ThreadTypeOK /\ ReceiptsNumbered
<1>1. ThreadInit => IInv
  BY DEF ThreadInit, ThreadTypeOK, ReceiptsNumbered, TeaStates, tea_genesis_state
<1>2. IInv /\ [ThreadNext]_threadVars => IInv'
  BY NumbersStep
<1>3. IInv => TeaBuildersFit
  <2> SUFFICES ASSUME ThreadTypeOK, ReceiptsNumbered PROVE TeaBuildersFit
    OBVIOUS
  <2>1. \A amount, attested \in Amounts, now \in Times :
          executeTea(tea, amount, attested, now) \subseteq {build_ricardian_tea_execute(tea, amount, now)}
    BY ExecuteFits, ThreadConstants DEF ThreadTypeOK
  <2>2. \A i, j \in 1..Len(thread) :
          i # j /\ parse_receipt_hash(i) /\ parse_receipt_hash(j) => thread[i][3].hash # thread[j][3].hash
    BY DEF ReceiptsNumbered, Number
  <2> QED BY <2>1, <2>2 DEF TeaBuildersFit
<1> HIDE DEF IInv
<1> QED BY <1>1, <1>2, <1>3, PTL DEF ThreadSpec

-----------------------------------------------------------------------------
(* The indexer.  The numbers collected, in the order of the chain or in the *)
(* opposite one.                                                            *)
Collected(s) == {s[i] : i \in 1..Len(s)}
Rising(s) == \A i, j \in 1..Len(s) : i < j => s[i] < s[j]
Falling(s) == \A i, j \in 1..Len(s) : i < j => s[i] > s[j]
Received(lo, hi) == {t \in lo..hi : parse_receipt_hash(t)}

(* Collecting one more, and turning the collection around.                  *)
LEMMA Collecting ==
  ASSUME NEW s \in Seq(Nat), NEW x \in Nat
  PROVE  /\ Append(s, x) \in Seq(Nat) /\ Collected(Append(s, x)) = Collected(s) \cup {x}
         /\ Rising(s) /\ (\A y \in Collected(s) : y < x) => Rising(Append(s, x))
         /\ Falling(s) /\ (\A y \in Collected(s) : y > x) => Falling(Append(s, x))
PROOF
<1>1. PICK n \in Nat : n = Len(s)
  OBVIOUS
<1>2. PICK q \in Seq(Nat) : q = Append(s, x)
  <2>1. Append(s, x) \in Seq(Nat)
    OBVIOUS
  <2> QED BY <2>1
<1>3. Len(q) = n + 1 /\ q[n + 1] = x /\ \A i \in 1..n : q[i] = s[i] /\ s[i] \in Nat
  BY <1>1, <1>2
<1>4. Collected(q) = Collected(s) \cup {x}
  <2>1. \A y : y \in Collected(q) <=> \E i \in 1..(n + 1) : y = q[i]
    BY <1>3, Zenon DEF Collected
  <2>2. \A y : y \in Collected(s) <=> \E i \in 1..n : y = s[i]
    BY <1>1, Zenon DEF Collected
  <2>3. \A i : i \in 1..(n + 1) <=> i \in 1..n \/ i = n + 1
    OBVIOUS
  <2>4. \A y : y \in Collected(q) <=> y \in Collected(s) \/ y = x
    <3>1. ASSUME NEW y, y \in Collected(q) PROVE y \in Collected(s) \/ y = x
      <4>1. PICK i \in 1..(n + 1) : y = q[i]
        BY <2>1, <3>1, Zenon
      <4>2. CASE i \in 1..n
        BY <1>3, <2>2, <4>1, <4>2, Zenon
      <4>3. CASE i = n + 1
        BY <1>3, <4>1, <4>3, Zenon
      <4> QED BY <2>3, <4>1, <4>2, <4>3, Zenon
    <3>2. ASSUME NEW y, y \in Collected(s) PROVE y \in Collected(q)
      <4>1. PICK i \in 1..n : y = s[i]
        BY <2>2, <3>2, Zenon
      <4>2. i \in 1..(n + 1) /\ y = q[i]
        BY <1>3, <2>3, <4>1, Zenon
      <4> QED BY <2>1, <4>2, Zenon
    <3>3. x \in Collected(q)
      <4>1. n + 1 \in 1..(n + 1)
        OBVIOUS
      <4> QED BY <1>3, <2>1, <4>1, Zenon
    <3> QED BY <3>1, <3>2, <3>3, Zenon
  <2> QED BY <2>4, Zenon
<1>5. \A i \in 1..n : s[i] \in Collected(s)
  BY <1>1 DEF Collected
<1>a. \A i, j \in 1..Len(q) : i < j => i \in 1..n /\ (j \in 1..n \/ j = n + 1)
  BY <1>3
<1>6. ASSUME Rising(s), \A y \in Collected(s) : y < x PROVE Rising(q)
  <2>1. \A i, j \in 1..n : i < j => q[i] < q[j]
    BY <1>1, <1>3, <1>6 DEF Rising
  <2>2. \A i \in 1..n : q[i] < q[n + 1]
    BY <1>3, <1>5, <1>6
  <2> QED BY <1>a, <2>1, <2>2 DEF Rising
<1>7. ASSUME Falling(s), \A y \in Collected(s) : y > x PROVE Falling(q)
  <2>1. \A i, j \in 1..n : i < j => q[i] > q[j]
    BY <1>1, <1>3, <1>7 DEF Falling
  <2>2. \A i \in 1..n : q[i] > q[n + 1]
    BY <1>3, <1>5, <1>7
  <2> QED BY <1>a, <2>1, <2>2 DEF Falling
<1> QED BY <1>2, <1>4, <1>6, <1>7

LEMMA TurnedAround ==
  ASSUME NEW s \in Seq(Nat), Falling(s), NEW q, q = [i \in 1..Len(s) |-> s[Len(s) + 1 - i]]
  PROVE  q \in Seq(Nat) /\ Collected(q) = Collected(s) /\ Rising(q)
PROOF
<1>1. PICK n \in Nat : n = Len(s)
  OBVIOUS
<1>2. \A i \in 1..n : n + 1 - i \in 1..n /\ n + 1 - (n + 1 - i) = i /\ s[i] \in Nat
  BY <1>1
<1>3. q = [i \in 1..n |-> s[n + 1 - i]] /\ \A i \in 1..n : s[n + 1 - i] \in Nat
  BY <1>1, <1>2
<1>4. q \in Seq(Nat) /\ Len(q) = n /\ \A i \in 1..n : q[i] = s[n + 1 - i]
  BY <1>3
<1>5. Collected(q) = Collected(s)
  <2>1. ASSUME NEW i \in 1..n PROVE \E j \in 1..n : q[i] = s[j]
    BY <1>2, <1>4
  <2>2. ASSUME NEW i \in 1..n PROVE \E j \in 1..n : s[i] = q[j]
    <3>1. n + 1 - i \in 1..n /\ n + 1 - (n + 1 - i) = i
      BY <1>2
    <3>2. q[n + 1 - i] = s[n + 1 - (n + 1 - i)]
      BY <1>4, <3>1
    <3>3. q[n + 1 - i] = s[i]
      BY <3>1, <3>2
    <3> QED BY <3>1, <3>3
  <2> QED BY <1>1, <1>4, <2>1, <2>2 DEF Collected
<1>6. Rising(q)
  <2>1. \A i, j \in 1..n : i < j => n + 1 - i > n + 1 - j
    OBVIOUS
  <2>2. \A i, j \in 1..n : i > j => s[i] < s[j]
    BY <1>1, <1>2 DEF Falling
  <2>3. \A i, j \in 1..n : i < j => s[n + 1 - i] < s[n + 1 - j]
    BY <1>2, <2>1, <2>2
  <2> QED BY <1>4, <2>3 DEF Rising
<1> QED BY <1>4, <1>5, <1>6

(* A walk under way has collected what lies behind it.                      *)
Walks == [dir : {"forward", "backward", "returned"}, way : {"forward", "backward"}, at : Nat \cup {Foreign},
          hops : Nat, got : Seq(Nat \cup {Foreign}), rc : {"none", "ok", "error", "hoplimit", "parse"},
          seen : Nat \cup {Foreign}]
ForwardOK == walk.dir = "forward" =>
  /\ walk.way = "forward" /\ walk.at \in 0..known /\ walk.hops = walk.at /\ walk.at <= MAX_HOPS
  /\ walk.seen \in 0..known /\ walk.got \in Seq(Nat)
  /\ Collected(walk.got) = Received(1, walk.at) /\ Rising(walk.got)
BackwardOK == walk.dir = "backward" =>
  /\ walk.way = "backward"
  /\ walk.seen # Foreign =>
       /\ walk.seen \in 0..Len(thread) /\ walk.at \in 0..walk.seen /\ walk.got \in Seq(Nat)
       /\ Collected(walk.got) = Received(walk.at + 1, walk.seen) /\ Falling(walk.got)
ReturnedOK ==
  walk.dir = "returned" /\ walk.rc = "ok" /\ walk.way = "backward" /\ walk.seen # Foreign => walk.seen \in 0..Len(thread)
WalkOK ==
  /\ known \in 0..Len(thread) /\ (walk = NoWalk \/ walk \in Walks)
  /\ ForwardOK /\ BackwardOK /\ ReturnedOK /\ HistoryIsWhole

LEMMA NoWalkIs == NoWalk.dir = "none"
  BY DEF NoWalk

LEMMA UpTo == ASSUME NEW n, NEW got PROVE ReceiptsUpTo(n, got) <=> Collected(got) = Received(1, n) /\ Rising(got)
  BY DEF ReceiptsUpTo, Collected, Received, Rising

(* The thread grows, or the spent index catches up, behind a walk.          *)
LEMMA GrowStep ==
  ASSUME WalkOK, thread \in Seq(TeaSpends), thread' \in Seq(TeaSpends), Len(thread) <= Len(thread'),
         \A i \in 1..Len(thread) : thread'[i] = thread[i],
         UNCHANGED walk, known' \in {known, known + 1}, known' <= Len(thread')
  PROVE  WalkOK'
PROOF
<1>1. PICK n \in Nat, m \in Nat : n = Len(thread) /\ m = Len(thread') /\ n <= m
  <2>1. Len(thread) \in Nat /\ Len(thread') \in Nat
    OBVIOUS
  <2> QED BY <2>1
<1>2. known \in Nat /\ known <= n /\ known' \in Nat /\ known' <= m /\ known <= known'
  BY <1>1 DEF WalkOK
<1>3. \A t \in 1..n : parse_receipt_hash(t)' = parse_receipt_hash(t) /\ is_terminal_spend(t)' = is_terminal_spend(t)
  BY <1>1 DEF parse_receipt_hash, is_terminal_spend
<1>4. \A lo \in Nat, hi \in 0..n : lo >= 1 => Received(lo, hi)' = Received(lo, hi)
  BY <1>3 DEF Received
<1>5. ForwardOK'
  <2>1. CASE walk.dir = "forward"
    <3>1. /\ walk.way = "forward" /\ walk.at \in 0..known /\ walk.hops = walk.at /\ walk.at <= MAX_HOPS
          /\ walk.seen \in 0..known /\ walk.got \in Seq(Nat)
          /\ Collected(walk.got) = Received(1, walk.at) /\ Rising(walk.got)
      BY <2>1 DEF WalkOK, ForwardOK
    <3>2. Received(1, walk.at)' = Received(1, walk.at)
      <4>1. walk.at \in 0..n /\ walk'.at = walk.at
        BY <1>2, <3>1
      <4>2. \A hi \in 0..n : Received(1, hi)' = Received(1, hi)
        BY <1>4
      <4> QED BY <4>1, <4>2 DEF Received
    <3>3. walk.at \in 0..known' /\ walk.seen \in 0..known'
      BY <1>2, <3>1
    <3>4. Collected(walk.got)' = Collected(walk.got) /\ Rising(walk.got)' = Rising(walk.got)
      BY DEF Collected, Rising
    <3> QED BY <3>1, <3>2, <3>3, <3>4 DEF ForwardOK
  <2>2. CASE walk.dir # "forward"
    BY <2>2 DEF ForwardOK
  <2> QED BY <2>1, <2>2
<1>6. BackwardOK'
  <2>1. CASE walk.dir = "backward" /\ walk.seen # Foreign
    <3>1. /\ walk.way = "backward" /\ walk.seen \in 0..n /\ walk.at \in 0..walk.seen /\ walk.got \in Seq(Nat)
          /\ Collected(walk.got) = Received(walk.at + 1, walk.seen) /\ Falling(walk.got)
      BY <1>1, <2>1 DEF WalkOK, BackwardOK
    <3>2. Received(walk.at + 1, walk.seen)' = Received(walk.at + 1, walk.seen)
      <4>1. PICK a \in Nat, b \in 0..n : a = walk.at + 1 /\ b = walk.seen /\ a >= 1
        BY <3>1
      <4>2. Received(a, b)' = Received(a, b)
        BY <1>4, <4>1
      <4> QED BY <4>1, <4>2 DEF Received
    <3>3. walk.seen \in 0..Len(thread')
      BY <1>1, <3>1
    <3>4. Collected(walk.got)' = Collected(walk.got) /\ Falling(walk.got)' = Falling(walk.got)
      BY DEF Collected, Falling
    <3> QED BY <2>1, <3>1, <3>2, <3>3, <3>4 DEF BackwardOK
  <2>2. CASE walk.dir # "backward" \/ walk.seen = Foreign
    BY <2>2 DEF WalkOK, BackwardOK
  <2> QED BY <2>1, <2>2
<1>7. ReturnedOK'
  BY <1>1 DEF WalkOK, ReturnedOK
<1>8. HistoryIsWhole'
  <2>1. CASE walk.dir = "returned" /\ walk.rc = "ok" /\ walk.way = "backward" /\ walk.seen # Foreign
    <3>1. walk.seen # Foreign /\ ReceiptsUpTo(walk.seen, walk.got) /\ walk.seen \in 0..n
      BY <1>1, <2>1 DEF WalkOK, HistoryIsWhole, ReturnedOK
    <3>2. ReceiptsUpTo(walk.seen, walk.got)'
      <4>1. \A t \in 1..walk.seen : parse_receipt_hash(t)' = parse_receipt_hash(t)
        BY <1>3, <3>1
      <4> QED BY <3>1, <4>1 DEF ReceiptsUpTo
    <3> QED BY <2>1, <3>1, <3>2 DEF HistoryIsWhole
  <2>2. CASE walk.dir = "returned" /\ walk.rc = "ok" /\ walk.way # "backward"
    <3>1. PICK k \in 0..n : /\ ReceiptsUpTo(k, walk.got)
                            /\ k >= walk.seen \/ k = MAX_HOPS \/ (k < n /\ is_terminal_spend(k + 1))
      BY <1>1, <2>2 DEF WalkOK, HistoryIsWhole
    <3>2. ReceiptsUpTo(k, walk.got)'
      <4>1. \A t \in 1..k : parse_receipt_hash(t)' = parse_receipt_hash(t)
        BY <1>3
      <4> QED BY <3>1, <4>1 DEF ReceiptsUpTo
    <3>3. k < n /\ is_terminal_spend(k + 1) => k < m /\ is_terminal_spend(k + 1)'
      <4>1. ASSUME k < n PROVE is_terminal_spend(k + 1)' = is_terminal_spend(k + 1)
        BY <1>3, <4>1
      <4> QED BY <1>1, <4>1
    <3>4. k \in 0..Len(thread')
      BY <1>1
    <3> QED BY <1>1, <2>2, <3>1, <3>2, <3>3, <3>4 DEF HistoryIsWhole
  <2>3. CASE ~ (walk.dir = "returned" /\ walk.rc = "ok") \/ (walk.way = "backward" /\ walk.seen = Foreign)
    BY <2>3 DEF HistoryIsWhole
  <2> QED BY <2>1, <2>2, <2>3
<1>9. known' \in 0..Len(thread') /\ (walk' = NoWalk \/ walk' \in Walks)
  BY <1>1, <1>2 DEF WalkOK
<1> QED BY <1>5, <1>6, <1>7, <1>8, <1>9 DEF WalkOK

(* A walk returns.                                                          *)
LEMMA ReturnStep ==
  ASSUME WalkOK, walk \in Walks, UNCHANGED <<thread, known>>,
         NEW rc \in {"ok", "error", "hoplimit", "parse"}, NEW got \in Seq(Nat \cup {Foreign}), Return(rc, got),
         rc = "ok" /\ walk.way = "backward" /\ walk.seen # Foreign =>
           walk.seen \in 0..Len(thread) /\ ReceiptsUpTo(walk.seen, got),
         rc = "ok" /\ walk.way = "forward" =>
           \E n \in 0..Len(thread) :
             /\ ReceiptsUpTo(n, got)
             /\ n >= walk.seen \/ n = MAX_HOPS \/ (n < Len(thread) /\ is_terminal_spend(n + 1))
  PROVE  WalkOK'
PROOF
<1>1. /\ walk' \in Walks /\ walk'.dir = "returned" /\ walk'.rc = rc /\ walk'.got = got
      /\ walk'.way = walk.way /\ walk'.seen = walk.seen
  BY DEF Return, Walks
<1>2. ForwardOK' /\ BackwardOK'
  BY <1>1 DEF ForwardOK, BackwardOK
<1>3. ReturnedOK'
  BY <1>1 DEF ReturnedOK
<1>4. \A n : ReceiptsUpTo(n, got)' = ReceiptsUpTo(n, got) /\ is_terminal_spend(n + 1)' = is_terminal_spend(n + 1)
  BY DEF ReceiptsUpTo, parse_receipt_hash, is_terminal_spend
<1>5. HistoryIsWhole'
  <2>1. CASE rc # "ok"
    BY <1>1, <2>1 DEF HistoryIsWhole
  <2>2. CASE rc = "ok" /\ walk.way = "backward"
    <3>1. walk.seen # Foreign => ReceiptsUpTo(walk.seen, walk.got)'
      BY <1>1, <1>4, <2>2 DEF ReceiptsUpTo, parse_receipt_hash
    <3> QED BY <1>1, <2>2, <3>1 DEF HistoryIsWhole
  <2>3. CASE rc = "ok" /\ walk.way = "forward"
    <3>1. PICK n \in 0..Len(thread) :
             /\ ReceiptsUpTo(n, got)
             /\ n >= walk.seen \/ n = MAX_HOPS \/ (n < Len(thread) /\ is_terminal_spend(n + 1))
      BY <2>3
    <3>2. ReceiptsUpTo(n, walk.got)'
      BY <1>1, <1>4, <3>1 DEF ReceiptsUpTo, parse_receipt_hash
    <3>3. (n >= walk.seen \/ n = MAX_HOPS \/ (n < Len(thread) /\ is_terminal_spend(n + 1)))'
      BY <1>1, <1>4, <3>1
    <3>4. n \in 0..Len(thread')
      OBVIOUS
    <3> QED BY <1>1, <2>3, <3>2, <3>3, <3>4 DEF HistoryIsWhole
  <2>4. walk.way \in {"forward", "backward"}
    BY DEF Walks
  <2> QED BY <2>1, <2>2, <2>3, <2>4
<1> QED BY <1>1, <1>2, <1>3, <1>5 DEF WalkOK

(* An error throws away what was collected.                                 *)
LEMMA ErrorStep ==
  ASSUME WalkOK, walk \in Walks, UNCHANGED <<thread, known>>, NEW rc \in {"error", "hoplimit", "parse"}, Return(rc, <<>>)
  PROVE  WalkOK'
PROOF
<1>1. PICK got \in Seq(Nat \cup {Foreign}) : got = <<>>
  <2>1. <<>> \in Seq(Nat \cup {Foreign})
    OBVIOUS
  <2> QED BY <2>1, Zenon
<1>2. Return(rc, got) /\ rc \in {"ok", "error", "hoplimit", "parse"} /\ rc # "ok"
  BY <1>1
<1> QED BY <1>2, ReturnStep

(* A walk begins.                                                           *)
LEMMA BeginStep == ASSUME WalkOK, Len(thread) \in Nat, BeginForward \/ BeginBackward PROVE WalkOK'
PROOF
<1>1. UNCHANGED <<thread, known>> /\ known \in 0..Len(thread)
  BY DEF BeginForward, BeginBackward, WalkOK
<1>2. Collected(<<>>) = {} /\ Rising(<<>>) /\ Falling(<<>>) /\ <<>> \in Seq(Nat) /\ <<>> \in Seq(Nat \cup {Foreign})
  BY DEF Collected, Rising, Falling
<1>3. Received(1, 0)' = {} /\ \A n \in Nat : Received(n + 1, n)' = {}
  BY DEF Received
<1>4. CASE BeginForward
  <2>1. walk' = [dir |-> "forward", way |-> "forward", at |-> 0, hops |-> 0, got |-> <<>>, rc |-> "none", seen |-> known]
    BY <1>4 DEF BeginForward
  <2>2. /\ walk'.dir = "forward" /\ walk'.way = "forward" /\ walk'.at = 0 /\ walk'.hops = 0 /\ walk'.got = <<>>
        /\ walk'.seen = known
    BY <2>1
  <2>3. walk' \in Walks
    BY <1>1, <1>2, <2>1 DEF Walks
  <2>4. ForwardOK'
    <3>1. Received(1, walk.at)' = {}
      BY <2>2 DEF Received
    <3>2. (Collected(walk.got) = {} /\ Rising(walk.got) /\ walk.got \in Seq(Nat))'
      BY <1>2, <2>2 DEF Collected, Rising
    <3>3. 0 \in 0..known' /\ known \in 0..known' /\ 0 <= MAX_HOPS
      BY <1>1, ThreadConstants
    <3> QED BY <2>2, <3>1, <3>2, <3>3 DEF ForwardOK
  <2>5. BackwardOK' /\ ReturnedOK' /\ HistoryIsWhole'
    BY <2>2 DEF BackwardOK, ReturnedOK, HistoryIsWhole
  <2> QED BY <1>1, <2>3, <2>4, <2>5 DEF WalkOK
<1>5. CASE BeginBackward
  <2>1. PICK tip \in 0..Len(thread) \cup {Foreign} :
          walk' = [dir |-> "backward", way |-> "backward", at |-> tip, hops |-> 0, got |-> <<>>, rc |-> "none", seen |-> tip]
    BY <1>5 DEF BeginBackward
  <2>2. /\ walk'.dir = "backward" /\ walk'.way = "backward" /\ walk'.at = tip /\ walk'.got = <<>> /\ walk'.seen = tip
    BY <2>1
  <2>3. walk' \in Walks
    BY <1>1, <1>2, <2>1 DEF Walks
  <2>4. BackwardOK'
    <3>1. CASE tip = Foreign
      BY <2>2, <3>1 DEF BackwardOK
    <3>2. CASE tip # Foreign
      <4>1. tip \in 0..Len(thread') /\ tip \in 0..tip /\ tip \in Nat
        BY <1>1, <2>1, <3>2
      <4>2. Received(walk.at + 1, walk.seen)' = {}
        BY <2>2, <4>1 DEF Received
      <4>3. (Collected(walk.got) = {} /\ Falling(walk.got) /\ walk.got \in Seq(Nat))'
        BY <1>2, <2>2 DEF Collected, Falling
      <4> QED BY <2>2, <3>2, <4>1, <4>2, <4>3 DEF BackwardOK
    <3> QED BY <3>1, <3>2
  <2>5. ForwardOK' /\ ReturnedOK' /\ HistoryIsWhole'
    BY <2>2 DEF ForwardOK, ReturnedOK, HistoryIsWhole
  <2> QED BY <1>1, <2>3, <2>4, <2>5 DEF WalkOK
<1> QED BY <1>4, <1>5

(* One hop towards the tip.                                                 *)
LEMMA ForwardStep == ASSUME WalkOK, Len(thread) \in Nat, ForwardHop PROVE WalkOK'
PROOF
<1>1. /\ walk.dir = "forward" /\ UNCHANGED <<thread, known>> /\ known \in Nat /\ known <= Len(thread)
  BY DEF ForwardHop, WalkOK
<1>2. walk \in Walks
  BY <1>1, NoWalkIs DEF WalkOK
<1>3. /\ walk.way = "forward" /\ walk.at \in 0..known /\ walk.hops = walk.at /\ walk.at <= MAX_HOPS
      /\ walk.seen \in 0..known /\ walk.got \in Seq(Nat)
      /\ Collected(walk.got) = Received(1, walk.at) /\ Rising(walk.got)
  BY <1>1 DEF WalkOK, ForwardOK
<1>4. PICK a \in Nat, got \in Seq(Nat) : a = walk.at /\ a <= known /\ got = walk.got
  BY <1>1, <1>3
<1>5. CASE a >= MAX_HOPS \/ a + 1 > known \/ is_terminal_spend(a + 1)
  <2>1. Return("ok", got)
    BY <1>3, <1>4, <1>5 DEF ForwardHop
  <2>2. ReceiptsUpTo(a, got)
    BY <1>3, <1>4, UpTo
  <2>3. a >= walk.seen \/ a = MAX_HOPS \/ (a < Len(thread) /\ is_terminal_spend(a + 1))
    BY <1>1, <1>3, <1>4, <1>5, ThreadConstants
  <2>4. a \in 0..Len(thread) /\ got \in Seq(Nat \cup {Foreign})
    BY <1>1, <1>4
  <2> QED BY <1>1, <1>2, <1>3, <2>1, <2>2, <2>3, <2>4, ReturnStep
<1>6. CASE ~ (a >= MAX_HOPS \/ a + 1 > known \/ is_terminal_spend(a + 1))
  <2>1. PICK more \in Seq(Nat) : more = IF parse_receipt_hash(a + 1) THEN Append(got, a + 1) ELSE got
    <3>1. Append(got, a + 1) \in Seq(Nat)
      BY Collecting
    <3> QED BY <3>1
  <2>2. walk' = [walk EXCEPT !.at = a + 1, !.hops = a + 1, !.got = more]
    BY <1>3, <1>4, <1>6, <2>1 DEF ForwardHop
  <2>3. more \in Seq(Nat \cup {Foreign}) /\ a + 1 \in Nat
    OBVIOUS
  <2>4. /\ walk' \in Walks /\ walk'.dir = "forward" /\ walk'.way = "forward" /\ walk'.at = a + 1
        /\ walk'.hops = a + 1 /\ walk'.got = more /\ walk'.seen = walk.seen
    BY <1>1, <1>2, <1>3, <2>2, <2>3 DEF Walks
  <2>5. Collected(more) = Received(1, a + 1) /\ Rising(more)
    <3>1. \A y \in Collected(got) : y < a + 1
      BY <1>3, <1>4 DEF Received
    <3>2. Received(1, a + 1) = Received(1, a) \cup (IF parse_receipt_hash(a + 1) THEN {a + 1} ELSE {})
      BY DEF Received
    <3>3. CASE parse_receipt_hash(a + 1)
      <4>1. more = Append(got, a + 1) /\ Rising(got) /\ Collected(got) = Received(1, a) /\ a + 1 \in Nat
        BY <1>3, <1>4, <2>1, <3>3
      <4>2. Rising(Append(got, a + 1)) /\ Collected(Append(got, a + 1)) = Collected(got) \cup {a + 1}
        BY <3>1, <4>1, Collecting
      <4> QED BY <3>2, <3>3, <4>1, <4>2
    <3>4. CASE ~ parse_receipt_hash(a + 1)
      BY <1>3, <1>4, <2>1, <3>2, <3>4
    <3> QED BY <3>3, <3>4
  <2>6. ForwardOK'
    <3>1. Received(1, walk.at)' = Received(1, a + 1)
      BY <1>1, <2>4 DEF Received, parse_receipt_hash
    <3>2. (Collected(walk.got) = Received(1, walk.at) /\ Rising(walk.got))'
      BY <2>4, <2>5, <3>1 DEF Collected, Rising
    <3>3. a + 1 \in 0..known' /\ a + 1 <= MAX_HOPS /\ walk.seen \in 0..known'
      BY <1>1, <1>3, <1>6, ThreadConstants
    <3> QED BY <2>4, <3>2, <3>3 DEF ForwardOK
  <2>7. BackwardOK' /\ ReturnedOK' /\ HistoryIsWhole'
    BY <2>4 DEF BackwardOK, ReturnedOK, HistoryIsWhole
  <2> QED BY <1>1, <2>4, <2>6, <2>7 DEF WalkOK
<1> QED BY <1>5, <1>6

(* A hop from a foreign transaction.                                        *)
LEMMA ForeignStep ==
  ASSUME WalkOK, walk \in Walks, UNCHANGED <<thread, known>>, Len(thread) \in Nat,
         walk.dir = "backward", walk.seen = Foreign, ForeignHop
  PROVE  WalkOK'
PROOF
<1>1. CASE Return("parse", <<>>)
  BY <1>1, ErrorStep
<1>2. CASE \E prev \in 0..Len(thread) \cup {Foreign}, receipt \in BOOLEAN :
             walk' = [walk EXCEPT !.at = prev, !.hops = @ + 1, !.got = IF receipt THEN Append(@, Foreign) ELSE @]
  <2>1. PICK prev \in 0..Len(thread) \cup {Foreign}, receipt \in BOOLEAN :
             walk' = [walk EXCEPT !.at = prev, !.hops = @ + 1, !.got = IF receipt THEN Append(@, Foreign) ELSE @]
    BY <1>2, Zenon
  <2>2. walk.got \in Seq(Nat \cup {Foreign}) /\ walk.hops \in Nat /\ walk.way = "backward"
    BY DEF Walks, WalkOK, BackwardOK
  <2>3. PICK h \in Nat, more \in Seq(Nat \cup {Foreign}) :
          h = walk.hops + 1 /\ more = IF receipt THEN Append(walk.got, Foreign) ELSE walk.got
    <3>1. walk.hops + 1 \in Nat /\ Append(walk.got, Foreign) \in Seq(Nat \cup {Foreign})
      BY <2>2
    <3>2. CASE receipt
      BY <3>1, <3>2
    <3>3. CASE ~ receipt
      BY <2>2, <3>1, <3>3
    <3> QED BY <3>2, <3>3
  <2>4. walk' = [walk EXCEPT !.at = prev, !.hops = h, !.got = more]
    BY <2>1, <2>3
  <2>5. prev \in Nat \cup {Foreign}
    OBVIOUS
  <2>6. walk' \in Walks /\ walk'.dir = "backward" /\ walk'.way = "backward" /\ walk'.seen = Foreign
    BY <2>2, <2>3, <2>4, <2>5 DEF Walks
  <2>7. ForwardOK' /\ BackwardOK' /\ ReturnedOK' /\ HistoryIsWhole'
    BY <2>6 DEF ForwardOK, BackwardOK, ReturnedOK, HistoryIsWhole
  <2>8. known' \in 0..Len(thread')
    BY DEF WalkOK
  <2> QED BY <2>6, <2>7, <2>8 DEF WalkOK
<1> QED BY <1>1, <1>2, Zenon DEF ForeignHop

(* One hop towards the genesis.                                             *)
LEMMA BackwardStep == ASSUME WalkOK, Len(thread) \in Nat, BackwardHop PROVE WalkOK'
PROOF
<1>1. /\ walk.dir = "backward" /\ UNCHANGED <<thread, known>> /\ known \in Nat /\ known <= Len(thread)
  BY DEF BackwardHop, WalkOK
<1>2. walk \in Walks /\ walk.hops \in Nat /\ walk.got \in Seq(Nat \cup {Foreign}) /\ walk.way = "backward"
  BY <1>1, NoWalkIs DEF WalkOK, Walks, BackwardOK
<1>3. CASE walk.at = 0 /\ walk.seen # Foreign
  <2>1. walk.seen # Foreign
    BY <1>3
  <2>2. /\ walk.seen \in 0..Len(thread) /\ walk.got \in Seq(Nat)
        /\ Collected(walk.got) = Received(1, walk.seen) /\ Falling(walk.got)
    <3>1. 0 + 1 = 1
      OBVIOUS
    <3> QED BY <1>1, <1>3, <2>1, <3>1 DEF WalkOK, BackwardOK
  <2>3. PICK q : q = [i \in 1..Len(walk.got) |-> walk.got[Len(walk.got) + 1 - i]]
    OBVIOUS
  <2>4. Return("ok", q)
    BY <1>3, <2>3 DEF BackwardHop
  <2>5. q \in Seq(Nat) /\ Collected(q) = Collected(walk.got) /\ Rising(q)
    BY <2>2, <2>3, TurnedAround
  <2>6. ReceiptsUpTo(walk.seen, q) /\ q \in Seq(Nat \cup {Foreign})
    BY <2>2, <2>5, UpTo
  <2> QED BY <1>1, <1>2, <2>1, <2>2, <2>4, <2>6, ReturnStep
<1>8. CASE walk.at = 0 /\ walk.seen = Foreign
  <2>1. PICK n \in Nat : n = Len(walk.got)
    BY <1>2
  <2>2. PICK q : q = [i \in 1..n |-> walk.got[n + 1 - i]]
    OBVIOUS
  <2>3. q \in Seq(Nat \cup {Foreign})
    <3>1. \A i \in 1..n : walk.got[n + 1 - i] \in Nat \cup {Foreign}
      BY <1>2, <2>1
    <3>2. q \in [1..n -> Nat \cup {Foreign}]
      BY <2>2, <3>1
    <3> QED BY <3>2
  <2>4. Return("ok", q)
    BY <1>8, <2>1, <2>2 DEF BackwardHop
  <2> QED BY <1>1, <1>2, <1>8, <2>3, <2>4, ReturnStep
<1>4. CASE walk.at # 0 /\ walk.hops >= max_hops
  <2>1. Return("hoplimit", <<>>)
    BY <1>4 DEF BackwardHop
  <2> QED BY <1>1, <1>2, <2>1, ErrorStep
<1>5. CASE walk.at # 0 /\ ~ (walk.hops >= max_hops) /\ walk.at = Foreign
  <2>1. walk.seen = Foreign
    <3>1. walk.seen # Foreign => walk.at \in 0..walk.seen /\ walk.seen \in 0..Len(thread)
      BY <1>1 DEF WalkOK, BackwardOK
    <3> QED BY <1>5, <3>1, ThreadConstants
  <2>2. ForeignHop
    BY <1>5 DEF BackwardHop
  <2> QED BY <1>1, <1>2, <2>1, <2>2, ForeignStep
<1>6. CASE walk.at # 0 /\ ~ (walk.hops >= max_hops) /\ walk.at # Foreign /\ is_terminal_spend(walk.at)
  <2>1. Return("parse", <<>>)
    BY <1>6 DEF BackwardHop
  <2> QED BY <1>1, <1>2, <2>1, ErrorStep
<1>7. CASE walk.at # 0 /\ ~ (walk.hops >= max_hops) /\ walk.at # Foreign /\ ~ is_terminal_spend(walk.at)
            /\ walk.seen # Foreign
  <2>1. walk.seen # Foreign
    BY <1>7
  <2>2. /\ walk.seen \in 0..Len(thread) /\ walk.at \in 0..walk.seen /\ walk.got \in Seq(Nat)
        /\ Collected(walk.got) = Received(walk.at + 1, walk.seen) /\ Falling(walk.got)
    BY <1>1, <2>1 DEF WalkOK, BackwardOK
  <2>3. PICK a \in Nat, e \in Nat, got \in Seq(Nat) :
          a = walk.at /\ e = walk.seen /\ got = walk.got /\ a >= 1 /\ a <= e /\ e <= Len(thread)
    BY <1>7, <2>2
  <2>4. PICK more \in Seq(Nat) : more = IF parse_receipt_hash(a) THEN Append(got, a) ELSE got
    <3>1. Append(got, a) \in Seq(Nat)
      BY Collecting
    <3> QED BY <3>1
  <2>5. PICK b \in Nat, h \in Nat : b = a - 1 /\ h = walk.hops + 1 /\ walk' = [walk EXCEPT !.at = b, !.hops = h, !.got = more]
    <3>1. a - 1 \in Nat /\ walk.hops + 1 \in Nat
      BY <1>2, <2>3
    <3>2. walk' = [walk EXCEPT !.at = a - 1, !.hops = walk.hops + 1, !.got = more]
      BY <1>7, <2>3, <2>4 DEF BackwardHop
    <3> QED BY <3>1, <3>2, Zenon
  <2>6. more \in Seq(Nat \cup {Foreign})
    OBVIOUS
  <2>7. /\ walk' \in Walks /\ walk'.dir = "backward" /\ walk'.way = "backward" /\ walk'.at = a - 1
        /\ walk'.got = more /\ walk'.seen = e
    BY <1>1, <1>2, <2>3, <2>5, <2>6 DEF Walks
  <2>8. Collected(more) = Received(a, e) /\ Falling(more)
    <3>1. \A y \in Collected(got) : y > a
      BY <2>2, <2>3 DEF Received
    <3>2. Received(a, e) = Received(a + 1, e) \cup (IF parse_receipt_hash(a) THEN {a} ELSE {})
      BY <2>3 DEF Received
    <3>3. CASE parse_receipt_hash(a)
      BY <2>2, <2>3, <2>4, <3>1, <3>2, <3>3, Collecting
    <3>4. CASE ~ parse_receipt_hash(a)
      BY <2>2, <2>3, <2>4, <3>2, <3>4
    <3> QED BY <3>3, <3>4
  <2>9. BackwardOK'
    <3>1. Received(walk.at + 1, walk.seen)' = Received(a, e)
      <4>1. walk'.at + 1 = a
        BY <2>3, <2>7
      <4> QED BY <1>1, <2>7, <4>1 DEF Received, parse_receipt_hash
    <3>2. (Collected(walk.got) = Received(walk.at + 1, walk.seen) /\ Falling(walk.got))'
      BY <2>7, <2>8, <3>1 DEF Collected, Falling
    <3>3. e \in 0..Len(thread') /\ a - 1 \in 0..e /\ e # Foreign
      BY <1>1, <2>1, <2>3
    <3> QED BY <2>7, <3>2, <3>3 DEF BackwardOK
  <2>10. ForwardOK' /\ ReturnedOK' /\ HistoryIsWhole'
    BY <2>7 DEF ForwardOK, ReturnedOK, HistoryIsWhole
  <2> QED BY <1>1, <2>7, <2>9, <2>10 DEF WalkOK
<1>9. CASE walk.at # 0 /\ ~ (walk.hops >= max_hops) /\ walk.at # Foreign /\ ~ is_terminal_spend(walk.at)
            /\ walk.seen = Foreign
  <2>1. PICK a \in Nat : a = walk.at /\ a >= 1
    BY <1>2, <1>9 DEF Walks
  <2>2. PICK more \in Seq(Nat \cup {Foreign}) : more = IF parse_receipt_hash(a) THEN Append(walk.got, a) ELSE walk.got
    <3>1. Append(walk.got, a) \in Seq(Nat \cup {Foreign})
      BY <1>2
    <3> QED BY <1>2, <3>1
  <2>3. PICK b \in Nat, h \in Nat : b = a - 1 /\ h = walk.hops + 1 /\ walk' = [walk EXCEPT !.at = b, !.hops = h, !.got = more]
    <3>1. a - 1 \in Nat /\ walk.hops + 1 \in Nat
      BY <1>2, <2>1
    <3>2. walk' = [walk EXCEPT !.at = a - 1, !.hops = walk.hops + 1, !.got = more]
      BY <1>9, <2>1, <2>2 DEF BackwardHop
    <3> QED BY <3>1, <3>2, Zenon
  <2>4. walk' \in Walks /\ walk'.dir = "backward" /\ walk'.way = "backward" /\ walk'.seen = walk.seen
    BY <1>1, <1>2, <2>3 DEF Walks
  <2>5. ForwardOK' /\ BackwardOK' /\ ReturnedOK' /\ HistoryIsWhole'
    BY <1>9, <2>4 DEF ForwardOK, BackwardOK, ReturnedOK, HistoryIsWhole
  <2> QED BY <1>1, <2>4, <2>5 DEF WalkOK
<1> QED BY <1>3, <1>4, <1>5, <1>6, <1>7, <1>8, <1>9

(* Every step keeps the walk's bookkeeping.                                 *)
LEMMA WalkStep == ASSUME ThreadTypeOK, ThreadTypeOK', WalkOK, [ThreadNext]_threadVars PROVE WalkOK'
PROOF
<1>1. thread \in Seq(TeaSpends) /\ thread' \in Seq(TeaSpends) /\ Len(thread) \in Nat
  BY DEF ThreadTypeOK
<1>2. CASE Execute \/ Checkpoint \/ Slash \/ Revoke \/ UNCHANGED threadVars
  <2>1. UNCHANGED <<known, walk>>
    BY <1>2 DEF Execute, Checkpoint, Slash, Revoke, SpendTea, threadVars
  <2>2. Len(thread) <= Len(thread') /\ \A i \in 1..Len(thread) : thread'[i] = thread[i]
    <3>1. UNCHANGED <<thread, tea>> \/ \E b \in TeaSpends : TeaSpent(b)
      BY TeaSteps
    <3>2. CASE \E b \in TeaSpends : TeaSpent(b)
      <4>1. PICK b \in TeaSpends : thread' = Append(thread, b)
        BY <3>2 DEF TeaSpent
      <4> QED BY <1>1, <4>1
    <3> QED BY <1>1, <3>1, <3>2
  <2>3. known' <= Len(thread') /\ known' \in {known, known + 1}
    BY <1>1, <2>1, <2>2 DEF WalkOK
  <2> QED BY <1>1, <2>1, <2>2, <2>3, GrowStep
<1>3. CASE IndexSpend
  BY <1>1, <1>3, GrowStep DEF IndexSpend, WalkOK
<1>4. CASE BeginForward \/ BeginBackward
  BY <1>1, <1>4, BeginStep
<1>5. CASE ForwardHop
  BY <1>1, <1>5, ForwardStep
<1>6. CASE BackwardHop
  BY <1>1, <1>6, BackwardStep
<1>7. CASE WalkFails
  <2>1. walk \in Walks /\ UNCHANGED <<thread, known>> /\ Return("error", <<>>)
    BY <1>7, NoWalkIs DEF WalkFails, WalkOK
  <2> QED BY <2>1, ErrorStep
<1>8. CASE WalkEnds
  <2>1. walk' = NoWalk /\ walk'.dir = "none" /\ UNCHANGED <<thread, known>>
    BY <1>8, NoWalkIs DEF WalkEnds
  <2>2. ForwardOK' /\ BackwardOK' /\ ReturnedOK' /\ HistoryIsWhole'
    BY <2>1 DEF ForwardOK, BackwardOK, ReturnedOK, HistoryIsWhole
  <2> QED BY <2>1, <2>2 DEF WalkOK
<1> QED BY <1>2, <1>3, <1>4, <1>5, <1>6, <1>7, <1>8 DEF ThreadNext

(* A history the indexer returns is whole, forward from the genesis or      *)
(* backward from a tip, however the identity was spent during the walk.     *)
THEOREM ServicesHistoryIsWhole == ThreadSpec => []HistoryIsWhole
PROOF
<1> DEFINE IInv == ThreadTypeOK /\ ReceiptsNumbered /\ WalkOK
<1>1. ThreadInit => IInv
  <2> SUFFICES ASSUME ThreadInit PROVE IInv
    OBVIOUS
  <2>1. ThreadTypeOK /\ ReceiptsNumbered
    BY DEF ThreadInit, ThreadTypeOK, ReceiptsNumbered, TeaStates, tea_genesis_state
  <2>2. known = 0 /\ Len(thread) = 0 /\ walk = NoWalk /\ walk.dir = "none"
    BY NoWalkIs DEF ThreadInit
  <2>3. ForwardOK /\ BackwardOK /\ ReturnedOK /\ HistoryIsWhole
    BY <2>2 DEF ForwardOK, BackwardOK, ReturnedOK, HistoryIsWhole
  <2> QED BY <2>1, <2>2, <2>3 DEF WalkOK
<1>2. IInv /\ [ThreadNext]_threadVars => IInv'
  BY NumbersStep, WalkStep
<1>3. IInv => HistoryIsWhole
  BY DEF WalkOK
<1> HIDE DEF IInv
<1> QED BY <1>1, <1>2, <1>3, PTL DEF ThreadSpec

-----------------------------------------------------------------------------
(* The vault: a key is minted once, stands for one identity, and is in the  *)
(* vault or erased when a record is sealed under it.                        *)
VaultOK ==
  /\ minted \in Nat /\ vault \in [Identities -> 0..minted]
  /\ \A i, j \in Identities : vault[i] = vault[j] /\ vault[i] # 0 => i = j
  /\ erased \subseteq 1..minted /\ \A i \in Identities : vault[i] \notin erased
Sealed(id, k, p) == seal(id, k, p) \in records /\ k \in 1..minted /\ (k \in erased \/ vault[id] = k)
RecordsOK ==
  \A r \in records : \E id \in Identities, k \in 1..minted, p \in Payloads :
    r = seal(id, k, p) /\ (k \in erased \/ vault[id] = k)

Acts == [n : Nat, id : Identities, payload : Payloads, cost : Nat, at : Nat,
         hash : {action_commitment(k, p) : k \in Nat, p \in Payloads}, kept : BOOLEAN, ran : BOOLEAN]
ActsOK ==
  /\ clock \in Nat /\ IsFiniteSet(acts)
  /\ \A a \in acts : a \in Acts /\ a.hash = action_commitment(a.hash[2], a.payload)
                     /\ (a.kept => a.ran /\ seal(a.id, a.hash[2], a.payload) \in records)
  /\ \A r \in records : \E a \in acts : a.kept /\ r = seal(a.id, a.hash[2], a.payload)
SandboxOK == VaultOK /\ RecordsOK /\ ActsOK

(* A seal's record, field by field.                                         *)
LEMMA SealForm ==
  ASSUME NEW id, NEW k, NEW p
  PROVE  /\ seal(id, k, p).identity_id = id /\ seal(id, k, p).ct[1] = k /\ seal(id, k, p).ct[2] = id
         /\ \A i : [seal(id, k, p) EXCEPT !.identity_id = i].identity_id = i
                   /\ [seal(id, k, p) EXCEPT !.identity_id = i].ct = seal(id, k, p).ct
  BY DEF seal

(* A commitment names its key.                                              *)
LEMMA CommitmentForm ==
  ASSUME NEW k, NEW p PROVE action_commitment(k, p)[2] = k
  BY DEF action_commitment

(* The key that a seal uses, made for the occasion or found.                *)
LEMMA MintKeeps ==
  ASSUME VaultOK, NEW id \in Identities, NEW key, key = ensure_key(id), Minted(id, key), erased' = erased
  PROVE  /\ VaultOK' /\ key \in 1..minted' /\ vault'[id] = key /\ minted <= minted'
         /\ \A i \in Identities : vault[i] # 0 => vault'[i] = vault[i]
  <1>1. minted \in Nat /\ vault[id] \in 0..minted /\ vault' = [vault EXCEPT ![id] = key]
        /\ minted' = IF key > minted THEN key ELSE minted
    BY DEF VaultOK, Minted
  <1>2. \A i \in Identities : vault'[i] = IF i = id THEN key ELSE vault[i]
    BY <1>1 DEF VaultOK
  <1>3. CASE vault[id] # 0
    <2>1. key = vault[id] /\ key \in 1..minted /\ minted' = minted
      BY <1>1, <1>3 DEF ensure_key
    <2>2. vault' = vault
      BY <1>1, <2>1 DEF VaultOK
    <2> QED
      BY <1>1, <1>3, <2>1, <2>2 DEF VaultOK
  <1>4. CASE vault[id] = 0
    <2>1. key = minted + 1 /\ minted' = minted + 1
      BY <1>1, <1>4 DEF ensure_key
    <2>2. \A i \in Identities : vault[i] \in 0..minted /\ vault[i] # key /\ vault'[i] \in 0..minted'
      BY <1>1, <1>2, <2>1 DEF VaultOK
    <2>3. vault' \in [Identities -> 0..minted']
      BY <1>1, <2>1, <2>2 DEF VaultOK
    <2>4. \A i, j \in Identities : vault'[i] = vault'[j] /\ vault'[i] # 0 => i = j
      BY <1>2, <2>2 DEF VaultOK
    <2>5. erased' \subseteq 1..minted' /\ key \notin erased
      BY <1>1, <2>1 DEF VaultOK
    <2>6. \A i \in Identities : vault'[i] \notin erased'
      BY <1>2, <2>5 DEF VaultOK
    <2> QED
      BY <1>1, <1>2, <1>4, <2>1, <2>3, <2>4, <2>5, <2>6 DEF VaultOK
  <1> QED
    BY <1>3, <1>4

(* What an action leaves behind, in either of its two outcomes.             *)
Acted(a, key) ==
  /\ a \in Acts /\ a.n = Cardinality(acts) + 1 /\ a.at = clock
  /\ charge_allowed(meter, a.cost, clock) /\ meter' = charge_commit(meter, a.cost, clock)
  /\ a.hash = action_commitment(key, a.payload) /\ acts' = acts \cup {a}
  /\ UNCHANGED <<clock, erased>>
  /\ \/ a.kept /\ a.ran /\ Minted(a.id, key) /\ key = ensure_key(a.id)
          /\ records' = records \cup {seal(a.id, key, a.payload)}
     \/ ~ a.kept /\ records' = records
          /\ \/ Minted(a.id, key) /\ key = ensure_key(a.id)
             \/ UNCHANGED <<vault, minted>>

(* An action that passes appends one entry and leaves the old ones alone.   *)
LEMMA ActShape ==
  ASSUME SandboxOK, Act
  PROVE  UNCHANGED sandboxVars \/ \E a, key : Acted(a, key)
  <1> SUFFICES ASSUME NEW id \in Identities, NEW payload \in Payloads, NEW cost \in Costs,
                      ActUnsealed(id, payload, cost) \/ ActEffect(id, payload, cost)
               PROVE  \E a, key : Acted(a, key)
    BY DEF Act, ActDenied
  <1>1. PICK key : key = ensure_key(id)
    OBVIOUS
  <1>2. key \in Nat /\ clock \in Nat
    BY <1>1 DEF ensure_key, SandboxOK, VaultOK, ActsOK
  <1>3. Authorized(cost) /\ Charged(cost) /\ UNCHANGED <<clock, erased>>
    BY DEF ActUnsealed, ActEffect
  <1>4. cost \in Nat
    BY <1>3, SandboxConstants DEF Authorized, charge_allowed
  <1>5. Cardinality(acts) + 1 \in Nat
    BY FS_CardinalityType DEF SandboxOK, ActsOK
  <1>6. ASSUME NEW kept \in BOOLEAN, NEW ran \in BOOLEAN, NEW a, a = Did(id, payload, cost, key, kept, ran)
        PROVE  /\ a \in Acts /\ a.n = Cardinality(acts) + 1 /\ a.at = clock /\ a.cost = cost
               /\ a.id = id /\ a.payload = payload /\ a.kept = kept /\ a.ran = ran
               /\ a.hash = action_commitment(key, payload)
    BY <1>2, <1>4, <1>5, <1>6 DEF Did, Acts
  <1>7. CASE ActUnsealed(id, payload, cost)
    <2>1. PICK a : a = Did(id, payload, cost, key, FALSE, FALSE)
      OBVIOUS
    <2>2. /\ acts' = acts \cup {a} /\ records' = records
          /\ Minted(id, key) \/ UNCHANGED <<vault, minted>>
      BY <1>1, <1>7, <2>1, Zenon DEF ActUnsealed
    <2>3. Acted(a, key)
      BY <1>1, <1>3, <1>6, <2>1, <2>2 DEF Acted, Authorized, Charged
    <2> QED
      BY <2>3
  <1>8. CASE ActEffect(id, payload, cost)
    <2>1. PICK kept \in BOOLEAN :
            /\ records' = IF kept THEN records \cup {seal(id, key, payload)} ELSE records
            /\ \E ran \in {TRUE, kept} : acts' = acts \cup {Did(id, payload, cost, key, kept, ran)}
      BY <1>1, <1>8, Zenon DEF ActEffect
    <2>2. PICK ran \in {TRUE, kept} : acts' = acts \cup {Did(id, payload, cost, key, kept, ran)}
      BY <2>1
    <2>3. ran \in BOOLEAN /\ (kept => ran)
      OBVIOUS
    <2>4. PICK a : a = Did(id, payload, cost, key, kept, ran)
      OBVIOUS
    <2>5. Minted(id, key) /\ acts' = acts \cup {a}
      BY <1>1, <1>8, <2>2, <2>4, Zenon DEF ActEffect
    <2>6. Acted(a, key)
      BY <1>1, <1>3, <1>6, <2>1, <2>3, <2>4, <2>5 DEF Acted, Authorized, Charged
    <2> QED
      BY <2>6
  <1> QED
    BY <1>7, <1>8

(* An action keeps vault, records and history in step.                      *)
LEMMA ActKeeps ==
  ASSUME SandboxOK, NEW a, NEW key, Acted(a, key)
  PROVE  SandboxOK'
  <1>0. VaultOK /\ RecordsOK /\ ActsOK /\ a \in Acts /\ a.id \in Identities /\ a.payload \in Payloads
    BY DEF SandboxOK, Acted, Acts
  <1>1. /\ VaultOK' /\ minted \in Nat /\ minted' \in Nat /\ minted <= minted'
        /\ \A i \in Identities : vault[i] # 0 => vault'[i] = vault[i]
        /\ a.kept => key \in 1..minted' /\ vault'[a.id] = key
    <2>1. CASE Minted(a.id, key) /\ key = ensure_key(a.id)
      BY <1>0, <2>1, MintKeeps DEF Acted, VaultOK
    <2>2. CASE UNCHANGED <<vault, minted>> /\ ~ a.kept
      BY <1>0, <2>2 DEF Acted, VaultOK
    <2> QED
      BY <2>1, <2>2 DEF Acted
  <1>2. ASSUME NEW r \in records
        PROVE  \E id \in Identities, k \in 1..minted', p \in Payloads :
                 r = seal(id, k, p) /\ (k \in erased' \/ vault'[id] = k)
    <2>1. PICK id \in Identities, k \in 1..minted, p \in Payloads :
            r = seal(id, k, p) /\ (k \in erased \/ vault[id] = k)
      BY <1>0 DEF RecordsOK
    <2>2. k \in 1..minted' /\ (k \in erased' \/ vault'[id] = k)
      BY <1>1, <2>1 DEF Acted
    <2> QED
      BY <2>1, <2>2
  <1>3. RecordsOK'
    <2>1. CASE a.kept /\ records' = records \cup {seal(a.id, key, a.payload)}
      <3>1. key \in 1..minted' /\ vault'[a.id] = key
        BY <1>1, <2>1
      <3>2. \A r \in records' : \E id \in Identities, k \in 1..minted', p \in Payloads :
              r = seal(id, k, p) /\ (k \in erased' \/ vault'[id] = k)
        BY <1>0, <1>2, <2>1, <3>1
      <3> QED
        BY <3>2 DEF RecordsOK, seal
    <2>2. CASE records' = records
      BY <1>2, <2>2 DEF RecordsOK, seal
    <2> QED
      BY <2>1, <2>2 DEF Acted
  <1>4. a.hash = action_commitment(key, a.payload) /\ a.hash[2] = key
        /\ (a.kept => a.ran /\ seal(a.id, a.hash[2], a.payload) \in records')
        /\ records \subseteq records' /\ acts' = acts \cup {a} /\ clock' = clock
    BY CommitmentForm DEF Acted
  <1>5. \A b \in acts' : b \in Acts /\ b.hash = action_commitment(b.hash[2], b.payload)
                         /\ (b.kept => b.ran /\ seal(b.id, b.hash[2], b.payload) \in records')
    BY <1>0, <1>4 DEF ActsOK
  <1>6. \A r \in records' : \E b \in acts' : b.kept /\ r = seal(b.id, b.hash[2], b.payload)
    <2>1. \A r \in records : \E b \in acts : b.kept /\ r = seal(b.id, b.hash[2], b.payload)
      BY <1>0 DEF ActsOK
    <2>2. records' = records \/ (a.kept /\ records' = records \cup {seal(a.id, a.hash[2], a.payload)})
      BY <1>4 DEF Acted
    <2> QED
      BY <1>4, <2>1, <2>2
  <1>7. IsFiniteSet(acts') /\ clock' \in Nat
    BY <1>0, <1>4, FS_AddElement DEF ActsOK
  <1>8. ActsOK'
    BY <1>5, <1>6, <1>7 DEF ActsOK, seal, action_commitment
  <1> QED
    BY <1>1, <1>3, <1>8 DEF SandboxOK

(* Shredding moves a key from the vault to the erased ones.                 *)
LEMMA ShredKeeps ==
  ASSUME SandboxOK, NEW id \in Identities, shred(id)
  PROVE  SandboxOK'
  <1>1. /\ erased' = erased \cup ({vault[id]} \ {0}) /\ vault' = [vault EXCEPT ![id] = 0]
        /\ UNCHANGED <<minted, clock, records, acts>>
    BY DEF shred
  <1>2. minted \in Nat /\ vault \in [Identities -> 0..minted] /\ vault[id] \in 0..minted
    BY DEF SandboxOK, VaultOK
  <1>3. \A i \in Identities : vault'[i] = IF i = id THEN 0 ELSE vault[i]
    BY <1>1, <1>2
  <1>4. vault' \in [Identities -> 0..minted]
    BY <1>1, <1>2
  <1>5. erased' \subseteq 1..minted
    <2>1. vault[id] # 0 => vault[id] \in 1..minted
      BY <1>2
    <2>2. erased \subseteq 1..minted
      BY DEF SandboxOK, VaultOK
    <2> QED
      BY <1>1, <2>1, <2>2
  <1>6. \A i \in Identities : vault'[i] \notin erased'
    BY <1>1, <1>2, <1>3 DEF SandboxOK, VaultOK
  <1>7. \A i, j \in Identities : vault'[i] = vault'[j] /\ vault'[i] # 0 => i = j
    BY <1>3 DEF SandboxOK, VaultOK
  <1>8. VaultOK'
    BY <1>1, <1>2, <1>4, <1>5, <1>6, <1>7 DEF VaultOK
  <1>9. RecordsOK'
    <2>1. \A i \in Identities, k \in 1..minted :
            k \in erased \/ vault[i] = k => k \in erased' \/ vault'[i] = k
      BY <1>1, <1>2, <1>3
    <2> QED
      BY <1>1, <2>1 DEF SandboxOK, RecordsOK, seal
  <1>10. ActsOK'
    BY <1>1 DEF SandboxOK, ActsOK, seal, action_commitment
  <1> QED
    BY <1>8, <1>9, <1>10 DEF SandboxOK

(* Vault, records and history agree in every state.                         *)
LEMMA SandboxStep == SandboxOK /\ [SandboxNext]_sandboxVars => SandboxOK'
  <1> SUFFICES ASSUME SandboxOK, [SandboxNext]_sandboxVars PROVE SandboxOK'
    OBVIOUS
  <1>1. CASE Act
    <2>1. CASE UNCHANGED sandboxVars
      BY <2>1 DEF SandboxOK, VaultOK, RecordsOK, ActsOK, sandboxVars, seal, action_commitment
    <2> QED
      BY <1>1, <2>1, ActShape, ActKeeps
  <1>2. CASE Shred
    BY <1>2, ShredKeeps DEF Shred
  <1>3. CASE SetClock
    <2>1. clock' \in Nat /\ UNCHANGED <<vault, minted, records, erased, acts>>
      BY <1>3, SandboxConstants DEF SetClock
    <2> QED
      BY <2>1 DEF SandboxOK, VaultOK, RecordsOK, ActsOK, seal, action_commitment
  <1>4. CASE UNCHANGED sandboxVars
    BY <1>4 DEF SandboxOK, VaultOK, RecordsOK, ActsOK, sandboxVars, seal, action_commitment
  <1> QED
    BY <1>1, <1>2, <1>3, <1>4 DEF SandboxNext

(* Nothing is sealed, minted or shredded at the start.                      *)
LEMMA SandboxStart == SandboxInit => SandboxOK
  BY FS_EmptySet DEF SandboxInit, SandboxOK, VaultOK, RecordsOK, ActsOK

(* What a record is found to be when it is presented for an identity.       *)
LEMMA OpensWhen ==
  ASSUME SandboxOK, NEW r \in records, NEW i \in Identities
  PROVE  open([r EXCEPT !.identity_id = i]) = "opened" <=> r.ct[1] \notin erased /\ i = r.identity_id
  <1>1. PICK id \in Identities, k \in 1..minted, p \in Payloads :
          r = seal(id, k, p) /\ (k \in erased \/ vault[id] = k)
    BY DEF SandboxOK, RecordsOK
  <1>2. r.identity_id = id /\ r.ct[1] = k /\ r.ct[2] = id
    BY <1>1, SealForm
  <1>3. PICK x : x = [r EXCEPT !.identity_id = i]
    OBVIOUS
  <1>4. x.identity_id = i /\ x.ct[1] = k /\ x.ct[2] = id
    BY <1>1, <1>3, SealForm
  <1>5. open(x) = "opened" <=> vault[i] # 0 /\ k = vault[i] /\ id = i
    BY <1>4 DEF open
  <1>6. k # 0 /\ \A j \in Identities : vault[j] \notin erased
    BY DEF SandboxOK, VaultOK
  <1>7. open(x) = "opened" <=> k \notin erased /\ i = id
    BY <1>1, <1>5, <1>6
  <1> QED
    BY <1>2, <1>3, <1>7

(* Shredding is for good, although the next seal makes the identity a new   *)
(* key: nothing sealed under a shredded key opens again, no commitment made *)
(* with it is recomputed, and what was not shredded opens for its identity  *)
(* alone.                                                                   *)
THEOREM ServicesErasureHolds == SandboxSpec => []ErasureHolds
PROOF
<1>1. SandboxOK => ErasureHolds
  <2> SUFFICES ASSUME SandboxOK PROVE ErasureHolds
    OBVIOUS
  <2>1. ASSUME NEW a \in acts, a.hash[2] \in erased
        PROVE  a.hash \notin recompute_action_hash(a.id, a.payload)
    <3>1. a.id \in Identities /\ vault[a.id] \notin erased
      BY DEF SandboxOK, ActsOK, VaultOK, Acts
    <3>2. action_commitment(vault[a.id], a.payload)[2] = vault[a.id]
      BY CommitmentForm
    <3> QED BY <2>1, <3>1, <3>2 DEF recompute_action_hash
  <2> QED BY <2>1, OpensWhen DEF ErasureHolds
<1> QED BY <1>1, SandboxStart, SandboxStep, PTL DEF SandboxSpec

(* "Every effect that ran has a receipt": an action whose result came back  *)
(* ran its effect and left its sealed record, nothing else leaves one, and  *)
(* until its key is shredded the record opens and the commitment is what    *)
(* the enclave recomputes.                                                  *)
THEOREM ServicesReceiptsBacked == SandboxSpec => []ReceiptsAreBacked
PROOF
<1>1. SandboxOK => ReceiptsAreBacked
  <2> SUFFICES ASSUME SandboxOK PROVE ReceiptsAreBacked
    OBVIOUS
  <2>1. ASSUME NEW a \in acts, a.kept
        PROVE  /\ a.ran /\ seal(a.id, a.hash[2], a.payload) \in records
               /\ a.hash[2] \notin erased =>
                    /\ open(seal(a.id, a.hash[2], a.payload)) = "opened"
                    /\ a.hash \in recompute_action_hash(a.id, a.payload)
    <3>1. /\ a.ran /\ seal(a.id, a.hash[2], a.payload) \in records /\ a.id \in Identities
          /\ a.hash = action_commitment(a.hash[2], a.payload)
      BY <2>1 DEF SandboxOK, ActsOK, Acts
    <3>2. PICK r \in records : r = seal(a.id, a.hash[2], a.payload)
      BY <3>1
    <3>3. PICK id \in Identities, k \in 1..minted, p \in Payloads :
            r = seal(id, k, p) /\ (k \in erased \/ vault[id] = k)
      BY DEF SandboxOK, RecordsOK
    <3>4. a.id = id /\ a.hash[2] = k
      <4>1. seal(a.id, a.hash[2], a.payload).identity_id = a.id
            /\ seal(a.id, a.hash[2], a.payload).ct[1] = a.hash[2]
        BY DEF seal
      <4>2. seal(id, k, p).identity_id = id /\ seal(id, k, p).ct[1] = k
        BY DEF seal
      <4> QED BY <3>2, <3>3, <4>1, <4>2, Zenon
    <3>5. r.identity_id = id /\ r.ct[1] = k /\ r.ct[2] = id
      BY <3>3, SealForm
    <3>6. ASSUME k \notin erased PROVE vault[id] = k /\ k # 0
      BY <3>3, <3>6
    <3>7. k \notin erased => open(r) = "opened"
      BY <3>5, <3>6 DEF open
    <3>8. k \notin erased => a.hash \in recompute_action_hash(a.id, a.payload)
      BY <3>1, <3>4, <3>6 DEF recompute_action_hash
    <3> QED BY <3>1, <3>2, <3>4, <3>7, <3>8
  <2>2. \A r \in records : \E a \in acts : a.kept /\ r = seal(a.id, a.hash[2], a.payload)
    BY DEF SandboxOK, ActsOK
  <2> QED BY <2>1, <2>2 DEF ReceiptsAreBacked
<1> QED BY <1>1, SandboxStart, SandboxStep, PTL DEF SandboxSpec

-----------------------------------------------------------------------------
(* The meter.  Costs of actions, as the weights of a sum.                   *)
CostsOf(S) == [a \in S |-> a.cost]

(* The cost of a set of actions is a sum over it.                           *)
LEMMA CostOfIs ==
  ASSUME NEW S PROVE CostOf(S) = SumFunctionOnSet(CostsOf(S), S)
PROOF
<1> DEFINE R(F) == [s \in SUBSET S |-> IF s = {} THEN 0 ELSE First(s).cost + F[s \ {First(s)}]]
           Q(F) == [s \in SUBSET S |-> IF s = {} THEN 0 ELSE CostsOf(S)[First(s)] + F[s \ {First(s)}]]
<1>1. \A s \in SUBSET S : s # {} => CostsOf(S)[First(s)] = First(s).cost
  BY FirstIn DEF CostsOf
<1>2. \A F : R(F) = Q(F)
  BY <1>1
<1>3. CostOf(S) = (CHOOSE F : F = R(F))[S]
  BY DEF CostOf, MapThenSumSet, MapThenFoldSet, First
<1>4. SumFunctionOnSet(CostsOf(S), S) = (CHOOSE F : F = Q(F))[S]
  BY SumIsIter DEF Iter, IsIter
<1> HIDE DEF R, Q
<1>5. (CHOOSE F : F = R(F)) = (CHOOSE F : F = Q(F))
  BY <1>2, Zenon
<1> QED BY <1>3, <1>4, <1>5

(* What is summed: finite sets of actions.                                  *)
Bill(S) == IsFiniteSet(S) /\ \A a \in S : a.cost \in Nat

(* One more action adds its cost; a part costs no more than the whole, and  *)
(* the whole what the part and the rest cost.                               *)
LEMMA CostFacts ==
  ASSUME NEW S, Bill(S)
  PROVE  /\ CostOf(S) \in Nat
         /\ \A a : a \notin S /\ a.cost \in Nat => CostOf(S \cup {a}) = CostOf(S) + a.cost
         /\ \A R \in SUBSET S : /\ Bill(R) /\ CostOf(R) \in Nat /\ CostOf(R) <= CostOf(S)
                                /\ CostOf(S) = CostOf(R) + CostOf(S \ R)
PROOF
<1>0. IsFiniteSet(S) /\ \A a \in S : a.cost \in Nat
  BY DEF Bill
<1>1. ASSUME NEW R \in SUBSET S
      PROVE  Bill(R) /\ CostOf(R) = SumFunctionOnSet(CostsOf(S), R)
  <2>1. IsFiniteSet(R)
    BY <1>0, FS_Subset
  <2>2. \A x \in R : CostsOf(S)[x] = CostsOf(R)[x]
    BY DEF CostsOf
  <2>3. SumFunctionOnSet(CostsOf(S), R) = SumFunctionOnSet(CostsOf(R), R)
    BY <2>1, <2>2, SumSameWeights
  <2> QED BY <1>0, <2>1, <2>3, CostOfIs DEF Bill
<1>2. \A x \in S : CostsOf(S)[x] \in Nat
  BY <1>0 DEF CostsOf
<1>3. \A R \in SUBSET S : SumFunctionOnSet(CostsOf(S), R) \in Nat
                          /\ SumFunctionOnSet(CostsOf(S), R) <= SumFunctionOnSet(CostsOf(S), S)
  BY <1>0, <1>2, SumSubset
<1>4. \A x \in S : CostsOf(S)[x] \in Int
  BY <1>2
<1>5. \A R \in SUBSET S : SumFunctionOnSet(CostsOf(S), S) =
                            SumFunctionOnSet(CostsOf(S), R) + SumFunctionOnSet(CostsOf(S), S \ R)
  BY <1>0, <1>4, SumSplit
<1>6. S \in SUBSET S /\ \A R \in SUBSET S : S \ R \in SUBSET S
  OBVIOUS
<1>7. ASSUME NEW a, a \notin S, a.cost \in Nat PROVE CostOf(S \cup {a}) = CostOf(S) + a.cost
  <2> DEFINE U == S \cup {a}
             w == CostsOf(U)
  <2>1. \A x \in U : w[x] = x.cost /\ w[x] \in Int
    BY <1>0, <1>7 DEF CostsOf
  <2>2. \A x \in S : w[x] = CostsOf(S)[x]
    BY DEF CostsOf
  <2>3. CostOf(U) = SumFunctionOnSet(w, U)
    BY CostOfIs
  <2> HIDE DEF w
  <2>4. SumFunctionOnSet(w, S) = SumFunctionOnSet(CostsOf(S), S)
    BY <1>0, <2>2, SumSameWeights
  <2>5. SumFunctionOnSet(w, U) = w[a] + SumFunctionOnSet(w, S)
    BY <1>0, <1>7, <2>1, SumInsert
  <2>6. CostOf(S) = SumFunctionOnSet(w, S)
    BY <2>4, CostOfIs
  <2>7. CostOf(S) \in Nat
    BY <1>1, <1>3, <1>6
  <2> QED BY <1>7, <2>1, <2>3, <2>5, <2>6, <2>7
<1> QED BY <1>1, <1>3, <1>5, <1>6, <1>7

(* The actions since one, those before it that are less than a window older *)
(* than the roll, and those in a stretch of a window's length.              *)
From(n) == {b \in acts : b.n >= n}
Before(n) == {b \in acts : b.n < n /\ b.at > meter.start - Duration}
Stretch(t) == {b \in acts : b.at \in t..(t + Duration - 1)}
OpensWindow(a) ==
  /\ a.at = meter.start /\ CostOf(From(a.n)) = meter.spent /\ meter.spent <= PerWindow
  /\ Monotone => CostOf(Before(a.n)) <= PerWindow
MeterOK ==
  /\ meter \in Accountant
  /\ \A a \in acts : a.n <= Cardinality(acts)
  /\ IF meter.started THEN \E a \in acts : OpensWindow(a) ELSE acts = {}
  /\ Monotone => \A t \in Int : CostOf(Stretch(t)) <= 2 * PerWindow

(* A charge in a new window: the action stands alone, and what is younger   *)
(* than a window belongs to the window before.                              *)
LEMMA RollKeeps ==
  ASSUME SandboxOK, MeterOK, PerWindow \in Nat, NEW a, NEW key, Acted(a, key), RolledOver(meter, clock)
  PROVE  /\ OpensWindow(a)'
         /\ Monotone' => \A t \in Int : clock \in t..(t + Duration - 1) => CostOf(Stretch(t)') <= 2 * PerWindow
<1>0. /\ IsFiniteSet(acts) /\ Bill(acts) /\ Cardinality(acts) \in Nat /\ clock \in Nat /\ Duration \in Int
      /\ \A b \in acts : b.n \in Nat /\ b.n <= Cardinality(acts) /\ b.at \in Nat /\ b.cost \in Nat
  BY FS_CardinalityType, EnvelopeConstants DEF SandboxOK, ActsOK, MeterOK, Bill, Acts
<1>1. /\ a.n = Cardinality(acts) + 1 /\ a.at = clock /\ acts' = acts \cup {a} /\ a.cost \in Nat
      /\ a.cost <= PerWindow /\ meter'.start = clock /\ meter'.spent = a.cost /\ clock' = clock
      /\ a \notin acts
  <2>1. a.n = Cardinality(acts) + 1 /\ a.at = clock /\ acts' = acts \cup {a} /\ clock' = clock
        /\ a.cost \in Nat
    BY DEF Acted, Acts
  <2>2. a.cost <= PerWindow
    BY <2>1 DEF Acted, charge_allowed, Base
  <2>3. meter'.start = clock /\ meter'.spent = a.cost
    BY <2>1 DEF Acted, charge_commit, Base
  <2>4. a \notin acts
    BY <1>0, <2>1
  <2> QED BY <2>1, <2>2, <2>3, <2>4
<1> DEFINE Recent == {b \in acts : b.at > clock - Duration}
<1>2. Monotone' => \A b \in acts : b.at <= clock
  BY <1>0, <1>1 DEF Monotone
<1>3. Monotone' => Monotone
  BY <1>1 DEF Monotone
<1>4. ASSUME Monotone' PROVE CostOf(Recent) \in Nat /\ CostOf(Recent) <= PerWindow
  <2>1. CASE ~ meter.started
    <3>1. Recent = {} /\ Recent \in SUBSET acts
      BY <2>1 DEF MeterOK
    <3>2. CostOf({}) = 0
      BY CostOfIs, SumEmpty
    <3> HIDE DEF Recent
    <3> QED BY <3>1, <3>2
  <2>2. CASE meter.started
    <3>1. PICK o \in acts : o.at = meter.start /\ CostOf(From(o.n)) = meter.spent /\ meter.spent <= PerWindow
      BY <2>2 DEF MeterOK, OpensWindow
    <3>2. o.at <= clock - Duration
      BY <1>0, <2>2, <3>1 DEF RolledOver
    <3>3. \A b \in acts : b.n < o.n => b.at <= o.at
      BY <1>3, <1>4 DEF Monotone
    <3>4. Recent \subseteq From(o.n) /\ From(o.n) \in SUBSET acts
      BY <1>0, <3>2, <3>3 DEF From
    <3>5. Bill(From(o.n)) /\ CostOf(From(o.n)) \in Nat
      BY <1>0, <3>4, CostFacts
    <3>6. CostOf(Recent) \in Nat /\ CostOf(Recent) <= CostOf(From(o.n))
      BY <3>4, <3>5, CostFacts
    <3> QED BY <3>1, <3>5, <3>6
  <2> QED BY <2>1, <2>2
<1>5. OpensWindow(a)'
  <2>1. From(a.n)' = {a}
    BY <1>0, <1>1 DEF From
  <2>2. CostOf({a}) = a.cost
    <3>1. CostOf({} \cup {a}) = CostOf({}) + a.cost
      BY <1>1, CostFacts, FS_EmptySet DEF Bill
    <3>2. CostOf({}) = 0
      BY CostOfIs, SumEmpty
    <3> QED BY <1>1, <3>1, <3>2
  <2>3. Before(a.n)' = Recent
    BY <1>0, <1>1 DEF Before
  <2> HIDE DEF Recent
  <2>4. CostOf(From(a.n))' = a.cost
    BY <2>1, <2>2
  <2>5. Monotone' => CostOf(Before(a.n))' <= PerWindow
    BY <1>4, <2>3
  <2> QED BY <1>1, <2>4, <2>5 DEF OpensWindow
<1>6. ASSUME Monotone', NEW t \in Int, clock \in t..(t + Duration - 1)
      PROVE  CostOf(Stretch(t)') <= 2 * PerWindow
  <2>1. Stretch(t)' = Stretch(t) \cup {a}
    BY <1>1, <1>6 DEF Stretch
  <2>2. Stretch(t) \in SUBSET Recent /\ Recent \in SUBSET acts /\ a \notin Stretch(t)
    BY <1>0, <1>1, <1>6 DEF Stretch
  <2>3. Bill(Recent) /\ Bill(Stretch(t))
    BY <1>0, <2>2, CostFacts
  <2>4. CostOf(Stretch(t)) \in Nat /\ CostOf(Stretch(t)) <= CostOf(Recent)
    BY <2>2, <2>3, CostFacts
  <2>5. CostOf(Stretch(t) \cup {a}) = CostOf(Stretch(t)) + a.cost
    BY <1>1, <2>2, <2>3, CostFacts
  <2> HIDE DEF Recent
  <2> QED BY <1>1, <1>4, <1>6, <2>1, <2>4, <2>5
<1> QED BY <1>5, <1>6

(* A charge in the window that is open: it joins the others there, and what *)
(* else is in a stretch with it is less than a window older than the roll.  *)
LEMMA StayKeeps ==
  ASSUME SandboxOK, MeterOK, NEW a, NEW key, Acted(a, key), ~ RolledOver(meter, clock),
         NEW o \in acts, OpensWindow(o)
  PROVE  /\ OpensWindow(o)'
         /\ Monotone' => \A t \in Int : clock \in t..(t + Duration - 1) => CostOf(Stretch(t)') <= 2 * PerWindow
<1>0. /\ IsFiniteSet(acts) /\ Bill(acts) /\ Cardinality(acts) \in Nat /\ clock \in Nat
      /\ Duration \in Int /\ PerWindow \in Int
      /\ \A b \in acts : b.n \in Nat /\ b.n <= Cardinality(acts) /\ b.at \in Nat /\ b.cost \in Nat
  BY FS_CardinalityType, EnvelopeConstants DEF SandboxOK, ActsOK, MeterOK, Bill, Acts
<1>1. /\ a.n = Cardinality(acts) + 1 /\ a.at = clock /\ acts' = acts \cup {a} /\ a.cost \in Nat
      /\ meter.spent + a.cost <= PerWindow
      /\ meter'.start = meter.start /\ meter'.spent = meter.spent + a.cost /\ clock' = clock
      /\ a \notin acts
  <2>1. a.n = Cardinality(acts) + 1 /\ a.at = clock /\ acts' = acts \cup {a} /\ clock' = clock
        /\ a.cost \in Nat
    BY DEF Acted, Acts
  <2>2. meter.spent + a.cost <= PerWindow
    BY <2>1 DEF Acted, charge_allowed, Base
  <2>3. meter'.start = meter.start /\ meter'.spent = meter.spent + a.cost
    BY <2>1 DEF Acted, charge_commit, Base
  <2>4. a \notin acts
    BY <1>0, <2>1
  <2> QED BY <2>1, <2>2, <2>3, <2>4
<1>2. Monotone' => \A b \in acts : b.at <= clock
  BY <1>0, <1>1 DEF Monotone
<1>3. Monotone' => Monotone
  BY <1>1 DEF Monotone
<1>4. /\ From(o.n)' = From(o.n) \cup {a} /\ From(o.n) \in SUBSET acts /\ a \notin From(o.n)
      /\ Before(o.n)' = Before(o.n) /\ Before(o.n) \in SUBSET acts
  BY <1>0, <1>1 DEF From, Before
<1>5. Bill(From(o.n)) /\ Bill(Before(o.n))
  BY <1>0, <1>4, CostFacts
<1>6. Bill(From(o.n)') /\ CostOf(From(o.n)') = CostOf(From(o.n)) + a.cost
  <2>1. Bill(From(o.n) \cup {a})
    BY <1>1, <1>5, FS_AddElement DEF Bill
  <2> QED BY <1>1, <1>4, <1>5, <2>1, CostFacts
<1>7. OpensWindow(o)'
  BY <1>1, <1>3, <1>4, <1>6 DEF OpensWindow
<1>8. ASSUME Monotone', NEW t \in Int, clock \in t..(t + Duration - 1)
      PROVE  CostOf(Stretch(t)') <= 2 * PerWindow
  <2> DEFINE whole == Stretch(t)'
             new == {b \in whole : b.n >= o.n}
             old == {b \in whole : b.n < o.n}
  <2>0. whole = Stretch(t) \cup {a} /\ Stretch(t) \subseteq acts
    BY <1>1, <1>8 DEF Stretch
  <2>1. \A b \in whole : b.n \in Nat /\ b.cost \in Nat
    BY <1>0, <1>1, <2>0
  <2>2. new \in SUBSET (From(o.n)')
    BY <1>0, <1>1, <2>0 DEF From
  <2>3. old \in SUBSET Before(o.n)
    <3>1. ASSUME NEW b \in old PROVE b \in acts /\ b.n < o.n /\ b.at > meter.start - Duration
      <4>1. b \in Stretch(t)
        BY <1>0, <1>1, <2>0
      <4>2. b.at \in t..(t + Duration - 1) /\ b \in acts
        BY <4>1 DEF Stretch
      <4>3. o.at <= clock /\ o.at = meter.start
        BY <1>2, <1>8 DEF OpensWindow
      <4>4. o.at \in Nat
        BY <1>0
      <4> QED BY <1>0, <1>8, <4>2, <4>3, <4>4
    <3> QED BY <3>1 DEF Before
  <2>4. CostOf(new) \in Nat /\ CostOf(new) <= CostOf(From(o.n)')
    BY <1>6, <2>2, CostFacts
  <2>5. CostOf(old) \in Nat /\ CostOf(old) <= CostOf(Before(o.n))
    BY <1>5, <2>3, CostFacts
  <2>6. Bill(Stretch(t))
    BY <1>0, <2>0, CostFacts
  <2>7. Bill(whole)
    BY <1>1, <2>0, <2>6, FS_AddElement DEF Bill
  <2>8. new \in SUBSET whole /\ old = whole \ new
    BY <1>0, <2>1
  <2> HIDE DEF new, old, whole
  <2>9. CostOf(whole) = CostOf(new) + CostOf(old)
    BY <2>7, <2>8, CostFacts
  <2>10. CostOf(From(o.n)') <= PerWindow /\ CostOf(From(o.n)') \in Int
    <3>1. CostOf(From(o.n)) = meter.spent /\ CostOf(From(o.n)) \in Nat
      BY <1>5, CostFacts DEF OpensWindow
    <3> QED BY <1>1, <1>6, <3>1
  <2>11. CostOf(Before(o.n)) <= PerWindow /\ CostOf(Before(o.n)) \in Int
    <3>1. CostOf(Before(o.n)) \in Nat
      BY <1>5, CostFacts
    <3> QED BY <1>3, <1>8, <3>1 DEF OpensWindow
  <2>12. CostOf(whole) <= 2 * PerWindow
    BY <1>0, <2>4, <2>5, <2>9, <2>10, <2>11
  <2> QED BY <2>12 DEF whole
<1> QED BY <1>7, <1>8

(* The meter and the history agree, however the clock is set.               *)
LEMMA MeterStep ==
  ASSUME PerWindow \in Nat, SandboxOK, MeterOK, [SandboxNext]_sandboxVars
  PROVE  MeterOK'
<1>1. CASE UNCHANGED <<meter, acts>>
  BY <1>1 DEF MeterOK, OpensWindow, Monotone, From, Before, Stretch
<1>2. ASSUME NEW a, NEW key, Acted(a, key) PROVE MeterOK'
  <2>0. /\ IsFiniteSet(acts) /\ Cardinality(acts) \in Nat /\ clock \in Nat /\ a \notin acts
        /\ a.n = Cardinality(acts) + 1 /\ acts' = acts \cup {a} /\ a.cost \in Nat
        /\ meter' = charge_commit(meter, a.cost, clock) /\ a.at = clock
    <3>1. IsFiniteSet(acts) /\ Cardinality(acts) \in Nat /\ clock \in Nat
      BY FS_CardinalityType DEF SandboxOK, ActsOK
    <3>2. a.n = Cardinality(acts) + 1 /\ acts' = acts \cup {a} /\ a.cost \in Nat
          /\ meter' = charge_commit(meter, a.cost, clock) /\ a.at = clock
      BY <1>2 DEF Acted, Acts
    <3>3. a \notin acts
      BY <3>1, <3>2 DEF MeterOK
    <3> QED BY <3>1, <3>2, <3>3
  <2>1. Cardinality(acts') = Cardinality(acts) + 1
    BY <2>0, FS_AddElement
  <2>2. meter' \in Accountant /\ meter'.started
    <3>1. meter.spent \in Nat /\ meter.start \in Int
      BY DEF MeterOK, Accountant
    <3>2. Base(meter, clock) + a.cost \in Nat
      BY <2>0, <3>1 DEF Base
    <3>3. (IF RolledOver(meter, clock) THEN clock ELSE meter.start) \in Int
      BY <2>0, <3>1
    <3> QED BY <2>0, <3>2, <3>3 DEF charge_commit, Accountant
  <2>3. \A b \in acts' : b.n <= Cardinality(acts')
    <3>1. \A b \in acts : b.n \in Nat /\ b.n <= Cardinality(acts)
      BY DEF MeterOK, SandboxOK, ActsOK, Acts
    <3> QED BY <2>0, <2>1, <3>1
  <2>4. /\ \E o \in acts' : OpensWindow(o)'
        /\ Monotone' => \A t \in Int : clock \in t..(t + Duration - 1) => CostOf(Stretch(t)') <= 2 * PerWindow
    <3>1. CASE RolledOver(meter, clock)
      BY <1>2, <2>0, <3>1, RollKeeps
    <3>2. CASE ~ RolledOver(meter, clock)
      <4>1. PICK o \in acts : OpensWindow(o)
        BY <3>2 DEF MeterOK, RolledOver
      <4> QED BY <1>2, <2>0, <3>2, <4>1, StayKeeps
    <3> QED BY <3>1, <3>2
  <2>5. Monotone' => \A t \in Int : CostOf(Stretch(t)') <= 2 * PerWindow
    <3>1. Monotone' => Monotone
      BY <2>0 DEF Monotone
    <3>2. ASSUME NEW t \in Int, clock \notin t..(t + Duration - 1) PROVE Stretch(t)' = Stretch(t)
      BY <2>0, <3>2 DEF Stretch
    <3>3. Monotone => \A t \in Int : CostOf(Stretch(t)) <= 2 * PerWindow
      BY DEF MeterOK
    <3> QED BY <2>4, <3>1, <3>2, <3>3
  <2> QED BY <2>2, <2>3, <2>4, <2>5 DEF MeterOK
<1>3. UNCHANGED <<meter, acts>> \/ Act
  BY DEF SandboxNext, Shred, shred, SetClock, sandboxVars
<1>4. Act => UNCHANGED <<meter, acts>> \/ \E a, key : Acted(a, key)
  BY ActShape DEF sandboxVars
<1> QED BY <1>1, <1>2, <1>3, <1>4

(* "Every effect is paid": since the meter last rolled exactly what it shows*)
(* passed, within perWindow, however the clock moves; while it is never set *)
(* back no stretch of a window's length holds more than two budgets.        *)
THEOREM ServicesEffectsArePaid == PerWindow \in Nat /\ SandboxSpec => []EffectsArePaid
PROOF
<1> SUFFICES ASSUME PerWindow \in Nat PROVE SandboxSpec => []EffectsArePaid
  OBVIOUS
<1> DEFINE IInv == SandboxOK /\ MeterOK
<1>1. SandboxInit => IInv
  <2> SUFFICES ASSUME SandboxInit PROVE MeterOK
    BY SandboxStart
  <2>1. acts = {} /\ meter = [spent |-> 0, start |-> 0, started |-> FALSE]
    BY DEF SandboxInit, window_accountant_init
  <2>2. \A t \in Int : Stretch(t) = {}
    BY <2>1 DEF Stretch
  <2>3. CostOf({}) = 0
    BY CostOfIs, SumEmpty
  <2>4. \A t \in Int : CostOf(Stretch(t)) <= 2 * PerWindow
    BY <2>2, <2>3
  <2> QED BY <2>1, <2>4 DEF MeterOK, Accountant
<1>2. IInv /\ [SandboxNext]_sandboxVars => IInv'
  BY SandboxStep, MeterStep
<1>3. IInv => EffectsArePaid
  <2> SUFFICES ASSUME SandboxOK, MeterOK PROVE EffectsArePaid
    OBVIOUS
  <2>1. meter.started => \E a \in acts : /\ a.at = meter.start
                                         /\ CostOf({b \in acts : b.n >= a.n}) = meter.spent
                                         /\ meter.spent <= PerWindow
    BY DEF MeterOK, OpensWindow, From
  <2>2. Monotone => \A from \in 0..MaxClock : CostOf({a \in acts : a.at \in from..(from + Duration - 1)}) <= 2 * PerWindow
    BY DEF MeterOK, Stretch
  <2> QED BY <2>1, <2>2 DEF EffectsArePaid
<1> HIDE DEF IInv
<1> QED BY <1>1, <1>2, <1>3, PTL DEF SandboxSpec

-----------------------------------------------------------------------------
(* The parser of a charter: its fold over the lines, one line at a time.    *)
LineOf == {<<>>} \cup STRING \X Int
Scanner(lines) == [found : SUBSET {lines[i] : i \in 1..Len(lines)}, err : {"", "unparseable", "duplicate"}]
NewScan == [found |-> {}, err |-> ""]
IsScan(F, lines) ==
  F = [s \in SUBSET DOMAIN lines |-> IF s = {} THEN NewScan ELSE scan_line(F[s \ {Max(s)}], lines[Max(s)])]
Scan(lines) == CHOOSE F : IsScan(F, lines)

LEMMA ScanIs == ASSUME NEW lines PROVE scan_lines(lines) = Scan(lines)[DOMAIN lines]
  BY DEF scan_lines, FoldLeft, MapThenFoldSet, Scan, IsScan, NewScan

(* A line keeps the scanner's type.                                         *)
LEMMA ScanLineType ==
  ASSUME NEW lines, NEW s \in Scanner(lines), NEW i \in 1..Len(lines)
  PROVE  scan_line(s, lines[i]) \in Scanner(lines)
  BY DEF Scanner, scan_line

LEMMA ScanExists == ASSUME NEW lines \in Seq(LineOf) PROVE IsScan(Scan(lines), lines)
PROOF
<1>1. PICK n \in Nat : n = Len(lines) /\ DOMAIN lines = 1..n
  OBVIOUS
<1> DEFINE X == Scanner(lines)
           g == [p \in X \X (1..n) |-> scan_line(p[1], lines[p[2]])]
           F == Fold(g, NewScan, 1..n)
<1>2. NewScan \in X
  BY DEF NewScan, Scanner
<1>3. \A a \in X, i \in 1..n : <<a, i>> \in X \X (1..n) /\ <<a, i>>[1] = a /\ <<a, i>>[2] = i
  OBVIOUS
<1>4. \A a \in X, i \in 1..n : g[<<a, i>>] = scan_line(a, lines[i])
  BY <1>3
<1>5. \A a \in X, i \in 1..n : scan_line(a, lines[i]) \in X
  BY <1>1, ScanLineType
<1> HIDE DEF X, g
<1>6. IsFold(F, g, NewScan, 1..n)
  BY FoldExists
<1>7. \A s \in SUBSET (1..n) : F[s] \in X
  <2>1. \A a \in X, i \in 1..n : g[<<a, i>>] \in X
    BY <1>4, <1>5
  <2> QED BY <1>2, <2>1, FoldTyped
<1> HIDE DEF F
<1>8. ASSUME NEW s \in SUBSET (1..n), s # {}
      PROVE  g[<<F[s \ {Max(s)}], Max(s)>>] = scan_line(F[s \ {Max(s)}], lines[Max(s)])
  <2>1. Max(s) \in 1..n /\ s \ {Max(s)} \in SUBSET (1..n)
    BY <1>8, MaxIn
  <2> QED BY <1>4, <1>7, <2>1
<1>9. F = [s \in SUBSET (1..n) |-> IF s = {} THEN NewScan ELSE scan_line(F[s \ {Max(s)}], lines[Max(s)])]
  <2>1. F = [s \in SUBSET (1..n) |-> IF s = {} THEN NewScan ELSE g[<<F[s \ {Max(s)}], Max(s)>>]]
    BY <1>6 DEF IsFold
  <2>2. \A s \in SUBSET (1..n) : (IF s = {} THEN NewScan ELSE g[<<F[s \ {Max(s)}], Max(s)>>])
                                 = (IF s = {} THEN NewScan ELSE scan_line(F[s \ {Max(s)}], lines[Max(s)]))
    BY <1>8
  <2>3. [s \in SUBSET (1..n) |-> IF s = {} THEN NewScan ELSE g[<<F[s \ {Max(s)}], Max(s)>>]]
        = [s \in SUBSET (1..n) |-> IF s = {} THEN NewScan ELSE scan_line(F[s \ {Max(s)}], lines[Max(s)])]
    BY <2>2
  <2> QED BY <2>1, <2>3, Zenon
<1>10. IsScan(F, lines)
  BY <1>1, <1>9 DEF IsScan
<1> QED BY <1>10 DEF Scan

(* What the first k lines say: each parses, and no key comes twice.  The    *)
(* scanner finds exactly that out, and then has those lines.                *)
Good(lines, k) == \A i \in 1..k : lines[i] # <<>> /\ \A j \in 1..(i - 1) : lines[j][1] # lines[i][1]
Scanned(s, lines, k) ==
  /\ s \in Scanner(lines) /\ (s.err = "" <=> Good(lines, k))
  /\ Good(lines, k) => s.found = {lines[i] : i \in 1..k}

LEMMA LastIndex ==
  \A n \in Nat : \A j \in 1..n : j - 1 \in Int /\ 1..j = 1..(j - 1) \cup {j} /\ j \notin 1..(j - 1)
PROOF
<1> SUFFICES ASSUME NEW n \in Nat, NEW j \in 1..n
             PROVE j - 1 \in Int /\ 1..j = 1..(j - 1) \cup {j} /\ j \notin 1..(j - 1)
  OBVIOUS
<1>1. \A i : i \in 1..j <=> i \in 1..(j - 1) \/ i = j
  OBVIOUS
<1> QED BY <1>1

LEMMA ScanStep ==
  ASSUME NEW lines \in Seq(LineOf), NEW k \in 1..Len(lines), NEW s, Scanned(s, lines, k - 1)
  PROVE  Scanned(scan_line(s, lines[k]), lines, k)
PROOF
<1>1. PICK n \in Nat : n = Len(lines) /\ DOMAIN lines = 1..n
  OBVIOUS
<1> DEFINE l == lines[k]
           t == scan_line(s, l)
<1>2. t \in Scanner(lines)
  BY ScanLineType DEF Scanned
<1>3. PICK A \in SUBSET {lines[i] : i \in 1..Len(lines)}, e \in {"", "unparseable", "duplicate"} :
        s = [found |-> A, err |-> e]
  BY DEF Scanned, Scanner
<1>4. (e = "" <=> Good(lines, k - 1)) /\ (Good(lines, k - 1) => A = {lines[i] : i \in 1..(k - 1)})
  BY <1>3 DEF Scanned
<1>a. k \in 1..n
  BY <1>1, Zenon
<1>5. k - 1 \in Int /\ 1..k = 1..(k - 1) \cup {k} /\ k \notin 1..(k - 1)
  BY <1>a, LastIndex, Zenon
<1>6. Good(lines, k) <=> Good(lines, k - 1) /\ lines[k] # <<>> /\ \A j \in 1..(k - 1) : lines[j][1] # lines[k][1]
  BY <1>5 DEF Good
<1>7. CASE e # ""
  <2>1. t = s
    BY <1>3, <1>7 DEF scan_line
  <2> QED BY <1>2, <1>3, <1>4, <1>6, <1>7, <2>1 DEF Scanned
<1>8. CASE e = "" /\ l = <<>>
  <2>1. t.err = "unparseable"
    BY <1>3, <1>8 DEF scan_line
  <2> QED BY <1>2, <1>6, <1>8, <2>1 DEF Scanned
<1>9. CASE e = "" /\ l # <<>> /\ \E f \in A : f[1] = l[1]
  <2>1. t.err = "duplicate"
    BY <1>3, <1>9 DEF scan_line
  <2>a. A = {lines[i] : i \in 1..(k - 1)}
    BY <1>4, <1>9
  <2>b. PICK f \in A : f[1] = l[1]
    BY <1>9
  <2>c. PICK j \in 1..(k - 1) : f = lines[j]
    BY <2>a, <2>b
  <2>2. lines[j][1] = l[1]
    BY <2>b, <2>c
  <2>3. ~ Good(lines, k)
    BY <1>6, <2>2
  <2> QED BY <1>2, <2>1, <2>3 DEF Scanned
<1>10. CASE e = "" /\ l # <<>> /\ ~ \E f \in A : f[1] = l[1]
  <2>1. t.err = "" /\ t.found = A \cup {l}
    BY <1>3, <1>10 DEF scan_line
  <2>2. A = {lines[i] : i \in 1..(k - 1)} /\ Good(lines, k - 1)
    BY <1>4, <1>10
  <2>3. \A j \in 1..(k - 1) : lines[j][1] # lines[k][1]
    BY <1>10, <2>2
  <2>4. Good(lines, k)
    BY <1>6, <1>10, <2>2, <2>3
  <2>5. A \cup {l} = {lines[i] : i \in 1..k}
    BY <1>5, <2>2
  <2> QED BY <1>2, <2>1, <2>4, <2>5 DEF Scanned
<1> QED BY <1>7, <1>8, <1>9, <1>10

LEMMA ScanAll ==
  ASSUME NEW lines \in Seq(LineOf) PROVE Scanned(scan_lines(lines), lines, Len(lines))
PROOF
<1>1. PICK n \in Nat : n = Len(lines) /\ DOMAIN lines = 1..n
  OBVIOUS
<1>2. PICK F : F = Scan(lines)
  OBVIOUS
<1>3. F = [s \in SUBSET (1..n) |-> IF s = {} THEN NewScan ELSE scan_line(F[s \ {Max(s)}], lines[Max(s)])]
  BY <1>1, <1>2, ScanExists DEF IsScan
<1> DEFINE P == {k \in 0..n : Scanned(F[1..k], lines, k)}
<1>4. 0 \in P
  <2>1. F[{}] = NewScan
    <3>1. {} \in SUBSET (1..n)
      OBVIOUS
    <3> QED BY <1>3, <3>1
  <2>2. 1..0 = {}
    OBVIOUS
  <2>3. Good(lines, 0) /\ {lines[i] : i \in 1..0} = {}
    BY DEF Good
  <2>4. NewScan \in Scanner(lines) /\ NewScan.err = "" /\ NewScan.found = {}
    BY DEF NewScan, Scanner
  <2>5. Scanned(NewScan, lines, 0)
    BY <2>3, <2>4 DEF Scanned
  <2> QED BY <2>1, <2>2, <2>5
<1>5. ASSUME NEW k \in 1..n, k - 1 \in P PROVE k \in P
  <2>1. Max(1..k) = k /\ (1..k) \ {Max(1..k)} = 1..(k - 1)
    BY MaxOfFirst
  <2>2. 1..k \in SUBSET (1..n) /\ 1..k # {}
    OBVIOUS
  <2>3. F[1..k] = scan_line(F[1..(k - 1)], lines[k])
    BY <1>3, <2>1, <2>2
  <2>4. Scanned(F[1..(k - 1)], lines, k - 1)
    BY <1>5
  <2>5. Scanned(F[1..k], lines, k)
    BY <1>1, <2>3, <2>4, ScanStep
  <2> QED BY <2>5
<1> HIDE DEF P
<1>6. 0..n \subseteq P
  BY <1>4, <1>5, Upwards
<1>7. n \in P
  BY <1>6
<1> QED BY <1>1, <1>2, <1>7, ScanIs DEF P

(* What the parser accepts, line by line.                                   *)
Accepted(p) ==
  /\ p.block = TRUE /\ Good(p.lines, Len(p.lines))
  /\ \A k \in REQUIRED_KEYS : \E i \in 1..Len(p.lines) : p.lines[i][1] = k
  /\ \A i \in 1..Len(p.lines) : p.lines[i][1] \in REQUIRED_KEYS /\ p.lines[i][2] > 0

LEMMA ParsesAccepted ==
  ASSUME NEW p, p.block \in BOOLEAN, p.lines \in Seq(LineOf)
  PROVE  /\ Parses(p) <=> Accepted(p)
         /\ Parses(p) => parse_charter_params(p).params = ToSet(p.lines)
PROOF
<1>1. PICK lines \in Seq(LineOf) : lines = p.lines
  OBVIOUS
<1>2. PICK n \in Nat : n = Len(lines) /\ DOMAIN lines = 1..n
  OBVIOUS
<1>3. PICK s \in Scanner(lines) : s = scan_lines(lines)
  BY ScanAll DEF Scanned
<1>4. (s.err = "" <=> Good(lines, n)) /\ (Good(lines, n) => s.found = {lines[i] : i \in 1..n})
  BY <1>2, <1>3, ScanAll DEF Scanned
<1> DEFINE value(k) == {f[2] : f \in {g \in s.found : g[1] = k}}
<1>5. /\ parse_charter_params(p).params = s.found
      /\ Parses(p) <=> /\ p.block /\ s.err = "" /\ ~ (\E k \in REQUIRED_KEYS : value(k) = {})
                       /\ ~ (\E k \in REQUIRED_KEYS : \E v \in value(k) : v <= 0)
                       /\ ~ (\E f \in s.found : f[1] \notin REQUIRED_KEYS)
  <2>1. parse_charter_params(p) =
          [params |-> s.found,
           err |-> IF ~ p.block THEN "no block"
           ELSE IF s.err # "" THEN s.err
           ELSE IF \E k \in REQUIRED_KEYS : value(k) = {} THEN "missing"
           ELSE IF \E k \in REQUIRED_KEYS : \E v \in value(k) : v <= 0 THEN "not positive"
           ELSE IF \E f \in s.found : f[1] \notin REQUIRED_KEYS THEN "unknown"
           ELSE ""]
    BY <1>1, <1>3, Zenon DEF parse_charter_params
  <2> HIDE DEF value
  <2>2. PICK e : e = IF ~ p.block THEN "no block"
                     ELSE IF s.err # "" THEN s.err
                     ELSE IF \E k \in REQUIRED_KEYS : value(k) = {} THEN "missing"
                     ELSE IF \E k \in REQUIRED_KEYS : \E v \in value(k) : v <= 0 THEN "not positive"
                     ELSE IF \E f \in s.found : f[1] \notin REQUIRED_KEYS THEN "unknown"
                     ELSE ""
    OBVIOUS
  <2>3. parse_charter_params(p) = [params |-> s.found, err |-> e]
    BY <2>1, <2>2, Zenon
  <2>4. parse_charter_params(p).params = s.found /\ (Parses(p) <=> e = "")
    BY <2>3 DEF Parses
  <2>5. CASE \E k \in REQUIRED_KEYS : value(k) = {}
    BY <2>2, <2>4, <2>5
  <2>6. CASE \E k \in REQUIRED_KEYS : \E v \in value(k) : v <= 0
    BY <2>2, <2>4, <2>6
  <2>7. CASE \E f \in s.found : f[1] \notin REQUIRED_KEYS
    BY <2>2, <2>4, <2>7
  <2>8. CASE ~ (\E k \in REQUIRED_KEYS : value(k) = {}) /\ ~ (\E k \in REQUIRED_KEYS : \E v \in value(k) : v <= 0)
             /\ ~ (\E f \in s.found : f[1] \notin REQUIRED_KEYS)
    BY <2>2, <2>4, <2>8
  <2> QED BY <2>5, <2>6, <2>7, <2>8
<1>6. CASE ~ Good(lines, n)
  BY <1>1, <1>2, <1>4, <1>5, <1>6 DEF Accepted
<1>7. CASE Good(lines, n)
  <2>1. s.found = {lines[i] : i \in 1..n} /\ s.err = ""
    BY <1>4, <1>7
  <2>2. \A i \in 1..n : lines[i] \in STRING \X Int
    <3>1. \A i \in 1..n : lines[i] \in LineOf /\ lines[i] # <<>>
      BY <1>2, <1>7 DEF Good
    <3> QED BY <3>1 DEF LineOf
  <2>3. \A i \in 1..n : lines[i][2] \in Int
    BY <2>2
  <2>a. \A k, v : v \in value(k) <=> \E f \in s.found : f[1] = k /\ v = f[2]
    OBVIOUS
  <2>b. \A f : f \in s.found <=> \E i \in 1..n : f = lines[i]
    BY <2>1
  <2> HIDE DEF value
  <2>c. \A k, v : v \in value(k) <=> \E i \in 1..n : lines[i][1] = k /\ v = lines[i][2]
    BY <2>a, <2>b
  <2>4. \A k : value(k) = {} <=> ~ \E i \in 1..n : lines[i][1] = k
    <3>1. \A k : value(k) = {} <=> ~ \E v : v \in value(k)
      OBVIOUS
    <3> QED BY <2>c, <3>1
  <2>5. \A k : (\E v \in value(k) : v <= 0) <=> \E i \in 1..n : lines[i][1] = k /\ lines[i][2] <= 0
    BY <2>c
  <2>6. (\E f \in s.found : f[1] \notin REQUIRED_KEYS) <=> \E i \in 1..n : lines[i][1] \notin REQUIRED_KEYS
    BY <2>b, Zenon
  <2>7. Parses(p) <=> /\ p.block /\ \A k \in REQUIRED_KEYS : \E i \in 1..n : lines[i][1] = k
                      /\ \A i \in 1..n : lines[i][1] \in REQUIRED_KEYS /\ ~ (lines[i][2] <= 0)
    <3>1. ~ (\E k \in REQUIRED_KEYS : value(k) = {}) <=> \A k \in REQUIRED_KEYS : \E i \in 1..n : lines[i][1] = k
      BY <2>4
    <3>2. (\E k \in REQUIRED_KEYS : \E v \in value(k) : v <= 0)
          <=> \E i \in 1..n : lines[i][1] \in REQUIRED_KEYS /\ lines[i][2] <= 0
      BY <2>5
    <3>3. ~ (\E f \in s.found : f[1] \notin REQUIRED_KEYS) <=> \A i \in 1..n : lines[i][1] \in REQUIRED_KEYS
      BY <2>6
    <3>4. Parses(p) <=> /\ p.block /\ \A k \in REQUIRED_KEYS : \E i \in 1..n : lines[i][1] = k
                        /\ ~ \E i \in 1..n : lines[i][1] \in REQUIRED_KEYS /\ lines[i][2] <= 0
                        /\ \A i \in 1..n : lines[i][1] \in REQUIRED_KEYS
      BY <1>5, <2>1, <3>1, <3>2, <3>3, Zenon
    <3> QED BY <3>4, Zenon
  <2>8. \A i \in 1..n : ~ (lines[i][2] <= 0) <=> lines[i][2] > 0
    BY <2>3
  <2>9. Parses(p) <=> Accepted(p)
    BY <1>1, <1>2, <1>7, <2>7, <2>8 DEF Accepted
  <2>10. ToSet(lines) = {lines[i] : i \in 1..n}
    BY <1>2 DEF ToSet
  <2> QED BY <1>1, <1>5, <2>1, <2>9, <2>10
<1> QED BY <1>6, <1>7

(* Accepted line by line, or as many lines as there are required keys and   *)
(* each of them somewhere: the same, by counting.                           *)
LEMMA AcceptedWellFormed ==
  ASSUME NEW p, p.block \in BOOLEAN, p.lines \in Seq(LineOf)
  PROVE  Accepted(p) <=> WellFormed(p)
PROOF
<1>1. PICK lines \in Seq(LineOf) : lines = p.lines
  OBVIOUS
<1>2. PICK n \in Nat : n = Len(lines) /\ DOMAIN lines = 1..n
  OBVIOUS
<1>3. IsFiniteSet(REQUIRED_KEYS) /\ IsFiniteSet(1..n) /\ Cardinality(1..n) = n
  <2>1. (IF 1 > n THEN 0 ELSE n - 1 + 1) = n
    OBVIOUS
  <2> QED BY <2>1, FS_Interval, CharterConstants
<1>4. ASSUME Accepted(p) PROVE WellFormed(p)
  <2> DEFINE f == [i \in 1..n |-> lines[i][1]]
  <2>1. /\ p.block = TRUE /\ Good(lines, n)
        /\ \A k \in REQUIRED_KEYS : \E i \in 1..n : lines[i][1] = k
        /\ \A i \in 1..n : lines[i][1] \in REQUIRED_KEYS /\ lines[i][2] > 0
    BY <1>1, <1>2, <1>4 DEF Accepted
  <2>2. ASSUME NEW i \in 1..n, NEW j \in 1..n, lines[i][1] = lines[j][1] PROVE i = j
    <3>1. i < j => i \in 1..(j - 1)
      OBVIOUS
    <3>2. j < i => j \in 1..(i - 1)
      OBVIOUS
    <3>3. ~ (i < j) /\ ~ (j < i)
      BY <2>1, <2>2, <3>1, <3>2 DEF Good
    <3> QED BY <3>3
  <2>3. f \in Bijection(1..n, REQUIRED_KEYS)
    BY <2>1, <2>2 DEF Bijection, Injection, Surjection, IsInjective
  <2>4. Cardinality(REQUIRED_KEYS) = n
    <3> HIDE DEF f
    <3>1. ExistsBijection(1..n, REQUIRED_KEYS)
      BY <2>3 DEF ExistsBijection
    <3> QED BY <1>3, <3>1, FS_Bijection
  <2>5. \A i \in 1..n : lines[i] # <<>>
    BY <2>1 DEF Good
  <2> QED BY <1>1, <1>2, <2>1, <2>4, <2>5 DEF WellFormed
<1>5. ASSUME WellFormed(p) PROVE Accepted(p)
  <2>1. /\ p.block = TRUE /\ n = Cardinality(REQUIRED_KEYS)
        /\ \A k \in REQUIRED_KEYS : \E i \in 1..n : lines[i] # <<>> /\ lines[i][1] = k /\ lines[i][2] > 0
    BY <1>1, <1>2, <1>5 DEF WellFormed
  <2> DEFINE f == [k \in REQUIRED_KEYS |-> CHOOSE i \in 1..n : lines[i] # <<>> /\ lines[i][1] = k /\ lines[i][2] > 0]
  <2>2. \A k \in REQUIRED_KEYS : f[k] \in 1..n /\ lines[f[k]] # <<>> /\ lines[f[k]][1] = k /\ lines[f[k]][2] > 0
    BY <2>1
  <2>3. f \in Injection(REQUIRED_KEYS, 1..n)
    BY <2>2 DEF Injection, IsInjective
  <2>4. f \in Surjection(REQUIRED_KEYS, 1..n)
    <3> HIDE DEF f
    <3> QED BY <1>3, <2>1, <2>3, FS_Injection
  <2> HIDE DEF f
  <2>5. ASSUME NEW i \in 1..n
        PROVE  lines[i] # <<>> /\ lines[i][1] \in REQUIRED_KEYS /\ f[lines[i][1]] = i /\ lines[i][2] > 0
    <3>1. PICK k \in REQUIRED_KEYS : f[k] = i
      BY <2>4 DEF Surjection
    <3> QED BY <2>2, <3>1
  <2>6. Good(lines, n)
    <3>1. ASSUME NEW i \in 1..n, NEW j \in 1..(i - 1) PROVE lines[j][1] # lines[i][1]
      <4>1. j \in 1..n /\ j # i
        OBVIOUS
      <4> QED BY <2>5, <4>1
    <3> QED BY <2>5, <3>1 DEF Good
  <2>7. \A k \in REQUIRED_KEYS : \E i \in 1..n : lines[i][1] = k
    BY <2>1
  <2> QED BY <1>1, <1>2, <2>1, <2>5, <2>6, <2>7 DEF Accepted
<1> QED BY <1>4, <1>5

-----------------------------------------------------------------------------
(* The invariant of deploy and audit over the two files and the chain: what *)
(* either of them holds was made from one prose, which parsed when it was   *)
(* read and whose signature is in the history, whatever the files say now.  *)
Proses == Drafts \cup Editions
SignedIn(ss, key, p, b) ==
  \E i \in 1..Len(ss) : ss[i].key = key /\ ss[i].prose = p /\ ss[i].hash = <<p, b>>
IdentityOf(p, key, b) ==
  [kind |-> "ricardiantea", owner |-> key, binding |-> b, hash |-> <<p, b>>, params |-> ToSet(p.lines)]
MadeFrom(ss, key, p, b) == key \in Keys /\ p \in Proses /\ b \in Bindings /\ Parses(p) /\ SignedIn(ss, key, p, b)

SidecarOK(c, ss) ==
  \/ c = None \/ c = Partial
  \/ \E key, p, b : MadeFrom(ss, key, p, b) /\ c = sign_charter(p, b, key)
DeployOK(d, ss) ==
  \/ d = NoDeploy
  \/ \E pc, key, p, b :
       pc \in {"sign", "write", "gate"} /\ MadeFrom(ss, key, p, b) /\ d = [pc |-> pc, instance |-> IdentityOf(p, key, b), sig |-> sign_charter(p, b, key)]
OutputOK(o, ss) ==
  o.kind = "ricardiantea" => \E key, p, b : MadeFrom(ss, key, p, b) /\ o = IdentityOf(p, key, b)

ElderSigned(elder, allow, p, ss) ==
  elder # None /\ ~ allow => \E i \in 1..Len(ss) : ss[i].key = elder /\ ss[i].prose = p
OutputMatches(o, elder, p) == o.kind = "ricardiantea" => o.owner = elder /\ o.hash = <<p, o.binding>>
HasRead(a, p) == p \in Proses /\ Parses(p) /\ a = [pc |-> "sig", prose |-> p]
HasTrusted(a, ss, p, elder, allow) ==
  /\ p \in Proses /\ Parses(p) /\ ElderSigned(elder, allow, p, ss)
  /\ a = [pc |-> "chain", prose |-> p, elder |-> elder, allow |-> allow]
HasPassed(a, os, ss, p, elder, allow, t) ==
  /\ ElderSigned(elder, allow, p, ss) /\ t \in 0..Len(os) /\ (t # 0 => OutputMatches(os[t], elder, p))
  /\ a = [pc |-> "passed", prose |-> p, elder |-> elder, allow |-> allow, txid |-> t]
AuditOK(a, os, ss) ==
  \/ a = NoAudit
  \/ \E p : HasRead(a, p)
  \/ \E p, elder, allow : HasTrusted(a, ss, p, elder, allow)
  \/ \E p, elder, allow, t : HasPassed(a, os, ss, p, elder, allow, t)

SignedRecord == [key : Keys, prose : Proses, hash : Proses \X Bindings]
Output == [kind : {"ricardiantea", "agenttea"}, owner : Keys, binding : Bindings \cup {None},
           hash : (Proses \X Bindings) \cup {NameHash}, params : SUBSET LineOf]
CharterInv ==
  /\ prose \in Proses /\ signed \in Seq(SignedRecord) /\ outputs \in Seq(Output)
  /\ SidecarOK(sidecar, signed) /\ DeployOK(deploy, signed) /\ AuditOK(audit, outputs, signed)
  /\ \A t \in 1..Len(outputs) : OutputOK(outputs[t], signed)

(* A prose of the repository: what is accepted, and its parameters.         *)
LEMMA ProseParses ==
  ASSUME NEW p \in Proses
  PROVE  /\ Parses(p) <=> WellFormed(p)
         /\ Parses(p) => parse_charter_params(p).params = ToSet(p.lines) /\ ToSet(p.lines) \in SUBSET LineOf
PROOF
<1>1. p.block \in BOOLEAN /\ p.lines \in Seq(LineOf)
  BY CharterConstants DEF Proses, LineOf
<1>2. ToSet(p.lines) \in SUBSET LineOf
  BY <1>1 DEF ToSet
<1> QED BY <1>1, <1>2, ParsesAccepted, AcceptedWellFormed

(* Nothing that holds of the history is lost when it grows.                 *)
LEMMA HistoryGrows ==
  ASSUME NEW ss \in Seq(SignedRecord), NEW r \in SignedRecord, NEW tt, tt = Append(ss, r)
  PROVE  /\ \A key, p, b : MadeFrom(ss, key, p, b) => MadeFrom(tt, key, p, b)
         /\ \A elder, allow, p : ElderSigned(elder, allow, p, ss) => ElderSigned(elder, allow, p, tt)
         /\ \A c : SidecarOK(c, ss) => SidecarOK(c, tt)
         /\ \A d : DeployOK(d, ss) => DeployOK(d, tt)
         /\ \A o : OutputOK(o, ss) => OutputOK(o, tt)
         /\ \A a, os : AuditOK(a, os, ss) => AuditOK(a, os, tt)
PROOF
<1>1. Len(tt) = Len(ss) + 1 /\ \A i \in 1..Len(ss) : i \in 1..Len(tt) /\ tt[i] = ss[i]
  OBVIOUS
<1>2. \A key, p, b : MadeFrom(ss, key, p, b) => MadeFrom(tt, key, p, b)
  BY <1>1 DEF MadeFrom, SignedIn
<1>3. \A elder, allow, p : ElderSigned(elder, allow, p, ss) => ElderSigned(elder, allow, p, tt)
  BY <1>1 DEF ElderSigned
<1>4. \A c : SidecarOK(c, ss) => SidecarOK(c, tt)
  BY <1>2, Zenon DEF SidecarOK
<1>5. \A d : DeployOK(d, ss) => DeployOK(d, tt)
  BY <1>2, Zenon DEF DeployOK
<1>6. \A o : OutputOK(o, ss) => OutputOK(o, tt)
  BY <1>2, Zenon DEF OutputOK
<1>7. \A a, os : AuditOK(a, os, ss) => AuditOK(a, os, tt)
  <2>1. \A a, p, elder, allow : HasTrusted(a, ss, p, elder, allow) => HasTrusted(a, tt, p, elder, allow)
    BY <1>3 DEF HasTrusted
  <2>2. \A a, os, p, elder, allow, t : HasPassed(a, os, ss, p, elder, allow, t) => HasPassed(a, os, tt, p, elder, allow, t)
    BY <1>3 DEF HasPassed
  <2> QED BY <2>1, <2>2, Zenon DEF AuditOK
<1> QED BY <1>2, <1>3, <1>4, <1>5, <1>6, <1>7

(* Nor is what an audit found on the chain.                                 *)
LEMMA ChainGrows ==
  ASSUME NEW os \in Seq(Output), NEW o \in Output, NEW ss, NEW a, AuditOK(a, os, ss)
  PROVE  AuditOK(a, Append(os, o), ss)
PROOF
<1>1. Len(Append(os, o)) = Len(os) + 1 /\ Len(os) \in Nat /\ \A t \in 1..Len(os) : Append(os, o)[t] = os[t]
  OBVIOUS
<1>2. PICK us : us = Append(os, o)
  OBVIOUS
<1>3. \A t \in 0..Len(os) : t \in 0..Len(us) /\ (t # 0 => us[t] = os[t])
  BY <1>1, <1>2
<1>4. AuditOK(a, us, ss)
  <2>1. \A p, elder, allow, t : HasPassed(a, os, ss, p, elder, allow, t) => HasPassed(a, us, ss, p, elder, allow, t)
    BY <1>3, Zenon DEF HasPassed
  <2> QED BY <2>1, Zenon DEF AuditOK
<1> QED BY <1>2, <1>4

(* Holding the invariant through a step, action by action.                  *)
LEMMA DeployBeginsKeeps ==
  ASSUME CharterInv, DeployBegins PROVE CharterInv'
PROOF
<1>a. PICK key \in Keys, b \in Bindings : \E i \in build_atlas_instance(prose, key, b) :
        /\ deploy' = [pc |-> "sign", instance |-> i, sig |-> sign_charter(prose, b, key)]
        /\ signed' = Append(signed, [key |-> key, prose |-> prose, hash |-> compute_ricardian_hash(prose, b)])
  BY DEF DeployBegins
<1>1. PICK i \in build_atlas_instance(prose, key, b) :
        /\ deploy' = [pc |-> "sign", instance |-> i, sig |-> sign_charter(prose, b, key)]
        /\ signed' = Append(signed, [key |-> key, prose |-> prose, hash |-> compute_ricardian_hash(prose, b)])
  BY <1>a
<1>2. UNCHANGED <<prose, sidecar, outputs, audit>>
  BY DEF DeployBegins
<1>3. prose \in Proses /\ signed \in Seq(SignedRecord) /\ outputs \in Seq(Output)
  BY DEF CharterInv
<1>4. Parses(prose) /\ i = IdentityOf(prose, key, b)
  <2>1. Parses(prose) /\ i = [kind |-> "ricardiantea", owner |-> key, binding |-> b,
           hash |-> compute_ricardian_hash(prose, b), params |-> parse_charter_params(prose).params]
    BY <1>1 DEF build_atlas_instance
  <2> QED BY <1>3, <2>1, ProseParses DEF IdentityOf, compute_ricardian_hash
<1>5. PICK r \in SignedRecord : r = [key |-> key, prose |-> prose, hash |-> <<prose, b>>]
  BY <1>3 DEF SignedRecord
<1>6. signed' = Append(signed, r)
  BY <1>1, <1>5 DEF compute_ricardian_hash
<1>7. signed' \in Seq(SignedRecord)
  BY <1>3, <1>6
<1>8. MadeFrom(signed', key, prose, b)
  <2>1. Len(signed) + 1 \in 1..Len(signed') /\ signed'[Len(signed) + 1] = r
    BY <1>3, <1>6
  <2>2. r.key = key /\ r.prose = prose /\ r.hash = <<prose, b>>
    BY <1>5
  <2>3. SignedIn(signed', key, prose, b)
    BY <2>1, <2>2 DEF SignedIn
  <2> QED BY <1>3, <1>4, <2>3 DEF MadeFrom
<1>9. DeployOK(deploy', signed')
  BY <1>1, <1>4, <1>8, Zenon DEF DeployOK
<1>10. SidecarOK(sidecar, signed) /\ AuditOK(audit, outputs, signed) /\ \A t \in 1..Len(outputs) : OutputOK(outputs[t], signed)
  BY DEF CharterInv
<1>11. SidecarOK(sidecar, signed') /\ AuditOK(audit, outputs, signed') /\ \A t \in 1..Len(outputs) : OutputOK(outputs[t], signed')
  BY <1>3, <1>6, <1>10, HistoryGrows
<1> QED BY <1>2, <1>3, <1>7, <1>9, <1>11 DEF CharterInv

LEMMA DeployStepKeeps ==
  ASSUME CharterInv, OpenSidecar \/ WriteSidecar \/ DeployEnds PROVE CharterInv'
PROOF
<1>1. UNCHANGED <<prose, outputs, audit, signed>>
  BY DEF OpenSidecar, WriteSidecar, DeployEnds
<1>2. SidecarOK(sidecar, signed) /\ DeployOK(deploy, signed)
  BY DEF CharterInv
<1>3. NoDeploy.pc = "idle"
  BY DEF NoDeploy
<1>4. SidecarOK(sidecar', signed) /\ DeployOK(deploy', signed)
  <2>1. CASE DeployEnds
    BY <1>2, <2>1 DEF DeployEnds, DeployOK
  <2>2. CASE OpenSidecar \/ WriteSidecar
    <3>1. deploy # NoDeploy
      BY <1>3, <2>2 DEF OpenSidecar, WriteSidecar
    <3>2. PICK pc, key, p, b :
            pc \in {"sign", "write", "gate"} /\ MadeFrom(signed, key, p, b)
            /\ deploy = [pc |-> pc, instance |-> IdentityOf(p, key, b), sig |-> sign_charter(p, b, key)]
      BY <1>2, <3>1 DEF DeployOK
    <3>3. PICK j, g : j = IdentityOf(p, key, b) /\ g = sign_charter(p, b, key)
      OBVIOUS
    <3>4. deploy = [pc |-> pc, instance |-> j, sig |-> g]
      BY <3>2, <3>3
    <3>5. CASE OpenSidecar
      <4>1. deploy' = [pc |-> "write", instance |-> j, sig |-> g] /\ sidecar' = Partial
        BY <3>4, <3>5 DEF OpenSidecar
      <4> QED BY <3>2, <3>3, <4>1, Zenon DEF SidecarOK, DeployOK
    <3>6. CASE WriteSidecar
      <4>1. deploy' = [pc |-> "gate", instance |-> j, sig |-> g] /\ sidecar' = g
        BY <3>4, <3>6 DEF WriteSidecar
      <4> QED BY <3>2, <3>3, <4>1, Zenon DEF SidecarOK, DeployOK
    <3> QED BY <2>2, <3>5, <3>6
  <2> QED BY <2>1, <2>2
<1>5. prose \in Proses /\ signed \in Seq(SignedRecord) /\ outputs \in Seq(Output) /\ AuditOK(audit, outputs, signed)
      /\ \A t \in 1..Len(outputs) : OutputOK(outputs[t], signed)
  BY DEF CharterInv
<1> QED BY <1>1, <1>4, <1>5 DEF CharterInv

(* One more output on the chain, of deploy or of agentd.                    *)
LEMMA OutputKeeps ==
  ASSUME CharterInv, NEW o \in Output, OutputOK(o, signed), outputs' = Append(outputs, o),
         deploy' \in {deploy, NoDeploy}, UNCHANGED <<prose, sidecar, audit, signed>>
  PROVE  CharterInv'
PROOF
<1>1. prose \in Proses /\ signed \in Seq(SignedRecord) /\ outputs \in Seq(Output) /\ AuditOK(audit, outputs, signed)
      /\ SidecarOK(sidecar, signed) /\ DeployOK(deploy, signed)
      /\ \A t \in 1..Len(outputs) : OutputOK(outputs[t], signed)
  BY DEF CharterInv
<1>2. DeployOK(deploy', signed)
  BY <1>1 DEF DeployOK
<1>3. outputs' \in Seq(Output) /\ AuditOK(audit, outputs', signed)
  BY <1>1, ChainGrows
<1>4. \A t \in 1..Len(outputs') : outputs'[t] = o \/ (t \in 1..Len(outputs) /\ outputs'[t] = outputs[t])
  BY <1>1
<1>5. \A t \in 1..Len(outputs') : OutputOK(outputs'[t], signed)
  BY <1>1, <1>4
<1> QED BY <1>1, <1>2, <1>3, <1>5 DEF CharterInv

LEMMA DeployBroadcastKeeps ==
  ASSUME CharterInv, DeployBroadcast PROVE CharterInv'
PROOF
<1>1. deploy # NoDeploy
  BY DEF DeployBroadcast, NoDeploy
<1>2. PICK pc, key, p, b :
        pc \in {"sign", "write", "gate"} /\ MadeFrom(signed, key, p, b)
        /\ deploy = [pc |-> pc, instance |-> IdentityOf(p, key, b), sig |-> sign_charter(p, b, key)]
  BY <1>1 DEF CharterInv, DeployOK
<1>3. PICK o : o = IdentityOf(p, key, b)
  OBVIOUS
<1>4. deploy.instance = o
  <2>1. PICK g : g = sign_charter(p, b, key)
    OBVIOUS
  <2>2. deploy = [pc |-> pc, instance |-> o, sig |-> g]
    BY <1>2, <1>3, <2>1
  <2> QED BY <2>2
<1>5. p \in Proses /\ Parses(p) /\ key \in Keys /\ b \in Bindings
  BY <1>2 DEF MadeFrom
<1>6. o \in Output
  <2>1. PICK v \in SUBSET LineOf : v = ToSet(p.lines)
    BY <1>5, ProseParses
  <2> QED BY <1>3, <1>5, <2>1 DEF Output, IdentityOf
<1>7. OutputOK(o, signed)
  BY <1>2, <1>3, Zenon DEF OutputOK
<1> QED BY <1>4, <1>6, <1>7, OutputKeeps DEF DeployBroadcast

LEMMA AgentdDeploysKeeps ==
  ASSUME CharterInv, AgentdDeploys PROVE CharterInv'
PROOF
<1>1. PICK key \in Keys, rhash \in RICARDIAN_HASH \cup {NameHash} :
        outputs' = <<AgentTeaIdentity(key, rhash, AgentdLimits)>>
  BY DEF AgentdDeploys
<1>2. rhash \in (Proses \X Bindings) \cup {NameHash}
  BY DEF RICARDIAN_HASH, compute_ricardian_hash, Proses
<1>3. PICK v \in SUBSET LineOf : v = AgentdLimits
  BY CharterConstants DEF LineOf
<1>4. PICK o \in Output : o = [kind |-> "agenttea", owner |-> key, binding |-> None, hash |-> rhash, params |-> v]
  BY <1>2 DEF Output
<1>5. o.kind # "ricardiantea"
  BY <1>4
<1>6. outputs = <<>> /\ outputs' = <<o>>
  BY <1>1, <1>3, <1>4 DEF AgentdDeploys, AgentTeaIdentity
<1>7. outputs' = Append(outputs, o)
  BY <1>6
<1> QED BY <1>5, <1>7, OutputKeeps DEF AgentdDeploys, OutputOK

(* The steps of the audit and of the people, which sign nothing and put     *)
(* nothing on the chain.                                                    *)
LEMMA OthersKeep ==
  ASSUME CharterInv, prose' \in Proses, SidecarOK(sidecar', signed), AuditOK(audit', outputs, signed),
         UNCHANGED <<outputs, deploy, signed>>
  PROVE  CharterInv'
PROOF
<1>1. signed \in Seq(SignedRecord) /\ outputs \in Seq(Output) /\ DeployOK(deploy, signed)
      /\ \A t \in 1..Len(outputs) : OutputOK(outputs[t], signed)
  BY DEF CharterInv
<1> QED BY <1>1 DEF CharterInv

LEMMA ReadProseKeeps == ASSUME CharterInv, ReadProse PROVE CharterInv'
PROOF
<1>1. prose \in Proses /\ SidecarOK(sidecar, signed)
  BY DEF CharterInv
<1>2. HasRead(audit', prose)
  BY <1>1 DEF ReadProse, HasRead
<1>3. AuditOK(audit', outputs, signed)
  BY <1>2, Zenon DEF AuditOK
<1> QED BY <1>1, <1>3, OthersKeep DEF ReadProse, AuditUnchanged

(* Under a pinned Elder only a sidecar that the Elder signed for this prose *)
(* is accepted.                                                             *)
LEMMA AcceptedIsSigned ==
  ASSUME CharterInv, NEW elder, NEW allow, SidecarAccepted(elder, allow)
  PROVE  ElderSigned(elder, allow, audit.prose, signed)
PROOF
<1> SUFFICES ASSUME elder # None, ~ allow
             PROVE  \E i \in 1..Len(signed) : signed[i].key = elder /\ signed[i].prose = audit.prose
  BY DEF ElderSigned
<1>1. /\ sidecar # None /\ sidecar # Partial
      /\ verify_charter_signature(audit.prose, sidecar) /\ sidecar.issuer_pubkey = elder
  BY DEF SidecarAccepted, issuer_trusted
<1>2. PICK key, p, b : MadeFrom(signed, key, p, b) /\ sidecar = sign_charter(p, b, key)
  BY <1>1 DEF CharterInv, SidecarOK
<1>3. sidecar.issuer_pubkey = key /\ sidecar.binding = b /\ sidecar.ricardian_hash = <<p, b>>
  BY <1>2 DEF sign_charter, compute_ricardian_hash
<1>4. sidecar.ricardian_hash = <<audit.prose, sidecar.binding>>
  BY <1>1 DEF verify_charter_signature, compute_ricardian_hash
<1>5. p = audit.prose /\ key = elder
  BY <1>1, <1>3, <1>4
<1> QED BY <1>2, <1>5 DEF MadeFrom, SignedIn

LEMMA ReadSidecarKeeps == ASSUME CharterInv, ReadSidecar PROVE CharterInv'
PROOF
<1>1. prose \in Proses /\ SidecarOK(sidecar, signed) /\ AuditOK(audit, outputs, signed)
  BY DEF CharterInv
<1>2. AuditOK(audit', outputs, signed)
  <2>1. CASE AuditFails
    BY <2>1, Zenon DEF AuditFails, AuditOK
  <2>2. CASE ~ AuditFails
    <3>1. PICK elder \in Keys \cup {None}, allow \in BOOLEAN :
            /\ SidecarAccepted(elder, allow)
            /\ audit' = [pc |-> "chain", prose |-> audit.prose, elder |-> elder, allow |-> allow]
      BY <2>2 DEF ReadSidecar
    <3>2. audit.pc = "sig"
      BY DEF ReadSidecar
    <3>3. PICK p : HasRead(audit, p)
      BY <1>1, <3>2 DEF AuditOK, NoAudit, HasTrusted, HasPassed
    <3>4. audit.prose = p /\ p \in Proses /\ Parses(p)
      BY <3>3 DEF HasRead
    <3>5. HasTrusted(audit', signed, p, elder, allow)
      BY <3>1, <3>4, AcceptedIsSigned DEF HasTrusted
    <3> QED BY <3>5, Zenon DEF AuditOK
  <2> QED BY <2>1, <2>2
<1> QED BY <1>1, <1>2, OthersKeep DEF ReadSidecar, AuditUnchanged

(* A RicardianTea output that is one of the expected scripts is the Elder's *)
(* and commits to the prose that was audited.                               *)
LEMMA ExpectedMatches ==
  ASSUME NEW elder, NEW b, NEW h, NEW o \in Expected(elder, b, h)
  PROVE  OutputMatches(o, elder, audit.prose)
PROOF
<1>1. PICK p, v : p = audit.prose /\ v = parse_charter_params(p).params
  OBVIOUS
<1>2. o \in build_ricardiantea_script(elder, b) \/ o \in build_agenttea_script(elder, h)
  BY DEF Expected
<1>3. CASE o \in build_ricardiantea_script(elder, b)
  <2>1. o = [kind |-> "ricardiantea", owner |-> elder, binding |-> b, hash |-> <<p, b>>, params |-> v]
    BY <1>1, <1>3 DEF build_ricardiantea_script, build_atlas_instance, compute_ricardian_hash
  <2> QED BY <1>1, <2>1 DEF OutputMatches
<1>4. CASE o \in build_agenttea_script(elder, h)
  <2>1. o = [kind |-> "agenttea", owner |-> elder, binding |-> None, hash |-> h, params |-> v]
    BY <1>1, <1>4 DEF build_agenttea_script, AgentTeaIdentity
  <2> QED BY <2>1 DEF OutputMatches
<1> QED BY <1>2, <1>3, <1>4

LEMMA CheckChainKeeps == ASSUME CharterInv, CheckChain PROVE CharterInv'
PROOF
<1>1. prose \in Proses /\ SidecarOK(sidecar, signed) /\ AuditOK(audit, outputs, signed) /\ outputs \in Seq(Output)
  BY DEF CharterInv
<1>2. audit.pc = "chain"
  BY DEF CheckChain
<1>3. PICK p, elder, allow : HasTrusted(audit, signed, p, elder, allow)
  BY <1>1, <1>2 DEF AuditOK, NoAudit, HasRead, HasPassed
<1>4. audit.prose = p /\ audit.elder = elder /\ audit.allow = allow
      /\ p \in Proses /\ Parses(p) /\ ElderSigned(elder, allow, p, signed)
  BY <1>3 DEF HasTrusted
<1>5. PICK n \in Nat : n = Len(outputs)
  BY <1>1
<1>6. ASSUME NEW t \in 0..n, Passed(t), t # 0 => OutputMatches(outputs[t], elder, p)
      PROVE  AuditOK(audit', outputs, signed)
  <2>1. HasPassed(audit', outputs, signed, p, elder, allow, t)
    BY <1>4, <1>5, <1>6 DEF Passed, HasPassed
  <2> QED BY <2>1, Zenon DEF AuditOK
<1>7. AuditOK(audit', outputs, signed)
  <2>1. CASE AuditFails
    BY <2>1, Zenon DEF AuditFails, AuditOK
  <2>2. CASE Passed(0)
    <3>1. 0 \in 0..n
      OBVIOUS
    <3> QED BY <1>6, <2>2, <3>1
  <2>3. CASE \E t \in 1..Len(outputs), b \in Bindings, h \in {o.hash : o \in ToSet(outputs)} :
               outputs[t] \in Expected(audit.elder, b, h) /\ Passed(t)
    <3>1. PICK t, b, h : t \in 1..n /\ outputs[t] \in Expected(elder, b, h) /\ Passed(t)
      BY <1>4, <1>5, <2>3
    <3>2. OutputMatches(outputs[t], elder, p)
      BY <1>4, <3>1, ExpectedMatches
    <3>3. t \in 0..n
      BY <3>1
    <3> QED BY <1>6, <3>1, <3>2, <3>3
  <2> QED BY <2>1, <2>2, <2>3 DEF CheckChain
<1> QED BY <1>1, <1>7, OthersKeep DEF CheckChain, AuditUnchanged

(* The three that make no new claim.                                        *)
LEMMA RestKeeps == ASSUME CharterInv, AuditEnds \/ Edit \/ LoseSidecar PROVE CharterInv'
PROOF
<1>1. prose \in Proses /\ SidecarOK(sidecar, signed) /\ AuditOK(audit, outputs, signed)
  BY DEF CharterInv
<1>2. SidecarOK(None, signed) /\ AuditOK(NoAudit, outputs, signed)
  BY DEF SidecarOK, AuditOK
<1>3. CASE AuditEnds
  BY <1>1, <1>2, <1>3, OthersKeep DEF AuditEnds, AuditFails, AuditUnchanged
<1>4. CASE Edit
  BY <1>1, <1>4, OthersKeep DEF Edit, Proses
<1>5. CASE LoseSidecar
  BY <1>1, <1>2, <1>5, OthersKeep DEF LoseSidecar
<1> QED BY <1>3, <1>4, <1>5

(* The invariant of the charter: whatever is written beside the prose, held *)
(* by a running deploy or audit or put on the chain was made from one prose *)
(* that parsed and that its issuer signed.                                  *)
THEOREM CharterInvariant == CharterSpec => []CharterInv
PROOF
<1>1. CharterInit => CharterInv
  <2> SUFFICES ASSUME CharterInit PROVE CharterInv
    OBVIOUS
  <2>1. prose \in Proses /\ outputs = <<>> /\ signed = <<>>
    BY DEF CharterInit, Proses
  <2>2. outputs \in Seq(Output) /\ signed \in Seq(SignedRecord) /\ \A t \in 1..Len(outputs) : OutputOK(outputs[t], signed)
    BY <2>1
  <2>3. SidecarOK(sidecar, signed) /\ DeployOK(deploy, signed) /\ AuditOK(audit, outputs, signed)
    BY DEF CharterInit, SidecarOK, DeployOK, AuditOK
  <2> QED BY <2>1, <2>2, <2>3 DEF CharterInv
<1>2. CharterInv /\ [CharterNext]_charterVars => CharterInv'
  <2> SUFFICES ASSUME CharterInv, [CharterNext]_charterVars PROVE CharterInv'
    OBVIOUS
  <2>1. CASE UNCHANGED charterVars
    BY <2>1 DEF charterVars, CharterInv
  <2>2. CASE DeployRefused
    BY <2>1, <2>2 DEF DeployRefused
  <2>3. CASE DeployBegins
    BY <2>3, DeployBeginsKeeps
  <2>4. CASE OpenSidecar \/ WriteSidecar \/ DeployEnds
    BY <2>4, DeployStepKeeps
  <2>5. CASE DeployBroadcast
    BY <2>5, DeployBroadcastKeeps
  <2>6. CASE ReadProse
    BY <2>6, ReadProseKeeps
  <2>7. CASE ReadSidecar
    BY <2>7, ReadSidecarKeeps
  <2>8. CASE CheckChain
    BY <2>8, CheckChainKeeps
  <2>9. CASE AuditEnds \/ Edit \/ LoseSidecar
    BY <2>9, RestKeeps
  <2>10. CASE AgentdDeploys
    BY <2>10, AgentdDeploysKeeps
  <2> QED BY <2>1, <2>2, <2>3, <2>4, <2>5, <2>6, <2>7, <2>8, <2>9, <2>10 DEF CharterNext
<1> QED BY <1>1, <1>2, PTL DEF CharterSpec

(* A prose is accepted exactly when its block holds each required parameter *)
(* once, positive, and nothing else; and every identity that deploy put on  *)
(* the chain carries the parameters of the prose its hash commits to, which *)
(* its owner signed, however the files changed meanwhile: for every set of  *)
(* parameters, proses, keys and bindings and any number of deployments.     *)
THEOREM CharterPolicyFollowsProse == CharterSpec => []PolicyFollowsProse
PROOF
<1>1. CharterInv => PolicyFollowsProse
  <2> SUFFICES ASSUME CharterInv PROVE PolicyFollowsProse
    OBVIOUS
  <2>1. Parses(prose) <=> WellFormed(prose)
    BY ProseParses DEF CharterInv
  <2>2. ASSUME NEW t \in 1..Len(outputs), outputs[t].kind = "ricardiantea"
        PROVE  /\ \E i \in 1..Len(signed) : signed[i].key = outputs[t].owner /\ signed[i].hash = outputs[t].hash
               /\ outputs[t].params = ToSet(outputs[t].hash[1].lines) /\ WellFormed(outputs[t].hash[1])
               /\ outputs[t].hash[2] = outputs[t].binding
    <3>1. PICK key, p, b : MadeFrom(signed, key, p, b) /\ outputs[t] = IdentityOf(p, key, b)
      BY <2>2 DEF CharterInv, OutputOK
    <3>2. PICK v : v = ToSet(p.lines)
      OBVIOUS
    <3>3. outputs[t] = [kind |-> "ricardiantea", owner |-> key, binding |-> b, hash |-> <<p, b>>, params |-> v]
      BY <3>1, <3>2 DEF IdentityOf
    <3>4. outputs[t].owner = key /\ outputs[t].hash = <<p, b>> /\ outputs[t].hash[1] = p /\ outputs[t].hash[2] = b
          /\ outputs[t].binding = b /\ outputs[t].params = v
      BY <3>3
    <3>5. WellFormed(p)
      BY <3>1, ProseParses DEF MadeFrom
    <3>6. \E i \in 1..Len(signed) : signed[i].key = key /\ signed[i].hash = <<p, b>>
      BY <3>1 DEF MadeFrom, SignedIn
    <3> QED BY <3>2, <3>4, <3>5, <3>6
  <2> QED BY <2>1, <2>2 DEF PolicyFollowsProse
<1> QED BY <1>1, CharterInvariant, PTL

(* An audit that passes under a pinned Elder means that the Elder signed    *)
(* the prose that was read; if it names a RicardianTea output, the Elder    *)
(* signed that prose with the binding the output commits to, pinned or not: *)
(* for every order of edits, deployments, losses of the sidecar and audits. *)
THEOREM CharterAuditMeansSigned == CharterSpec => []AuditMeansSigned
PROOF
<1>1. CharterInv => AuditMeansSigned
  <2> SUFFICES ASSUME CharterInv, audit.pc = "passed" PROVE AuditMeansSigned
    BY DEF AuditMeansSigned
  <2>1. PICK p, elder, allow, t : HasPassed(audit, outputs, signed, p, elder, allow, t)
    BY DEF CharterInv, AuditOK, NoAudit, HasRead, HasTrusted
  <2>2. audit.prose = p /\ audit.elder = elder /\ audit.allow = allow /\ audit.txid = t
    BY <2>1 DEF HasPassed
  <2>3. ElderSigned(elder, allow, p, signed) /\ (t # 0 => OutputMatches(outputs[t], elder, p))
    BY <2>1 DEF HasPassed
  <2>4. ASSUME t # 0, outputs[t].kind = "ricardiantea"
        PROVE  \E i \in 1..Len(signed) :
                 signed[i].key = elder /\ signed[i].prose = p /\ signed[i].hash = outputs[t].hash
    <3>1. t \in 1..Len(outputs)
      BY <2>1, <2>4 DEF HasPassed, CharterInv
    <3>2. PICK key, q, b : MadeFrom(signed, key, q, b) /\ outputs[t] = IdentityOf(q, key, b)
      BY <2>4, <3>1 DEF CharterInv, OutputOK
    <3>3. PICK v : v = ToSet(q.lines)
      OBVIOUS
    <3>4. outputs[t] = [kind |-> "ricardiantea", owner |-> key, binding |-> b, hash |-> <<q, b>>, params |-> v]
      BY <3>2, <3>3 DEF IdentityOf
    <3>5. outputs[t].owner = key /\ outputs[t].hash = <<q, b>>
      BY <3>4
    <3>6. key = elder /\ q = p
      BY <2>3, <2>4, <3>5 DEF OutputMatches
    <3> QED BY <3>2, <3>5, <3>6 DEF MadeFrom, SignedIn
  <2> QED BY <2>2, <2>3, <2>4 DEF AuditMeansSigned, ElderSigned
<1> QED BY <1>1, CharterInvariant, PTL

-----------------------------------------------------------------------------
(* The registry: lists without two records of one extension, and the pieces *)
(* of the log.                                                              *)
Rec == [id : Extensions, version : Int, publish_ref : {"absent", "empty", "given"}]
PieceSet == [op : {"install", "uninstall"}, rec : Rec, whole : BOOLEAN, newline : BOOLEAN]
Distinct(l) == \A i, j \in 1..Len(l) : i # j => l[i].id # l[j].id
Settled(l) == \A i \in 1..Len(l) : replayed(l[i]) = l[i]
Registry(l) == l \in Seq(Rec) /\ Distinct(l)

LEMMA ReplayedIs ==
  ASSUME NEW r \in Rec
  PROVE  replayed(r) \in Rec /\ replayed(r).id = r.id /\ replayed(replayed(r)) = replayed(r)
PROOF
<1>1. PICK i \in Extensions, v \in Int, p \in {"absent", "empty", "given"} : r = [id |-> i, version |-> v, publish_ref |-> p]
  BY DEF Rec
<1>2. CASE p = "empty"
  <2>1. replayed(r) = [id |-> i, version |-> v, publish_ref |-> "absent"]
    BY <1>1, <1>2 DEF replayed
  <2> QED BY <1>1, <2>1 DEF replayed, Rec
<1>3. CASE p # "empty"
  BY <1>1, <1>3 DEF replayed, Rec
<1> QED BY <1>2, <1>3

(* The smallest index of a set of indexes is one of them.                   *)
LEMMA MinIn ==
  ASSUME NEW n \in Nat, NEW s \in SUBSET (1..n), s # {} PROVE Min(s) \in s
PROOF
<1> DEFINE T == {1..x : x \in s}
<1>1. T \subseteq SUBSET (1..n) /\ T # {}
  <2>1. \A x \in s : x \in 1..n /\ 1..x \in SUBSET (1..n)
    OBVIOUS
  <2> QED BY <2>1
<1> HIDE DEF T
<1>3. PICK t \in T : \A y \in T : y \subseteq t => y = t
  <2>1. PICK x : Smallest(x, T)
    BY <1>1, SmallestIndexes
  <2> QED BY <2>1 DEF Smallest
<1>4. PICK x \in s : t = 1..x
  BY <1>3 DEF T
<1>5. ASSUME NEW y \in s PROVE x <= y
  <2>1. SUFFICES ASSUME y < x PROVE FALSE
    OBVIOUS
  <2>2. 1..y \in T /\ 1..y \subseteq 1..x
    BY <2>1 DEF T
  <2>3. 1..y = 1..x
    BY <1>3, <1>4, <2>2
  <2>4. x \in 1..x /\ x \notin 1..y
    BY <2>1
  <2> QED BY <2>3, <2>4
<1>6. \E z \in s : \A y \in s : z <= y
  BY <1>5
<1> QED BY <1>6, Zenon DEF Min

(* The lookup.                                                              *)
LEMMA FindIs ==
  ASSUME NEW l \in Seq(Rec), NEW id
  PROVE  \/ find_idx(l, id) = 0 /\ \A i \in 1..Len(l) : l[i].id # id
         \/ find_idx(l, id) \in 1..Len(l) /\ l[find_idx(l, id)].id = id
PROOF
<1>1. PICK n \in Nat : n = Len(l)
  OBVIOUS
<1> DEFINE I == {i \in 1..n : l[i].id = id}
<1>2. find_idx(l, id) = IF I # {} THEN Min(I) ELSE 0
  BY <1>1, Zenon DEF find_idx, SelectInSeq
<1>3. CASE I = {}
  BY <1>1, <1>2, <1>3
<1>4. CASE I # {}
  <2>1. I \in SUBSET (1..n)
    OBVIOUS
  <2> HIDE DEF I
  <2>2. Min(I) \in I
    BY <1>4, <2>1, MinIn
  <2>3. find_idx(l, id) \in I
    BY <1>2, <1>4, <2>2
  <2> QED BY <1>1, <2>3 DEF I
<1> QED BY <1>3, <1>4

(* The deletion.                                                            *)
LEMMA SliceIs ==
  ASSUME NEW S, NEW l \in Seq(S), NEW m \in Nat \ {0}, NEW n \in Nat, m <= n + 1, n <= Len(l)
  PROVE  /\ SubSeq(l, m, n) \in Seq(S) /\ Len(SubSeq(l, m, n)) = n - m + 1
         /\ \A j \in 1..(n - m + 1) : SubSeq(l, m, n)[j] = l[m + j - 1]
PROOF
<1>1. \A j \in m..n : l[j] \in S
  OBVIOUS
<1>2. m \in Int /\ n \in Int
  OBVIOUS
<1>3. /\ SubSeq(l, m, n) \in Seq(S)
      /\ Len(SubSeq(l, m, n)) = IF m <= n THEN n - m + 1 ELSE 0
      /\ \A j \in 1..(n - m + 1) : SubSeq(l, m, n)[j] = l[m + j - 1]
  BY <1>1, <1>2, SubSeqProperties
<1>4. (IF m <= n THEN n - m + 1 ELSE 0) = n - m + 1
  OBVIOUS
<1> QED BY <1>3, <1>4

LEMMA DeleteIs ==
  ASSUME NEW l \in Seq(Rec), NEW n \in Nat, n = Len(l), NEW i \in 1..n
  PROVE  /\ store_delete_idx(l, i) \in Seq(Rec) /\ Len(store_delete_idx(l, i)) = n - 1
         /\ \A j \in 1..(n - 1) : store_delete_idx(l, i)[j] = IF j < i THEN l[j] ELSE l[j + 1]
PROOF
<1>2. PICK a \in Seq(Rec) : a = SubSeq(l, 1, i - 1) /\ Len(a) = i - 1 /\ \A j \in 1..(i - 1) : a[j] = l[j]
  <2>1. 1 \in Nat \ {0} /\ i - 1 \in Nat /\ 1 <= (i - 1) + 1 /\ i - 1 <= Len(l) /\ i - 1 - 1 + 1 = i - 1
    OBVIOUS
  <2>2. \A j \in 1..(i - 1) : 1 + j - 1 = j
    OBVIOUS
  <2>3. SubSeq(l, 1, i - 1) \in Seq(Rec) /\ Len(SubSeq(l, 1, i - 1)) = i - 1
        /\ \A j \in 1..(i - 1) : SubSeq(l, 1, i - 1)[j] = l[1 + j - 1]
    BY <2>1, SliceIs
  <2> QED BY <2>2, <2>3
<1>3. PICK b \in Seq(Rec) : b = SubSeq(l, i + 1, n) /\ Len(b) = n - i /\ \A j \in 1..(n - i) : b[j] = l[i + j]
  <2>1. i + 1 \in Nat \ {0} /\ i + 1 <= n + 1 /\ n <= Len(l) /\ n - (i + 1) + 1 = n - i
    OBVIOUS
  <2>2. \A j \in 1..(n - i) : i + 1 + j - 1 = i + j
    OBVIOUS
  <2>3. SubSeq(l, i + 1, n) \in Seq(Rec) /\ Len(SubSeq(l, i + 1, n)) = n - i
        /\ \A j \in 1..(n - i) : SubSeq(l, i + 1, n)[j] = l[i + 1 + j - 1]
    BY <2>1, SliceIs
  <2> QED BY <2>2, <2>3
<1>4. store_delete_idx(l, i) = a \o b
  BY <1>2, <1>3 DEF store_delete_idx, RemoveAt
<1>a. Len(a) = i - 1 /\ \A j \in 1..(i - 1) : a[j] = l[j]
  BY <1>2
<1>b. Len(b) = n - i /\ \A j \in 1..(n - i) : b[j] = l[i + j]
  BY <1>3
<1>c. PICK c \in Seq(Rec) : c = a \o b /\ Len(c) = Len(a) + Len(b)
        /\ \A j \in 1..(Len(a) + Len(b)) : c[j] = IF j <= Len(a) THEN a[j] ELSE b[j - Len(a)]
  <2>1. /\ a \o b \in Seq(Rec) /\ Len(a \o b) = Len(a) + Len(b)
        /\ \A j \in 1..(Len(a) + Len(b)) : (a \o b)[j] = IF j <= Len(a) THEN a[j] ELSE b[j - Len(a)]
    BY ConcatProperties
  <2> QED BY <2>1, Zenon
<1>d. (i - 1) + (n - i) = n - 1
  OBVIOUS
<1>5. Len(c) = n - 1 /\ \A j \in 1..(n - 1) : c[j] = IF j <= i - 1 THEN a[j] ELSE b[j - (i - 1)]
  BY <1>a, <1>b, <1>c, <1>d, Zenon
<1>6. ASSUME NEW j \in 1..(n - 1) PROVE c[j] = IF j < i THEN l[j] ELSE l[j + 1]
  <2>1. CASE j < i
    <3>1. j \in 1..(i - 1) /\ j <= i - 1
      BY <2>1
    <3> QED BY <1>5, <1>a, <2>1, <3>1
  <2>2. CASE ~ (j < i)
    <3>1. j - (i - 1) \in 1..(n - i) /\ i + (j - (i - 1)) = j + 1 /\ ~ (j <= i - 1)
      BY <2>2
    <3>2. c[j] = b[j - (i - 1)]
      BY <1>5, <3>1
    <3>3. b[j - (i - 1)] = l[j + 1]
      BY <1>b, <3>1
    <3> QED BY <2>2, <3>2, <3>3, Zenon
  <2> QED BY <2>1, <2>2
<1> QED BY <1>4, <1>5, <1>6, <1>c

(* What a list answers about an extension, after an insertion and after a   *)
(* deletion.                                                                *)
LEMMA AnswerIs ==
  ASSUME NEW l, NEW id
  PROVE  \A x : x \in Answer(l, id) <=> \E i \in 1..Len(l) : l[i].id = id /\ x = replayed(l[i])
  BY DEF Answer

LEMMA Inserted ==
  ASSUME NEW l, Registry(l), NEW r \in Rec, \A i \in 1..Len(l) : l[i].id # r.id
  PROVE  /\ Registry(Append(l, r)) /\ Answer(Append(l, r), r.id) = {replayed(r)}
         /\ \A id : id # r.id => Answer(Append(l, r), id) = Answer(l, id)
         /\ Settled(l) /\ replayed(r) = r => Settled(Append(l, r))
PROOF
<1>1. PICK n \in Nat : n = Len(l) /\ l \in Seq(Rec)
  BY DEF Registry
<1>2. PICK m \in Seq(Rec) : m = Append(l, r) /\ Len(m) = n + 1
  <2>1. Append(l, r) \in Seq(Rec) /\ Len(Append(l, r)) = n + 1
    BY <1>1
  <2> QED BY <2>1, Zenon
<1>a. Len(m) = n + 1
  BY <1>2
<1>3. (\A i \in 1..n : m[i] = l[i]) /\ m[n + 1] = r
  BY <1>1, <1>2
<1>4. \A i : i \in 1..(n + 1) <=> i \in 1..n \/ i = n + 1
  OBVIOUS
<1>5. Distinct(m)
  <2>1. \A i, j \in 1..n : i # j => l[i].id # l[j].id
    BY <1>1 DEF Registry, Distinct
  <2> QED BY <1>1, <1>2, <1>3, <1>4, <2>1 DEF Distinct
<1>6. Settled(l) /\ replayed(r) = r => Settled(m)
  BY <1>1, <1>2, <1>3, <1>4 DEF Settled
<1>7. \A id, x : x \in Answer(m, id) <=> x \in Answer(l, id) \/ (id = r.id /\ x = replayed(r))
  <2> SUFFICES ASSUME NEW id, NEW x
               PROVE  x \in Answer(m, id) <=> x \in Answer(l, id) \/ (id = r.id /\ x = replayed(r))
    OBVIOUS
  <2>1. x \in Answer(m, id) <=> \E i \in 1..(n + 1) : m[i].id = id /\ x = replayed(m[i])
    <3>1. x \in Answer(m, id) <=> \E i \in 1..Len(m) : m[i].id = id /\ x = replayed(m[i])
      BY AnswerIs
    <3> QED BY <1>a, <3>1
  <2>2. x \in Answer(l, id) <=> \E i \in 1..n : l[i].id = id /\ x = replayed(l[i])
    BY <1>1, AnswerIs
  <2>3. (\E i \in 1..(n + 1) : m[i].id = id /\ x = replayed(m[i]))
        <=> (\E i \in 1..n : l[i].id = id /\ x = replayed(l[i])) \/ (r.id = id /\ x = replayed(r))
    BY <1>3, <1>4
  <2> QED BY <2>1, <2>2, <2>3, Zenon
<1>8. \A x : x \notin Answer(l, r.id)
  BY AnswerIs
<1>9. Answer(m, r.id) = {replayed(r)}
  BY <1>7, <1>8
<1>10. ASSUME NEW id, id # r.id PROVE Answer(m, id) = Answer(l, id)
  <2>1. \A x : x \in Answer(m, id) <=> x \in Answer(l, id)
    BY <1>7, <1>10, Zenon
  <2> QED BY <2>1
<1> QED BY <1>2, <1>5, <1>6, <1>9, <1>10 DEF Registry

LEMMA Deleted ==
  ASSUME NEW l, Registry(l), NEW n \in Nat, n = Len(l), NEW i \in 1..n
  PROVE  /\ Registry(store_delete_idx(l, i)) /\ Answer(store_delete_idx(l, i), l[i].id) = {}
         /\ \A id : id # l[i].id => Answer(store_delete_idx(l, i), id) = Answer(l, id)
         /\ Settled(l) => Settled(store_delete_idx(l, i))
PROOF
<1>1. l \in Seq(Rec) /\ \A h, j \in 1..n : h # j => l[h].id # l[j].id
  BY DEF Registry, Distinct
<1>2. PICK m \in Seq(Rec) : m = store_delete_idx(l, i) /\ Len(m) = n - 1
        /\ \A j \in 1..(n - 1) : m[j] = IF j < i THEN l[j] ELSE l[j + 1]
  <2>1. /\ store_delete_idx(l, i) \in Seq(Rec) /\ Len(store_delete_idx(l, i)) = n - 1
        /\ \A j \in 1..(n - 1) : store_delete_idx(l, i)[j] = IF j < i THEN l[j] ELSE l[j + 1]
    BY <1>1, DeleteIs
  <2> QED BY <2>1, Zenon
<1> DEFINE at(j) == IF j < i THEN j ELSE j + 1
<1>3. \A j \in 1..(n - 1) : at(j) \in 1..n /\ at(j) # i /\ m[j] = l[at(j)]
  BY <1>2
<1>4. \A j, h \in 1..(n - 1) : j # h => at(j) # at(h)
  OBVIOUS
<1>5. \A j \in 1..n : j # i => \E h \in 1..(n - 1) : at(h) = j
  <2> SUFFICES ASSUME NEW j \in 1..n, j # i PROVE \E h \in 1..(n - 1) : at(h) = j
    OBVIOUS
  <2>1. CASE j < i
    <3>1. j \in 1..(n - 1) /\ at(j) = j
      BY <2>1
    <3> QED BY <3>1
  <2>2. CASE ~ (j < i)
    <3>1. j - 1 \in 1..(n - 1) /\ at(j - 1) = j
      BY <2>2
    <3> QED BY <3>1
  <2> QED BY <2>1, <2>2
<1> HIDE DEF at
<1>6. Distinct(m)
  BY <1>1, <1>2, <1>3, <1>4 DEF Distinct
<1>7. Settled(l) => Settled(m)
  BY <1>2, <1>3 DEF Settled
<1>8. \A id, x : x \in Answer(m, id) <=> \E j \in 1..n : j # i /\ l[j].id = id /\ x = replayed(l[j])
  <2> SUFFICES ASSUME NEW id, NEW x
               PROVE  x \in Answer(m, id) <=> \E j \in 1..n : j # i /\ l[j].id = id /\ x = replayed(l[j])
    OBVIOUS
  <2>1. x \in Answer(m, id) <=> \E j \in 1..(n - 1) : m[j].id = id /\ x = replayed(m[j])
    BY <1>2, AnswerIs
  <2>2. (\E j \in 1..(n - 1) : m[j].id = id /\ x = replayed(m[j])) =>
          \E j \in 1..n : j # i /\ l[j].id = id /\ x = replayed(l[j])
    BY <1>3
  <2>3. ASSUME NEW j \in 1..n, j # i, l[j].id = id, x = replayed(l[j])
        PROVE  \E h \in 1..(n - 1) : m[h].id = id /\ x = replayed(m[h])
    <3>1. PICK h \in 1..(n - 1) : at(h) = j
      BY <1>5, <2>3
    <3> QED BY <1>3, <2>3, <3>1
  <2> QED BY <2>1, <2>2, <2>3
<1>9. Answer(m, l[i].id) = {}
  <2>1. \A x : x \notin Answer(m, l[i].id)
    BY <1>1, <1>8
  <2> QED BY <2>1
<1>10. ASSUME NEW id, id # l[i].id PROVE Answer(m, id) = Answer(l, id)
  <2>1. \A x : x \in Answer(l, id) <=> \E j \in 1..n : l[j].id = id /\ x = replayed(l[j])
    BY AnswerIs
  <2>2. \A x : x \in Answer(m, id) <=> x \in Answer(l, id)
    BY <1>8, <1>10, <2>1
  <2> QED BY <2>2
<1> QED BY <1>2, <1>6, <1>7, <1>9, <1>10 DEF Registry

(* A line of the log changes the answers about its own extension alone.     *)
LEMMA LineApplied ==
  ASSUME NEW l, Registry(l), Settled(l), NEW p \in PieceSet
  PROVE  LET m == apply_log_line(l, p) IN
         /\ Registry(m) /\ Settled(m)
         /\ \A id : id # p.rec.id => Answer(m, id) = Answer(l, id)
         /\ p.op = "install" => Answer(m, p.rec.id) = IF Answer(l, p.rec.id) = {} THEN {replayed(p.rec)} ELSE Answer(l, p.rec.id)
         /\ p.op = "uninstall" => Answer(m, p.rec.id) = {}
PROOF
<1>1. PICK r \in Rec : r = p.rec
  BY DEF PieceSet
<1>2. PICK q \in Rec : q = replayed(r) /\ q.id = r.id /\ replayed(q) = q
  BY ReplayedIs, Zenon
<1>3. PICK n \in Nat : n = Len(l) /\ l \in Seq(Rec)
  BY DEF Registry
<1>4. PICK i : i = find_idx(l, r.id)
  OBVIOUS
<1>5. (i = 0 /\ \A j \in 1..n : l[j].id # r.id) \/ (i \in 1..n /\ l[i].id = r.id)
  BY <1>3, <1>4, FindIs
<1>6. apply_log_line(l, p) = IF p.op = "install" THEN (IF i = 0 THEN Append(l, q) ELSE l)
                             ELSE IF i = 0 THEN l ELSE store_delete_idx(l, i)
  BY <1>1, <1>2, <1>4, Zenon DEF apply_log_line
<1>7. p.op \in {"install", "uninstall"}
  BY DEF PieceSet
<1>8. CASE i = 0 /\ \A j \in 1..n : l[j].id # r.id
  <2>1. Answer(l, r.id) = {}
    <3>1. \A x : x \notin Answer(l, r.id)
      BY <1>3, <1>8, AnswerIs
    <3> QED BY <3>1
  <2>2. CASE p.op = "install"
    <3>1. apply_log_line(l, p) = Append(l, q)
      BY <1>6, <1>8, <2>2
    <3>2. \A j \in 1..Len(l) : l[j].id # q.id
      BY <1>2, <1>3, <1>8
    <3>3. /\ Registry(Append(l, q)) /\ Answer(Append(l, q), q.id) = {replayed(q)}
          /\ \A id : id # q.id => Answer(Append(l, q), id) = Answer(l, id)
          /\ Settled(Append(l, q))
      BY <1>2, <3>2, Inserted
    <3> QED BY <1>1, <1>2, <2>1, <2>2, <3>1, <3>3
  <2>3. CASE p.op = "uninstall"
    <3>1. apply_log_line(l, p) = l
      BY <1>6, <1>8, <2>3
    <3> QED BY <1>1, <2>1, <2>3, <3>1
  <2> QED BY <1>7, <2>2, <2>3
<1>9. CASE i \in 1..n /\ l[i].id = r.id
  <2>1. i # 0
    BY <1>9
  <2>2. CASE p.op = "install"
    <3>1. apply_log_line(l, p) = l
      BY <1>6, <2>1, <2>2
    <3>2. replayed(l[i]) \in Answer(l, r.id)
      BY <1>3, <1>9, AnswerIs
    <3> QED BY <1>1, <2>2, <3>1, <3>2
  <2>3. CASE p.op = "uninstall"
    <3>1. apply_log_line(l, p) = store_delete_idx(l, i)
      BY <1>6, <2>1, <2>3
    <3>2. PICK m : m = store_delete_idx(l, i)
      OBVIOUS
    <3>3. Registry(m) /\ Answer(m, r.id) = {} /\ Settled(m) /\ \A id : id # r.id => Answer(m, id) = Answer(l, id)
      <4>1. /\ Registry(store_delete_idx(l, i)) /\ Answer(store_delete_idx(l, i), l[i].id) = {}
            /\ \A id : id # l[i].id => Answer(store_delete_idx(l, i), id) = Answer(l, id)
            /\ Settled(l) => Settled(store_delete_idx(l, i))
        BY <1>3, <1>9, Deleted
      <4> QED BY <1>9, <3>2, <4>1, Zenon
    <3> QED BY <1>1, <2>3, <3>1, <3>2, <3>3
  <2> QED BY <1>7, <2>2, <2>3
<1> QED BY <1>5, <1>8, <1>9

-----------------------------------------------------------------------------
(* The replay, piece by piece.                                              *)
NewRegistry == [list |-> <<>>, head |-> TRUE]
IsReplay(F, pieces) ==
  F = [s \in SUBSET DOMAIN pieces |-> IF s = {} THEN NewRegistry ELSE replay_piece(F[s \ {Max(s)}], pieces[Max(s)])]
Replay(pieces) == CHOOSE F : IsReplay(F, pieces)
Run(pieces) == Replay(pieces)[DOMAIN pieces]
RunState == [list : Seq(Rec), head : BOOLEAN]
Ready(s) == s \in RunState /\ Registry(s.list) /\ Settled(s.list)

LEMMA ReplayIs == ASSUME NEW pieces PROVE replay(pieces) = Run(pieces).list
  BY DEF replay, FoldLeft, MapThenFoldSet, Run, Replay, IsReplay, NewRegistry

LEMMA PieceKeepsReady ==
  ASSUME NEW s, Ready(s), NEW p \in PieceSet
  PROVE  /\ Ready(replay_piece(s, p)) /\ replay_piece(s, p).head = p.newline
         /\ replay_piece(s, p).list = IF s.head /\ p.whole THEN apply_log_line(s.list, p) ELSE s.list
PROOF
<1>1. PICK l \in Seq(Rec), h \in BOOLEAN : s = [list |-> l, head |-> h] /\ Registry(l) /\ Settled(l)
  BY DEF Ready, RunState
<1>2. PICK m : m = IF h /\ p.whole THEN apply_log_line(l, p) ELSE l
  OBVIOUS
<1>3. Registry(m) /\ Settled(m)
  BY <1>1, <1>2, LineApplied
<1>4. m \in Seq(Rec)
  BY <1>3 DEF Registry
<1>5. PICK e \in BOOLEAN : e = p.newline
  BY DEF PieceSet
<1>6. replay_piece(s, p) = [list |-> m, head |-> e]
  BY <1>1, <1>2, <1>5 DEF replay_piece
<1> QED BY <1>1, <1>2, <1>3, <1>4, <1>5, <1>6 DEF Ready, RunState

LEMMA NewIsReady == Ready(NewRegistry)
PROOF
<1>1. <<>> \in Seq(Rec)
  OBVIOUS
<1>2. PICK l \in Seq(Rec) : l = <<>> /\ Len(l) = 0
  <2>1. Len(<<>>) = 0
    OBVIOUS
  <2> QED BY <1>1, <2>1, Zenon
<1>3. Registry(l) /\ Settled(l)
  BY <1>2 DEF Registry, Settled, Distinct
<1>4. NewRegistry = [list |-> l, head |-> TRUE]
  BY <1>2 DEF NewRegistry
<1> QED BY <1>3, <1>4 DEF Ready, RunState

LEMMA ReplayExists ==
  ASSUME NEW pieces \in Seq(PieceSet)
  PROVE  IsReplay(Replay(pieces), pieces)
PROOF
<1>1. PICK n \in Nat : n = Len(pieces) /\ DOMAIN pieces = 1..n
  OBVIOUS
<1> DEFINE X == {s \in RunState : Ready(s)}
           g == [q \in X \X (1..n) |-> replay_piece(q[1], pieces[q[2]])]
           F == Fold(g, NewRegistry, 1..n)
<1>2. NewRegistry \in X
  BY NewIsReady DEF Ready
<1>3. \A a \in X, i \in 1..n : <<a, i>> \in X \X (1..n) /\ <<a, i>>[1] = a /\ <<a, i>>[2] = i
  OBVIOUS
<1>4. \A a \in X, i \in 1..n : g[<<a, i>>] = replay_piece(a, pieces[i])
  BY <1>3
<1>5. \A a \in X, i \in 1..n : replay_piece(a, pieces[i]) \in X
  <2>1. \A i \in 1..n : pieces[i] \in PieceSet
    BY <1>1
  <2>2. ASSUME NEW a \in X, NEW i \in 1..n PROVE replay_piece(a, pieces[i]) \in X
    <3>1. Ready(replay_piece(a, pieces[i]))
      BY <2>1, PieceKeepsReady
    <3> QED BY <3>1 DEF Ready
  <2> HIDE DEF X
  <2> QED BY <2>2
<1> HIDE DEF X, g
<1>6. IsFold(F, g, NewRegistry, 1..n)
  BY FoldExists
<1>7. \A s \in SUBSET (1..n) : F[s] \in X
  <2>1. \A a \in X, i \in 1..n : g[<<a, i>>] \in X
    BY <1>4, <1>5
  <2> QED BY <1>2, <2>1, FoldTyped
<1> HIDE DEF F
<1>8. ASSUME NEW s \in SUBSET (1..n), s # {}
      PROVE  g[<<F[s \ {Max(s)}], Max(s)>>] = replay_piece(F[s \ {Max(s)}], pieces[Max(s)])
  <2>1. Max(s) \in 1..n /\ s \ {Max(s)} \in SUBSET (1..n)
    BY <1>8, MaxIn
  <2> QED BY <1>4, <1>7, <2>1
<1>9. F = [s \in SUBSET (1..n) |-> IF s = {} THEN NewRegistry ELSE replay_piece(F[s \ {Max(s)}], pieces[Max(s)])]
  <2>1. F = [s \in SUBSET (1..n) |-> IF s = {} THEN NewRegistry ELSE g[<<F[s \ {Max(s)}], Max(s)>>]]
    BY <1>6 DEF IsFold
  <2>2. \A s \in SUBSET (1..n) : (IF s = {} THEN NewRegistry ELSE g[<<F[s \ {Max(s)}], Max(s)>>])
                                 = (IF s = {} THEN NewRegistry ELSE replay_piece(F[s \ {Max(s)}], pieces[Max(s)]))
    BY <1>8
  <2>3. [s \in SUBSET (1..n) |-> IF s = {} THEN NewRegistry ELSE g[<<F[s \ {Max(s)}], Max(s)>>]]
        = [s \in SUBSET (1..n) |-> IF s = {} THEN NewRegistry ELSE replay_piece(F[s \ {Max(s)}], pieces[Max(s)])]
    BY <2>2
  <2> QED BY <2>1, <2>3, Zenon
<1>10. IsReplay(F, pieces)
  BY <1>1, <1>9 DEF IsReplay
<1> QED BY <1>10 DEF Replay

LEMMA FirstOnes ==
  \A n \in Nat : \A k \in 1..n : 1..k \in SUBSET (1..n) /\ 1..k # {}
PROOF
<1> SUFFICES ASSUME NEW n \in Nat, NEW k \in 1..n PROVE 1..k \in SUBSET (1..n) /\ 1..k # {}
  OBVIOUS
<1>1. k \in 1..k
  OBVIOUS
<1>2. \A i \in 1..k : i \in 1..n
  OBVIOUS
<1> QED BY <1>1, <1>2, Zenon

LEMMA ReplaySteps ==
  ASSUME NEW pieces \in Seq(PieceSet), NEW n \in Nat, n = Len(pieces), NEW F, F = Replay(pieces)
  PROVE  /\ F[1..0] = NewRegistry /\ \A k \in 1..n : F[1..k] = replay_piece(F[1..(k - 1)], pieces[k])
         /\ \A k \in 0..n : Ready(F[1..k])
PROOF
<1>1. F = [s \in SUBSET (1..n) |-> IF s = {} THEN NewRegistry ELSE replay_piece(F[s \ {Max(s)}], pieces[Max(s)])]
  <2>1. DOMAIN pieces = 1..n
    OBVIOUS
  <2> QED BY <2>1, ReplayExists DEF IsReplay
<1>2. 1..0 = {} /\ {} \in SUBSET (1..n)
  OBVIOUS
<1>3. F[1..0] = NewRegistry
  BY <1>1, <1>2
<1>4. ASSUME NEW k \in 1..n PROVE F[1..k] = replay_piece(F[1..(k - 1)], pieces[k])
  <2>1. Max(1..k) = k /\ (1..k) \ {Max(1..k)} = 1..(k - 1)
    BY MaxOfFirst
  <2>2. 1..k \in SUBSET (1..n) /\ 1..k # {}
    BY FirstOnes, Zenon
  <2> QED BY <1>1, <2>1, <2>2
<1> DEFINE P == {k \in 0..n : Ready(F[1..k])}
<1>5. 0 \in P
  BY <1>3, NewIsReady
<1>6. ASSUME NEW k \in 1..n, k - 1 \in P PROVE k \in P
  <2>1. Ready(F[1..(k - 1)]) /\ pieces[k] \in PieceSet
    BY <1>6
  <2>2. Ready(F[1..k])
    BY <1>4, <2>1, PieceKeepsReady
  <2> QED BY <2>2
<1> HIDE DEF P
<1>7. 0..n \subseteq P
  BY <1>5, <1>6, Upwards
<1>8. \A k \in 0..n : Ready(F[1..k])
  BY <1>7 DEF P
<1> QED BY <1>3, <1>4, <1>8

(* What a longer log replays to, and whether its last line is open.         *)
LEMMA RunGrows ==
  ASSUME NEW pieces \in Seq(PieceSet), NEW p \in PieceSet
  PROVE  Run(Append(pieces, p)) = replay_piece(Run(pieces), p)
PROOF
<1>1. PICK n \in Nat : n = Len(pieces) /\ DOMAIN pieces = 1..n
  OBVIOUS
<1>2. PICK more \in Seq(PieceSet) : more = Append(pieces, p)
  <2>1. Append(pieces, p) \in Seq(PieceSet)
    OBVIOUS
  <2> QED BY <2>1, Zenon
<1>3. Len(more) = n + 1 /\ DOMAIN more = 1..(n + 1) /\ more[n + 1] = p /\ \A k \in 1..n : more[k] = pieces[k]
  BY <1>1, <1>2
<1>4. PICK F, G : F = Replay(more) /\ G = Replay(pieces)
  OBVIOUS
<1>5. n + 1 \in Nat /\ n + 1 \in 1..(n + 1) /\ (n + 1) - 1 = n /\ 1..n \subseteq 1..(n + 1)
  OBVIOUS
<1>6. F[1..0] = NewRegistry /\ \A k \in 1..(n + 1) : F[1..k] = replay_piece(F[1..(k - 1)], more[k])
  BY <1>3, <1>4, <1>5, ReplaySteps
<1>7. G[1..0] = NewRegistry /\ \A k \in 1..n : G[1..k] = replay_piece(G[1..(k - 1)], pieces[k])
  BY <1>1, <1>4, ReplaySteps
<1> DEFINE P == {k \in 0..n : F[1..k] = G[1..k]}
<1>8. 0 \in P
  BY <1>6, <1>7
<1>9. ASSUME NEW k \in 1..n, k - 1 \in P PROVE k \in P
  <2>1. F[1..(k - 1)] = G[1..(k - 1)]
    BY <1>9
  <2>2. F[1..k] = G[1..k]
    BY <1>3, <1>5, <1>6, <1>7, <2>1
  <2> QED BY <2>2
<1> HIDE DEF P
<1>10. 0..n \subseteq P
  BY <1>8, <1>9, Upwards
<1>11. F[1..n] = G[1..n]
  BY <1>10 DEF P
<1>12. F[1..(n + 1)] = replay_piece(F[1..n], p)
  BY <1>3, <1>5, <1>6
<1> QED BY <1>1, <1>2, <1>3, <1>4, <1>11, <1>12 DEF Run

LEMMA RunIsReady ==
  ASSUME NEW pieces \in Seq(PieceSet)
  PROVE  Ready(Run(pieces)) /\ (Run(pieces).head <=> ~ TornTail(pieces))
PROOF
<1>1. PICK n \in Nat : n = Len(pieces) /\ DOMAIN pieces = 1..n
  OBVIOUS
<1>2. PICK F : F = Replay(pieces)
  OBVIOUS
<1>3. /\ F[1..0] = NewRegistry /\ \A k \in 1..n : F[1..k] = replay_piece(F[1..(k - 1)], pieces[k])
      /\ \A k \in 0..n : Ready(F[1..k])
  BY <1>1, <1>2, ReplaySteps
<1>4. Run(pieces) = F[1..n] /\ Ready(F[1..n])
  BY <1>1, <1>2, <1>3 DEF Run
<1>5. CASE n = 0
  <2>1. pieces = <<>>
    BY <1>1, <1>5
  <2> QED BY <1>3, <1>4, <1>5, <2>1 DEF TornTail, NewRegistry
<1>6. CASE n # 0
  <2>1. n \in 1..n /\ n - 1 \in 0..n /\ pieces[n] \in PieceSet
    BY <1>1, <1>6
  <2>2. pieces # <<>> /\ Last(pieces) = pieces[n]
    BY <1>1, <1>6 DEF Last
  <2>3. F[1..n] = replay_piece(F[1..(n - 1)], pieces[n]) /\ Ready(F[1..(n - 1)])
    BY <1>3, <2>1
  <2>4. F[1..n].head = pieces[n].newline
    BY <2>1, <2>3, PieceKeepsReady
  <2>5. pieces[n].newline \in BOOLEAN
    BY <2>1 DEF PieceSet
  <2> QED BY <1>4, <2>2, <2>4, <2>5 DEF TornTail
<1> QED BY <1>4, <1>5, <1>6

-----------------------------------------------------------------------------
(* The invariant: the answers that a replay would give differ from those in *)
(* memory about two extensions for each failed write at most, and about one *)
(* less while the last line is still open; without a failed write the       *)
(* replay is the list in memory, normalised.                                *)
Diff(l, m) == {id \in Extensions : Answer(l, id) # Answer(m, id)}
Normalised(l) == [i \in 1..Len(l) |-> replayed(l[i])]
Close(l, m, b) == IsFiniteSet(Diff(l, m)) /\ Cardinality(Diff(l, m)) <= b
Slack(head, k) == IF head THEN 2 * k ELSE 2 * k - 1
RegistryInv ==
  /\ Registry(entries) /\ log \in Seq(PieceSet) /\ torn \in Nat
  /\ Close(Run(log).list, entries, Slack(Run(log).head, torn))
  /\ torn = 0 => Run(log).list = Normalised(entries)

(* The distance of two lists after one more answer changed, or none.        *)
LEMMA CloseGrows ==
  ASSUME NEW l, NEW m, NEW l2, NEW m2, NEW id, NEW b \in Int, Close(l, m, b),
         Diff(l2, m2) \subseteq Diff(l, m) \cup {id}
  PROVE  Close(l2, m2, b + 1) /\ (Diff(l2, m2) \subseteq Diff(l, m) => Close(l2, m2, b))
PROOF
<1>1. PICK D : D = Diff(l, m)
  OBVIOUS
<1>2. PICK E : E = Diff(l2, m2)
  OBVIOUS
<1>3. IsFiniteSet(D) /\ Cardinality(D) <= b
  BY <1>1 DEF Close
<1>4. IsFiniteSet(D \cup {id}) /\ Cardinality(D \cup {id}) <= Cardinality(D) + 1
  <2>1. IsFiniteSet(D \cup {id}) /\ Cardinality(D \cup {id}) = IF id \in D THEN Cardinality(D) ELSE Cardinality(D) + 1
    BY <1>3, FS_AddElement
  <2>2. Cardinality(D) \in Nat
    BY <1>3, FS_CardinalityType
  <2> QED BY <2>1, <2>2
<1>5. E \subseteq D \cup {id}
  BY <1>1, <1>2
<1>6. IsFiniteSet(E) /\ Cardinality(E) <= Cardinality(D \cup {id})
  BY <1>4, <1>5, FS_Subset
<1>7. E \subseteq D => Cardinality(E) <= Cardinality(D)
  BY <1>3, FS_Subset
<1>8. Cardinality(D) \in Nat /\ Cardinality(E) \in Nat /\ Cardinality(D \cup {id}) \in Nat
  BY <1>3, <1>4, <1>6, FS_CardinalityType
<1>9. PICK d \in Nat, e \in Nat, c \in Nat : d = Cardinality(D) /\ e = Cardinality(E) /\ c = Cardinality(D \cup {id})
  BY <1>8
<1>10. d <= b /\ c <= d + 1 /\ e <= c /\ (E \subseteq D => e <= d)
  BY <1>3, <1>4, <1>6, <1>7, <1>9
<1>11. e <= b + 1 /\ (E \subseteq D => e <= b)
  BY <1>10
<1>13. Cardinality(Diff(l2, m2)) = e /\ IsFiniteSet(Diff(l2, m2))
  BY <1>2, <1>6, <1>9
<1>14. Close(l2, m2, b + 1)
  BY <1>11, <1>13 DEF Close
<1>15. Diff(l2, m2) \subseteq Diff(l, m) => Close(l2, m2, b)
  <2>1. e <= b => Close(l2, m2, b)
    BY <1>13 DEF Close
  <2> QED BY <1>1, <1>2, <1>11, <2>1
<1> QED BY <1>14, <1>15

LEMMA CloseMore ==
  ASSUME NEW l, NEW m, NEW b \in Int, NEW c \in Int, b <= c, Close(l, m, b) PROVE Close(l, m, c) /\ b >= 0
PROOF
<1>1. PICK e \in Nat : e = Cardinality(Diff(l, m))
  BY FS_CardinalityType DEF Close
<1>2. e <= b
  BY <1>1 DEF Close
<1>3. e <= c /\ b >= 0
  BY <1>2
<1> QED BY <1>1, <1>3 DEF Close

(* A registry that is what its log replays to.                              *)
LEMMA CloseSame ==
  ASSUME NEW l, NEW b \in Nat PROVE Close(l, l, b)
PROOF
<1>1. Diff(l, l) = {}
  BY DEF Diff
<1>2. IsFiniteSet({}) /\ Cardinality({}) = 0
  BY FS_EmptySet
<1> QED BY <1>1, <1>2 DEF Close

LEMMA SettledIsNormal == ASSUME NEW l \in Seq(Rec), Settled(l) PROVE l = Normalised(l)
PROOF
<1>1. l = [i \in 1..Len(l) |-> l[i]]
  OBVIOUS
<1>2. \A i \in 1..Len(l) : l[i] = replayed(l[i])
  BY DEF Settled
<1>3. [i \in 1..Len(l) |-> l[i]] = [i \in 1..Len(l) |-> replayed(l[i])]
  BY <1>2
<1> QED BY <1>1, <1>3, Zenon DEF Normalised

(* Opening a registry, after a crash or not.                                *)
LEMMA OpenedKeeps ==
  ASSUME NEW pieces \in Seq(PieceSet), Opened(pieces) PROVE RegistryInv'
PROOF
<1>1. PICK s : s = Run(pieces)
  OBVIOUS
<1>2. Ready(s) /\ (s.head <=> ~ TornTail(pieces))
  BY <1>1, RunIsReady
<1>3. s.head \in BOOLEAN /\ s.list \in Seq(Rec) /\ Registry(s.list) /\ Settled(s.list)
  BY <1>2 DEF Ready, RunState
<1>4. entries' = s.list /\ log' = pieces /\ torn' = IF TornTail(pieces) THEN 1 ELSE 0
  BY <1>1, ReplayIs DEF Opened
<1>5. torn' \in Nat /\ (s.head \/ torn' = 1)
  BY <1>2, <1>4
<1>a. Slack(s.head, torn') \in Nat
  <2>1. CASE s.head
    <3>1. Slack(s.head, torn') = 2 * torn'
      BY <2>1, Zenon DEF Slack
    <3>2. PICK k \in Nat : k = torn'
      BY <1>5
    <3>3. 2 * k \in Nat
      OBVIOUS
    <3> QED BY <3>1, <3>2, <3>3, Zenon
  <2>2. CASE ~ s.head
    <3>1. torn' = 1
      BY <1>5, <2>2
    <3>2. Slack(s.head, torn') = 2 * 1 - 1
      BY <2>2, <3>1 DEF Slack
    <3> QED BY <3>2
  <2> QED BY <2>1, <2>2
<1>6. Close(s.list, s.list, Slack(s.head, torn'))
  BY <1>a, CloseSame
<1>7. s.list = Normalised(s.list)
  BY <1>3, SettledIsNormal
<1>8. Registry(entries') /\ log' \in Seq(PieceSet) /\ Run(log') = s
  BY <1>1, <1>3, <1>4
<1>9. Close(Run(log').list, entries', Slack(Run(log').head, torn')) /\ Run(log').list = Normalised(entries')
  BY <1>4, <1>6, <1>7, <1>8
<1> QED BY <1>5, <1>8, <1>9 DEF RegistryInv

(* One more piece, and what it can change.                                  *)
LEMMA PieceReplayed ==
  ASSUME NEW pieces \in Seq(PieceSet), NEW p \in PieceSet
  PROVE  /\ Run(Append(pieces, p)).head = p.newline
         /\ Run(Append(pieces, p)).list
              = IF Run(pieces).head /\ p.whole THEN apply_log_line(Run(pieces).list, p) ELSE Run(pieces).list
         /\ \A id : id # p.rec.id => Answer(Run(Append(pieces, p)).list, id) = Answer(Run(pieces).list, id)
PROOF
<1>1. PICK s : s = Run(pieces)
  OBVIOUS
<1>2. PICK t : t = Run(Append(pieces, p))
  OBVIOUS
<1>3. Ready(s) /\ t = replay_piece(s, p)
  BY <1>1, <1>2, RunIsReady, RunGrows
<1>4. t.head = p.newline /\ t.list = IF s.head /\ p.whole THEN apply_log_line(s.list, p) ELSE s.list
  BY <1>3, PieceKeepsReady
<1>5. Registry(s.list) /\ Settled(s.list)
  BY <1>3 DEF Ready
<1>6. \A id : id # p.rec.id => Answer(t.list, id) = Answer(s.list, id)
  <2>1. \A id : id # p.rec.id => Answer(apply_log_line(s.list, p), id) = Answer(s.list, id)
    BY <1>5, LineApplied
  <2>2. t.list = apply_log_line(s.list, p) \/ t.list = s.list
    BY <1>4
  <2> QED BY <2>1, <2>2, Zenon
<1> QED BY <1>1, <1>2, <1>4, <1>6

LEMMA FailureKeeps ==
  ASSUME RegistryInv, NEW p \in PieceSet, log' = Append(log, p), torn' = torn + 1, UNCHANGED entries
  PROVE  RegistryInv'
PROOF
<1>1. Registry(entries) /\ log \in Seq(PieceSet) /\ torn \in Nat
  BY DEF RegistryInv
<1>2. PICK s : s = Run(log)
  OBVIOUS
<1>3. PICK t : t = Run(log')
  OBVIOUS
<1>4. \A id : id # p.rec.id => Answer(t.list, id) = Answer(s.list, id)
  BY <1>1, <1>2, <1>3, PieceReplayed
<1>5. Diff(t.list, entries) \subseteq Diff(s.list, entries) \cup {p.rec.id}
  BY <1>4 DEF Diff
<1>a. Slack(s.head, torn) \in Int /\ Slack(s.head, torn) <= 2 * torn
  BY <1>1 DEF Slack
<1>b. Close(s.list, entries, Slack(s.head, torn))
  BY <1>2 DEF RegistryInv
<1>6. PICK b \in Int : b = Slack(s.head, torn) /\ Close(s.list, entries, b) /\ b <= 2 * torn
  BY <1>a, <1>b, Zenon
<1>7. Close(t.list, entries, b + 1)
  <2>1. PICK l, l2, m, x : l = s.list /\ l2 = t.list /\ m = entries /\ x = p.rec.id
    OBVIOUS
  <2>2. Close(l, m, b) /\ Diff(l2, m) \subseteq Diff(l, m) \cup {x}
    BY <1>5, <1>6, <2>1, Zenon
  <2>3. Close(l2, m, b + 1)
    BY <2>2, CloseGrows
  <2> QED BY <2>1, <2>3, Zenon
<1>8. PICK c \in Int : c = Slack(t.head, torn + 1) /\ b + 1 <= c
  BY <1>1, <1>6 DEF Slack
<1>9. Close(t.list, entries, c)
  BY <1>7, <1>8, CloseMore
<1>10. torn' \in Nat /\ torn' # 0 /\ log' \in Seq(PieceSet)
  BY <1>1
<1>11. Close(Run(log').list, entries', Slack(Run(log').head, torn'))
  BY <1>3, <1>8, <1>9
<1> QED BY <1>1, <1>10, <1>11 DEF RegistryInv

(* A write that went through: the line is lost only if it joined an open    *)
(* one, which is then closed.                                               *)
LEMMA PersistedKeeps ==
  ASSUME RegistryInv, NEW p \in PieceSet, p.whole = TRUE, p.newline = TRUE, log' = Append(log, p), torn' = torn,
         NEW list, Registry(list), entries' = list,
         \A id : id # p.rec.id => Answer(list, id) = Answer(entries, id),
         \A l : Registry(l) /\ Settled(l) /\ Answer(l, p.rec.id) = Answer(entries, p.rec.id)
                  => Answer(apply_log_line(l, p), p.rec.id) = Answer(list, p.rec.id),
         \A l : Registry(l) /\ Settled(l) /\ l = Normalised(entries) => apply_log_line(l, p) = Normalised(list)
  PROVE  RegistryInv'
PROOF
<1>1. Registry(entries) /\ log \in Seq(PieceSet) /\ torn \in Nat /\ (torn = 0 => Run(log).list = Normalised(entries))
  BY DEF RegistryInv
<1>2. PICK s : s = Run(log)
  OBVIOUS
<1>3. PICK t : t = Run(log')
  OBVIOUS
<1>4. PICK x : x = p.rec.id
  OBVIOUS
<1>5. \A id : id # x => Answer(t.list, id) = Answer(s.list, id)
  <2>1. \A id : id # p.rec.id => Answer(Run(Append(log, p)).list, id) = Answer(Run(log).list, id)
    BY <1>1, PieceReplayed
  <2>2. t = Run(Append(log, p))
    BY <1>3
  <2> QED BY <1>2, <1>4, <2>1, <2>2, Zenon
<1>6. t.head = TRUE /\ t.list = IF s.head THEN apply_log_line(s.list, p) ELSE s.list
  BY <1>1, <1>2, <1>3, PieceReplayed
<1>7. Registry(s.list) /\ Settled(s.list)
  BY <1>1, <1>2, RunIsReady DEF Ready
<1>8. PICK l, m : l = s.list /\ m = t.list
  OBVIOUS
<1>9. Diff(m, list) \subseteq Diff(l, entries) \cup {x}
  BY <1>4, <1>5, <1>8 DEF Diff
<1>10. Close(l, entries, Slack(s.head, torn))
  BY <1>2, <1>8 DEF RegistryInv
<1>11. Slack(t.head, torn) = 2 * torn
  <2>1. t.head
    BY <1>6
  <2> QED BY <2>1, Zenon DEF Slack
<1>12. CASE s.head
  <2>1. Slack(s.head, torn) = 2 * torn
    BY <1>12, Zenon DEF Slack
  <2>2. PICK b \in Int : b = 2 * torn
    BY <1>1
  <2>3. Close(l, entries, b)
    BY <1>10, <2>1, <2>2, Zenon
  <2>4. m = apply_log_line(l, p)
    BY <1>6, <1>8, <1>12
  <2>5. Answer(l, x) = Answer(entries, x) => Answer(m, x) = Answer(list, x)
    BY <1>4, <1>7, <1>8, <2>4
  <2>6. Diff(m, list) \subseteq Diff(l, entries)
    BY <1>9, <2>5 DEF Diff
  <2>7. Close(m, list, b)
    BY <1>9, <2>3, <2>6, CloseGrows
  <2>8. torn = 0 => m = Normalised(list)
    BY <1>1, <1>2, <1>7, <1>8, <2>4
  <2>9. Close(Run(log').list, entries', Slack(Run(log').head, torn'))
    BY <1>3, <1>8, <1>11, <2>2, <2>7
  <2>10. torn' = 0 => Run(log').list = Normalised(entries')
    BY <1>3, <1>8, <2>8
  <2> QED BY <1>1, <2>9, <2>10 DEF RegistryInv
<1>13. CASE ~ s.head
  <2>1. Slack(s.head, torn) = 2 * torn - 1
    BY <1>13, Zenon DEF Slack
  <2>2. PICK b \in Int : b = 2 * torn - 1
    BY <1>1
  <2>3. Close(l, entries, b)
    BY <1>10, <2>1, <2>2, Zenon
  <2>4. Close(m, list, b + 1)
    BY <1>9, <2>3, CloseGrows
  <2>5. b + 1 = 2 * torn
    BY <1>1, <2>2
  <2>6. b <= b /\ b >= 0
    BY <2>3, CloseMore
  <2>7. torn' # 0
    BY <1>1, <2>2, <2>6
  <2>8. Close(Run(log').list, entries', Slack(Run(log').head, torn'))
    BY <1>3, <1>8, <1>11, <2>4, <2>5
  <2> QED BY <1>1, <2>7, <2>8 DEF RegistryInv
<1> QED BY <1>12, <1>13

(* Two lists with the same extensions at the same places are looked up      *)
(* alike.                                                                   *)
LEMMA NormalisedIs ==
  ASSUME NEW l \in Seq(Rec), NEW n \in Nat, n = Len(l)
  PROVE  /\ Normalised(l) \in Seq(Rec) /\ Len(Normalised(l)) = n
         /\ \A i \in 1..n : Normalised(l)[i] = replayed(l[i]) /\ Normalised(l)[i].id = l[i].id
PROOF
<1>1. \A i \in 1..n : replayed(l[i]) \in Rec /\ replayed(l[i]).id = l[i].id
  <2>1. \A i \in 1..n : l[i] \in Rec
    OBVIOUS
  <2> QED BY <2>1, ReplayedIs
<1>2. Normalised(l) \in [1..n -> Rec]
  BY <1>1 DEF Normalised
<1>3. Normalised(l) \in Seq(Rec) /\ Len(Normalised(l)) = n
  BY <1>2
<1>4. \A i \in 1..n : Normalised(l)[i] = replayed(l[i])
  BY DEF Normalised
<1> QED BY <1>1, <1>3, <1>4

(* A list is known by its length and its elements.                          *)
LEMMA SameList ==
  ASSUME NEW a \in Seq(Rec), NEW b \in Seq(Rec), NEW n \in Nat, Len(a) = n, Len(b) = n, \A i \in 1..n : a[i] = b[i]
  PROVE  a = b
PROOF
<1>1. a = [i \in 1..n |-> a[i]] /\ b = [i \in 1..n |-> b[i]]
  OBVIOUS
<1>2. [i \in 1..n |-> a[i]] = [i \in 1..n |-> b[i]]
  OBVIOUS
<1> QED BY <1>1, <1>2, Zenon

(* Installing a new record, and replaying that.                             *)
LEMMA InstallNormal ==
  ASSUME NEW l, Registry(l), NEW r \in Rec, \A i \in 1..Len(l) : l[i].id # r.id,
         NEW p \in PieceSet, p.op = "install", p.rec = r
  PROVE  apply_log_line(Normalised(l), p) = Normalised(Append(l, r))
PROOF
<1>1. PICK n \in Nat : n = Len(l) /\ l \in Seq(Rec)
  BY DEF Registry
<1>2. PICK m \in Seq(Rec) : m = Normalised(l) /\ Len(m) = n /\ \A i \in 1..n : m[i] = replayed(l[i]) /\ m[i].id = l[i].id
  BY <1>1, NormalisedIs, Zenon
<1>3. find_idx(m, r.id) = 0
  <2>1. \A i \in 1..n : m[i].id # r.id
    BY <1>1, <1>2
  <2> QED BY <1>2, <2>1, FindIs
<1>4. PICK q \in Rec : q = replayed(r)
  BY ReplayedIs, Zenon
<1>5. apply_log_line(m, p) = Append(m, q)
  BY <1>3, <1>4 DEF apply_log_line
<1>6. PICK a \in Seq(Rec) : a = Append(m, q) /\ Len(a) = n + 1 /\ a[n + 1] = q /\ \A i \in 1..n : a[i] = m[i]
  <2>1. Append(m, q) \in Seq(Rec) /\ Len(Append(m, q)) = n + 1 /\ Append(m, q)[n + 1] = q
        /\ \A i \in 1..n : Append(m, q)[i] = m[i]
    BY <1>2
  <2> QED BY <2>1, Zenon
<1>7. PICK c \in Seq(Rec) : c = Append(l, r) /\ Len(c) = n + 1 /\ c[n + 1] = r /\ \A i \in 1..n : c[i] = l[i]
  <2>1. Append(l, r) \in Seq(Rec) /\ Len(Append(l, r)) = n + 1 /\ Append(l, r)[n + 1] = r
        /\ \A i \in 1..n : Append(l, r)[i] = l[i]
    BY <1>1
  <2> QED BY <2>1, Zenon
<1>8. n + 1 \in Nat
  OBVIOUS
<1>9. PICK d \in Seq(Rec) : d = Normalised(c) /\ Len(d) = n + 1 /\ \A i \in 1..(n + 1) : d[i] = replayed(c[i])
  BY <1>7, <1>8, NormalisedIs, Zenon
<1>10. ASSUME NEW i \in 1..(n + 1) PROVE a[i] = d[i]
  <2>1. CASE i = n + 1
    BY <1>4, <1>6, <1>7, <1>9, <2>1
  <2>2. CASE i \in 1..n
    <3>1. a[i] = replayed(l[i])
      BY <1>2, <1>6, <2>2
    <3>2. d[i] = replayed(l[i])
      BY <1>7, <1>9, <2>2
    <3> QED BY <3>1, <3>2
  <2> QED BY <2>1, <2>2
<1>11. a = d
  <2>1. Len(a) = n + 1 /\ Len(d) = n + 1
    BY <1>6, <1>9
  <2> QED BY <1>8, <1>10, <2>1, SameList
<1> QED BY <1>2, <1>5, <1>6, <1>7, <1>9, <1>11, Zenon

(* Removing a record, and replaying that.                                   *)
LEMMA UninstallNormal ==
  ASSUME NEW l, Registry(l), NEW n \in Nat, n = Len(l), NEW i \in 1..n,
         NEW p \in PieceSet, p.op = "uninstall", p.rec = l[i]
  PROVE  apply_log_line(Normalised(l), p) = Normalised(store_delete_idx(l, i))
PROOF
<1>1. l \in Seq(Rec) /\ \A h, j \in 1..n : h # j => l[h].id # l[j].id
  BY DEF Registry, Distinct
<1>2. PICK m \in Seq(Rec) : m = Normalised(l) /\ Len(m) = n /\ \A j \in 1..n : m[j] = replayed(l[j]) /\ m[j].id = l[j].id
  BY <1>1, NormalisedIs, Zenon
<1>3. find_idx(m, l[i].id) = i
  <2>1. PICK k : k = find_idx(m, l[i].id)
    OBVIOUS
  <2>2. (k = 0 /\ \A j \in 1..n : m[j].id # l[i].id) \/ (k \in 1..n /\ m[k].id = l[i].id)
    BY <1>2, <2>1, FindIs
  <2>3. k \in 1..n /\ l[k].id = l[i].id
    BY <1>2, <2>2
  <2> QED BY <1>1, <2>1, <2>3
<1>4. apply_log_line(m, p) = store_delete_idx(m, i)
  <2>1. i # 0
    OBVIOUS
  <2> QED BY <1>3, <2>1 DEF apply_log_line
<1>5. PICK a \in Seq(Rec) : a = store_delete_idx(m, i) /\ Len(a) = n - 1
        /\ \A j \in 1..(n - 1) : a[j] = IF j < i THEN m[j] ELSE m[j + 1]
  <2>1. /\ store_delete_idx(m, i) \in Seq(Rec) /\ Len(store_delete_idx(m, i)) = n - 1
        /\ \A j \in 1..(n - 1) : store_delete_idx(m, i)[j] = IF j < i THEN m[j] ELSE m[j + 1]
    BY <1>2, DeleteIs
  <2> QED BY <2>1, Zenon
<1>6. PICK c \in Seq(Rec) : c = store_delete_idx(l, i) /\ Len(c) = n - 1
        /\ \A j \in 1..(n - 1) : c[j] = IF j < i THEN l[j] ELSE l[j + 1]
  <2>1. /\ store_delete_idx(l, i) \in Seq(Rec) /\ Len(store_delete_idx(l, i)) = n - 1
        /\ \A j \in 1..(n - 1) : store_delete_idx(l, i)[j] = IF j < i THEN l[j] ELSE l[j + 1]
    BY <1>1, DeleteIs
  <2> QED BY <2>1, Zenon
<1>7. n - 1 \in Nat
  OBVIOUS
<1>8. PICK d \in Seq(Rec) : d = Normalised(c) /\ Len(d) = n - 1 /\ \A j \in 1..(n - 1) : d[j] = replayed(c[j])
  <2>1. Len(c) = n - 1
    BY <1>6
  <2> QED BY <1>7, <2>1, NormalisedIs, Zenon
<1>9. ASSUME NEW j \in 1..(n - 1) PROVE a[j] = d[j]
  <2>1. j \in 1..n /\ j + 1 \in 1..n
    OBVIOUS
  <2>2. d[j] = replayed(c[j])
    BY <1>8
  <2>3. CASE j < i
    <3>1. a[j] = m[j] /\ c[j] = l[j]
      BY <1>5, <1>6, <2>3
    <3> QED BY <1>2, <2>1, <2>2, <3>1, Zenon
  <2>4. CASE ~ (j < i)
    <3>1. a[j] = m[j + 1] /\ c[j] = l[j + 1]
      BY <1>5, <1>6, <2>4
    <3> QED BY <1>2, <2>1, <2>2, <3>1, Zenon
  <2> QED BY <2>3, <2>4
<1>10. a = d
  <2>1. Len(a) = n - 1 /\ Len(d) = n - 1
    BY <1>5, <1>8
  <2> QED BY <1>7, <1>9, <2>1, SameList
<1> QED BY <1>2, <1>4, <1>5, <1>6, <1>8, <1>10, Zenon

LEMMA OnePiece ==
  ASSUME NEW l \in Seq(PieceSet), NEW p \in PieceSet PROVE l \o <<p>> = Append(l, p) /\ Append(l, p) \in Seq(PieceSet)
  OBVIOUS

(* The three ways an operation may end, for any record.                     *)
LEMMA EndsKeep ==
  ASSUME RegistryInv, NEW op \in {"install", "uninstall"}, NEW r \in Rec, PersistFails(op, r) \/ Crash(op, r)
  PROVE  RegistryInv'
PROOF
<1>1. log \in Seq(PieceSet)
  BY DEF RegistryInv
<1>2. \A w, e \in BOOLEAN : Piece(op, r, w, e) \in PieceSet
  BY DEF Piece, PieceSet
<1>3. ASSUME NEW piece \in Torn(op, r) \cup {Written(op, r)}
      PROVE  \E p \in PieceSet : piece = <<p>> /\ log \o piece = Append(log, p) /\ Append(log, p) \in Seq(PieceSet)
  <2>1. \E p \in PieceSet : piece = <<p>>
    BY <1>2 DEF Torn, Written
  <2> QED BY <1>1, <2>1, OnePiece
<1>4. CASE Crash(op, r)
  <2>1. PICK piece \in Torn(op, r) \cup {Written(op, r)} : Opened(log \o piece)
    BY <1>4 DEF Crash
  <2>2. PICK more \in Seq(PieceSet) : more = log \o piece
    BY <1>3, Zenon
  <2> QED BY <2>1, <2>2, OpenedKeeps
<1>5. CASE UNCHANGED <<entries, log, torn>>
  BY <1>5 DEF RegistryInv
<1>6. CASE UNCHANGED entries
           /\ \E piece \in Torn(op, r) \cup {Written(op, r)} : log' = log \o piece /\ torn' = torn + 1
  <2>1. PICK piece \in Torn(op, r) \cup {Written(op, r)} : log' = log \o piece /\ torn' = torn + 1
    BY <1>6
  <2>2. PICK p \in PieceSet : log \o piece = Append(log, p)
    BY <1>3, Zenon
  <2> QED BY <1>6, <2>1, <2>2, FailureKeeps
<1> QED BY <1>4, <1>5, <1>6 DEF PersistFails

LEMMA InstallKeeps == ASSUME RegistryInv, Install PROVE RegistryInv'
PROOF
<1>1. PICK r \in Record : /\ find_idx(entries, r.id) = 0
                          /\ \/ Persisted("install", r, Append(entries, r))
                             \/ PersistFails("install", r)
                             \/ Crash("install", r)
  BY DEF Install
<1>2. r \in Rec
  BY RegistryConstants DEF Rec
<1>3. Registry(entries) /\ log \in Seq(PieceSet)
  BY DEF RegistryInv
<1>4. CASE PersistFails("install", r) \/ Crash("install", r)
  BY <1>2, <1>4, EndsKeep
<1>5. CASE Persisted("install", r, Append(entries, r))
  <2>1. PICK p \in PieceSet : p = Piece("install", r, TRUE, TRUE)
    BY <1>2 DEF Piece, PieceSet
  <2>2. p.op = "install" /\ p.rec = r /\ p.whole = TRUE /\ p.newline = TRUE
    BY <2>1 DEF Piece
  <2>3. log' = Append(log, p) /\ torn' = torn /\ entries' = Append(entries, r)
    BY <1>3, <1>5, <2>1, OnePiece DEF Persisted, Written
  <2>4. \A i \in 1..Len(entries) : entries[i].id # r.id
    <3>1. ~ (0 \in 1..Len(entries))
      BY <1>3 DEF Registry
    <3> QED BY <1>1, <1>3, <3>1, FindIs DEF Registry
  <2>5. PICK list : list = Append(entries, r)
    OBVIOUS
  <2>6. Registry(list) /\ Answer(list, r.id) = {replayed(r)} /\ \A id : id # r.id => Answer(list, id) = Answer(entries, id)
    BY <1>2, <1>3, <2>4, <2>5, Inserted
  <2>7. Answer(entries, r.id) = {}
    <3>1. \A x : x \notin Answer(entries, r.id)
      BY <2>4, AnswerIs
    <3> QED BY <3>1
  <2>8. ASSUME NEW l, Registry(l), Settled(l), Answer(l, r.id) = Answer(entries, r.id)
        PROVE  Answer(apply_log_line(l, p), r.id) = Answer(list, r.id)
    <3>1. Answer(apply_log_line(l, p), p.rec.id)
            = IF Answer(l, p.rec.id) = {} THEN {replayed(p.rec)} ELSE Answer(l, p.rec.id)
      BY <2>2, <2>8, LineApplied
    <3> QED BY <2>2, <2>6, <2>7, <2>8, <3>1
  <2>9. apply_log_line(Normalised(entries), p) = Normalised(list)
    BY <1>2, <1>3, <2>2, <2>4, <2>5, InstallNormal
  <2>10. \A id : id # p.rec.id => Answer(list, id) = Answer(entries, id)
    BY <2>2, <2>6
  <2>11. \A l : Registry(l) /\ Settled(l) /\ Answer(l, p.rec.id) = Answer(entries, p.rec.id)
                  => Answer(apply_log_line(l, p), p.rec.id) = Answer(list, p.rec.id)
    BY <2>2, <2>8
  <2>12. \A l : Registry(l) /\ Settled(l) /\ l = Normalised(entries) => apply_log_line(l, p) = Normalised(list)
    BY <2>9
  <2>13. entries' = list
    BY <2>3, <2>5
  <2> QED BY <2>2, <2>3, <2>6, <2>10, <2>11, <2>12, <2>13, PersistedKeeps
<1> QED BY <1>1, <1>4, <1>5

LEMMA UninstallKeeps == ASSUME RegistryInv, Uninstall PROVE RegistryInv'
PROOF
<1>1. PICK ext \in Extensions : \E i : /\ i = find_idx(entries, ext) /\ i # 0
                                     /\ \/ Persisted("uninstall", entries[i], store_delete_idx(entries, i))
                                        \/ PersistFails("uninstall", entries[i])
                                        \/ Crash("uninstall", entries[i])
  BY DEF Uninstall
<1>2. PICK i : /\ i = find_idx(entries, ext) /\ i # 0
               /\ \/ Persisted("uninstall", entries[i], store_delete_idx(entries, i))
                  \/ PersistFails("uninstall", entries[i])
                  \/ Crash("uninstall", entries[i])
  BY <1>1
<1>3. Registry(entries) /\ log \in Seq(PieceSet)
  BY DEF RegistryInv
<1>4. PICK n \in Nat : n = Len(entries) /\ entries \in Seq(Rec)
  BY <1>3 DEF Registry
<1>5. i \in 1..n
  BY <1>2, <1>4, FindIs
<1>6. PICK r \in Rec : r = entries[i]
  <2>1. entries[i] \in Rec
    BY <1>4, <1>5
  <2> QED BY <2>1, Zenon
<1>7. CASE PersistFails("uninstall", r) \/ Crash("uninstall", r)
  BY <1>7, EndsKeep
<1>8. CASE Persisted("uninstall", r, store_delete_idx(entries, i))
  <2>1. PICK p \in PieceSet : p = Piece("uninstall", r, TRUE, TRUE)
    BY DEF Piece, PieceSet
  <2>2. p.op = "uninstall" /\ p.rec = r /\ p.whole = TRUE /\ p.newline = TRUE
    BY <2>1 DEF Piece
  <2>3. PICK list : list = store_delete_idx(entries, i)
    OBVIOUS
  <2>4. log' = Append(log, p) /\ torn' = torn /\ entries' = list
    BY <1>3, <1>8, <2>1, <2>3, OnePiece DEF Persisted, Written
  <2>5. Registry(list) /\ Answer(list, r.id) = {} /\ \A id : id # r.id => Answer(list, id) = Answer(entries, id)
    <3>1. PICK l : l = entries
      OBVIOUS
    <3>2. Registry(l) /\ n = Len(l)
      BY <1>3, <1>4, <3>1
    <3>3. /\ Registry(store_delete_idx(l, i)) /\ Answer(store_delete_idx(l, i), l[i].id) = {}
          /\ \A id : id # l[i].id => Answer(store_delete_idx(l, i), id) = Answer(l, id)
      BY <1>5, <3>2, Deleted
    <3> QED BY <1>6, <2>3, <3>1, <3>3, Zenon
  <2>6. ASSUME NEW l, Registry(l), Settled(l) PROVE Answer(apply_log_line(l, p), r.id) = {}
    BY <2>2, <2>6, LineApplied
  <2>7. apply_log_line(Normalised(entries), p) = Normalised(list)
    BY <1>3, <1>4, <1>5, <1>6, <2>2, <2>3, UninstallNormal
  <2>8. \A id : id # p.rec.id => Answer(list, id) = Answer(entries, id)
    BY <2>2, <2>5
  <2>9. \A l : Registry(l) /\ Settled(l) /\ Answer(l, p.rec.id) = Answer(entries, p.rec.id)
                 => Answer(apply_log_line(l, p), p.rec.id) = Answer(list, p.rec.id)
    BY <2>2, <2>5, <2>6
  <2>10. \A l : Registry(l) /\ Settled(l) /\ l = Normalised(entries) => apply_log_line(l, p) = Normalised(list)
    BY <2>7
  <2> QED BY <2>2, <2>4, <2>5, <2>8, <2>9, <2>10, PersistedKeeps
<1> QED BY <1>2, <1>6, <1>7, <1>8

(* The invariant of the registry, through failed writes, crashes and        *)
(* restarts.                                                                *)
THEOREM RegistryInvariant == RegistrySpec => []RegistryInv
PROOF
<1>1. RegistryInit => RegistryInv
  <2> SUFFICES ASSUME RegistryInit PROVE RegistryInv
    OBVIOUS
  <2>1. <<>> \in Seq(PieceSet)
    OBVIOUS
  <2>2. PICK l \in Seq(PieceSet) : l = <<>> /\ DOMAIN l = 1..0
    <3>1. DOMAIN <<>> = 1..0
      OBVIOUS
    <3> QED BY <2>1, <3>1, Zenon
  <2>3. Run(l) = NewRegistry
    <3>1. 0 \in Nat /\ 0 = Len(l)
      BY <2>2
    <3>2. Replay(l)[1..0] = NewRegistry
      BY <3>1, ReplaySteps
    <3> QED BY <2>2, <3>2 DEF Run
  <2>4. Ready(NewRegistry) /\ NewRegistry.list = <<>> /\ NewRegistry.head
    BY NewIsReady DEF NewRegistry
  <2>5. Slack(NewRegistry.head, 0) \in Nat
    BY <2>4 DEF Slack
  <2>6. PICK e : e = NewRegistry.list /\ Registry(e) /\ Settled(e)
    BY <2>4 DEF Ready
  <2>7. Close(e, e, Slack(NewRegistry.head, 0))
    BY <2>5, CloseSame
  <2>8. e = Normalised(e)
    BY <2>6, SettledIsNormal DEF Registry
  <2>9. entries = e /\ log = l /\ torn = 0
    BY <2>2, <2>4, <2>6 DEF RegistryInit
  <2> QED BY <2>3, <2>6, <2>7, <2>8, <2>9 DEF RegistryInv
<1>2. RegistryInv /\ [RegistryNext]_registryVars => RegistryInv'
  <2> SUFFICES ASSUME RegistryInv, [RegistryNext]_registryVars PROVE RegistryInv'
    OBVIOUS
  <2>1. CASE Install
    BY <2>1, InstallKeeps
  <2>2. CASE Uninstall
    BY <2>2, UninstallKeeps
  <2>3. CASE Reopen
    <3>1. log \in Seq(PieceSet)
      BY DEF RegistryInv
    <3> QED BY <2>3, <3>1, OpenedKeeps DEF Reopen
  <2>4. CASE UNCHANGED registryVars
    BY <2>4 DEF registryVars, RegistryInv
  <2> QED BY <2>1, <2>2, <2>3, <2>4 DEF RegistryNext
<1> QED BY <1>1, <1>2, PTL DEF RegistrySpec

(* A restart brings back the list in memory when every write went through,  *)
(* and answers otherwise about two extensions at most for each one that     *)
(* failed; no extension is listed twice: for every set of extensions and    *)
(* records and a log of any length, torn at any piece.                      *)
THEOREM RegistryRestartIsFaithful == RegistrySpec => []RestartIsFaithful
PROOF
<1>1. RegistryInv => RestartIsFaithful
  <2> SUFFICES ASSUME RegistryInv PROVE RestartIsFaithful
    OBVIOUS
  <2>1. replay(log) = Run(log).list
    BY ReplayIs
  <2>2. torn = 0 => replay(log) = [i \in 1..Len(entries) |-> replayed(entries[i])]
    BY <2>1 DEF RegistryInv, Normalised
  <2>3. \A i, j \in 1..Len(entries) : i # j => entries[i].id # entries[j].id
    BY DEF RegistryInv, Registry, Distinct
  <2>4. Changed = Diff(Run(log).list, entries)
    BY <2>1 DEF Changed, Diff
  <2>5. torn \in Nat /\ Close(Run(log).list, entries, Slack(Run(log).head, torn))
    BY DEF RegistryInv
  <2>6. PICK b \in Int : b = Slack(Run(log).head, torn) /\ b <= 2 * torn
    <3>1. Slack(Run(log).head, torn) \in Int /\ Slack(Run(log).head, torn) <= 2 * torn
      BY <2>5 DEF Slack
    <3> QED BY <3>1, Zenon
  <2>7. PICK c \in Int : c = 2 * torn
    BY <2>5
  <2>8. Close(Run(log).list, entries, b)
    BY <2>5, <2>6, Zenon
  <2>a. b <= c
    BY <2>6, <2>7
  <2>9. Close(Run(log).list, entries, c)
    <3>1. PICK l, m : l = Run(log).list /\ m = entries
      OBVIOUS
    <3>2. Close(l, m, b)
      BY <2>8, <3>1, Zenon
    <3>3. Close(l, m, c)
      BY <2>a, <3>2, CloseMore
    <3> QED BY <3>1, <3>3, Zenon
  <2>10. Cardinality(Changed) <= 2 * torn
    BY <2>4, <2>7, <2>9 DEF Close
  <2> QED BY <2>2, <2>3, <2>10 DEF RestartIsFaithful
<1> QED BY <1>1, RegistryInvariant, PTL
=============================================================================
