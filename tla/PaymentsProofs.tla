--------------------------- MODULE PaymentsProofs ---------------------------
(***************************************************************************)
(* Theorems about the payment commands and the spend builder they share,   *)
(* for any wallet, any plan, any fee rate, any number of commands and any  *)
(* size of a transaction.                                                  *)
(*                                                                         *)
(* The argument: at every turn of the selection loop the running sum is    *)
(* that of the coins taken so far, and the loop goes on only while the     *)
(* amount and the fee of the estimate are not covered.  What is settled    *)
(* is a fee for the size with the change output; dropping the output makes *)
(* the transaction smaller by 36 bytes at most.  The coins a command has   *)
(* taken are different outputs at the node, worth what the listing said,   *)
(* so what the address has less afterwards is what was printed.            *)
(***************************************************************************)
EXTENDS Payments, SumTheorems, SequenceTheorems

-----------------------------------------------------------------------------
(* Sums along a sequence.                                                   *)

(* The sum of the first positions, one position at a time.                  *)
LEMMA SumNext ==
  ASSUME NEW w, NEW n \in Nat, \A i \in 1..(n + 1) : w[i] \in Int
  PROVE  SumFunctionOnSet(w, 1..(n + 1)) = SumFunctionOnSet(w, 1..n) + w[n + 1]
PROOF
<1>1. 1..(n + 1) = (1..n) \cup {n + 1} /\ n + 1 \notin 1..n
  OBVIOUS
<1>2. IsFiniteSet(1..n)
  BY FS_Interval
<1>3. w[n + 1] \in Int /\ \A i \in 1..n : w[i] \in Int
  OBVIOUS
<1>4. SumFunctionOnSet(w, (1..n) \cup {n + 1}) = w[n + 1] + SumFunctionOnSet(w, 1..n)
  BY <1>1, <1>2, <1>3, SumInsert
<1>5. SumFunctionOnSet(w, 1..n) \in Int
  BY <1>2, <1>3, SumInt
<1>6. SumFunctionOnSet(w, 1..(n + 1)) = w[n + 1] + SumFunctionOnSet(w, 1..n)
  BY <1>1, <1>4, Zenon
<1> QED BY <1>3, <1>5, <1>6

(* The total of amounts is a sum over their positions.                      *)
LEMMA TotalIsSum == ASSUME NEW s PROVE Total(s) = SumFunctionOnSet(s, DOMAIN s)
  BY DEF Total, FoldSeq, FoldFunction, SumFunctionOnSet, FoldFunctionOnSet

(* Totals of a sequence, of its prefixes and of a longer one.               *)
LEMMA Totals ==
  /\ Total(<<>>) = 0
  /\ \A s \in Seq(Int) : Total(s) \in Int
  /\ \A s \in Seq(Int), x \in Int : Total(Append(s, x)) = Total(s) + x
  /\ \A s \in Seq(Int) : \A n \in 1..Len(s) : Total(SubSeq(s, 1, n)) = Total(SubSeq(s, 1, n - 1)) + s[n]
PROOF
<1>1. Total(<<>>) = 0
  <2>1. DOMAIN <<>> = {}
    OBVIOUS
  <2> QED BY <2>1, TotalIsSum, SumEmpty
<1>2. ASSUME NEW s \in Seq(Int) PROVE Total(s) \in Int
  <2>1. DOMAIN s = 1..Len(s) /\ Len(s) \in Nat /\ \A i \in 1..Len(s) : s[i] \in Int
    OBVIOUS
  <2>2. IsFiniteSet(1..Len(s))
    BY <2>1, FS_Interval
  <2> QED BY <2>1, <2>2, TotalIsSum, SumInt
<1>3. ASSUME NEW s \in Seq(Int), NEW x \in Int PROVE Total(Append(s, x)) = Total(s) + x
  <2>1. PICK n \in Nat : n = Len(s)
    OBVIOUS
  <2>2. PICK p : p = Append(s, x)
    OBVIOUS
  <2>3. DOMAIN s = 1..n /\ \A i \in 1..n : s[i] \in Int
    BY <2>1
  <2>4. DOMAIN p = 1..(n + 1) /\ p[n + 1] = x /\ \A i \in 1..n : p[i] = s[i]
    BY <2>1, <2>2
  <2>5. \A i \in 1..(n + 1) : p[i] \in Int
    BY <2>3, <2>4
  <2>6. SumFunctionOnSet(p, 1..(n + 1)) = SumFunctionOnSet(p, 1..n) + p[n + 1]
    BY <2>5, SumNext
  <2>7. SumFunctionOnSet(p, 1..n) = SumFunctionOnSet(s, 1..n)
    <3>1. IsFiniteSet(1..n)
      BY FS_Interval
    <3> QED BY <2>4, <3>1, SumSameWeights
  <2> QED BY <2>2, <2>3, <2>4, <2>6, <2>7, TotalIsSum
<1>4. ASSUME NEW s \in Seq(Int), NEW n \in 1..Len(s)
      PROVE  Total(SubSeq(s, 1, n)) = Total(SubSeq(s, 1, n - 1)) + s[n]
  <2>1. SubSeq(s, 1, n - 1) \in Seq(Int) /\ s[n] \in Int
    OBVIOUS
  <2>2. SubSeq(s, 1, n) = Append(SubSeq(s, 1, n - 1), s[n])
    OBVIOUS
  <2> QED BY <1>3, <2>1, <2>2
<1> QED BY <1>1, <1>2, <1>3, <1>4
-----------------------------------------------------------------------------
(* Sizes and fees.                                                          *)
Rate(r) == IF r = 0 THEN 50 ELSE r

(* Sizes are natural numbers, and one more output makes a transaction       *)
(* longer, by its own bytes and at most two of the output count.            *)
LEMMA Sizes ==
  ASSUME NEW k \in Nat, NEW n \in Nat, NEW d \in Nat
  PROVE  /\ estimate_size(k, n, d) \in Nat /\ est_size_by_counts(k, n, d) \in Nat
         /\ estimate_size(k, n, d) <= estimate_size(k, n + 1, d)
         /\ estimate_size(k, n + 1, d) <= estimate_size(k, n, d) + 36
PROOF
<1>1. \A m \in Nat : write_varint(m) \in {1, 3, 5} /\ write_varint(m) <= write_varint(m + 1)
                    /\ write_varint(m + 1) <= write_varint(m) + 2
  BY DEF write_varint
<1>2. input_size = 149 /\ output_size(25) = 34
  BY DEF input_size, output_size, write_varint, P2PKH_SCRIPTSIG_MAX
<1>3. output_size(d) \in Nat
  BY <1>1 DEF output_size
<1>4. PICK e \in {0, 1} : e = IF d = 0 THEN 0 ELSE 1
  OBVIOUS
<1>5. PICK x \in Nat : x = IF d = 0 THEN 0 ELSE output_size(d)
  BY <1>3
<1>6. n + e \in Nat /\ n + 1 + e = n + e + 1
  OBVIOUS
<1>7. estimate_size(k, n, d) = 8 + write_varint(k) + write_varint(n + e) + k * 149 + n * 34 + x
  BY <1>2, <1>4, <1>5 DEF estimate_size
<1>8. estimate_size(k, n + 1, d) = 8 + write_varint(k) + write_varint(n + e + 1) + k * 149 + (n + 1) * 34 + x
  BY <1>2, <1>4, <1>5, <1>6 DEF estimate_size
<1>9. /\ write_varint(k) \in Nat /\ write_varint(n + e) \in Nat /\ write_varint(n + e + 1) \in Nat
      /\ write_varint(n + e) <= write_varint(n + e + 1) /\ write_varint(n + e + 1) <= write_varint(n + e) + 2
  BY <1>1, <1>6
<1>10. est_size_by_counts(k, n, d) \in Nat
  BY DEF est_size_by_counts
<1> HIDE DEF write_varint
<1> QED BY <1>2, <1>7, <1>8, <1>9, <1>10

(* The settled size passes the estimate by one byte per input at most.      *)
LEMMA SizeGap ==
  ASSUME NEW k \in Nat, NEW n \in Nat, NEW d \in Nat, NEW m, m = n + 1 + IF d = 0 THEN 0 ELSE 1
  PROVE  estimate_size(k, n + 1, d) <= est_size_by_counts(k, m, d) + k
PROOF
<1>1. \A j \in Nat : write_varint(j) \in 1..5
  BY DEF write_varint
<1>2. input_size = 149 /\ output_size(25) = 34
  BY DEF input_size, output_size, write_varint, P2PKH_SCRIPTSIG_MAX
<1>3. CASE d = 0
  <2>1. estimate_size(k, n + 1, d) = 8 + write_varint(k) + write_varint(n + 1) + k * 149 + (n + 1) * 34
    BY <1>1, <1>2, <1>3 DEF estimate_size
  <2>2. est_size_by_counts(k, m, d) = 19 + k * 148 + (n + 1) * 34
    BY <1>3 DEF est_size_by_counts
  <2>3. write_varint(k) \in 1..5 /\ write_varint(n + 1) \in 1..5
    BY <1>1
  <2> HIDE DEF write_varint
  <2> QED BY <2>1, <2>2, <2>3
<1>4. CASE d # 0
  <2>1. estimate_size(k, n + 1, d)
          = 8 + write_varint(k) + write_varint(n + 2) + k * 149 + (n + 1) * 34 + 8 + write_varint(d) + d
    BY <1>1, <1>2, <1>4 DEF estimate_size, output_size
  <2>2. est_size_by_counts(k, m, d) = 19 + k * 148 + (n + 2) * 34 + 11 + d
    BY <1>4 DEF est_size_by_counts
  <2>3. write_varint(k) \in 1..5 /\ write_varint(n + 2) \in 1..5 /\ write_varint(d) \in 1..5
    BY <1>1
  <2> HIDE DEF write_varint
  <2> QED BY <2>1, <2>2, <2>3
<1> QED BY <1>3, <1>4

(* The bytes of a change output, and of the longer output count.            *)
LEMMA ChangeBytes == output_size(25) + 2 = 36
  BY DEF output_size, write_varint

(* A fee is that of the rate, or one more for the floating point.           *)
LEMMA Fees ==
  ASSUME NEW size \in Nat, NEW r \in Nat
  PROVE  /\ MinFee(size, r) \in Nat
         /\ \A fee \in fee_for(size, r) : fee \in {MinFee(size, r), MinFee(size, r) + 1}
PROOF
<1>1. PICK q \in Nat : q = Rate(r)
  BY DEF Rate
<1>2. size * q \in Nat
  BY <1>1
<1>3. PICK m \in Nat : m = Ceil(size * q, 1000)
  <2>1. Ceil(size * q, 1000) \in Nat
    BY <1>2 DEF Ceil
  <2> QED BY <2>1
<1>4. MinFee(size, r) = m
  BY <1>1, <1>3 DEF MinFee, Rate
<1>5. fee_for(size, r) = fee_for_size(size, q)
  BY <1>1 DEF fee_for, Rate
<1>6. \A fee \in fee_for_size(size, q) : fee \in {m, m + 1}
  BY <1>3 DEF fee_for_size
<1> QED BY <1>4, <1>5, <1>6

(* Bytes added cost no more than their own fee.                             *)
LEMMA FeeGrows ==
  ASSUME NEW s \in Nat, NEW t \in Nat, NEW x \in Nat, NEW r \in Nat, t <= s + x
  PROVE  MinFee(t, r) <= MinFee(s, r) + MinFee(x, r)
PROOF
<1>1. PICK q \in Nat : q = Rate(r)
  BY DEF Rate
<1>2. PICK e \in Nat : t + e = s + x
  <2>1. s + x - t \in Nat /\ t + (s + x - t) = s + x
    OBVIOUS
  <2> QED BY <2>1
<1>3. t * q + e * q = s * q + x * q
  <2>1. (t + e) * q = t * q + e * q /\ (s + x) * q = s * q + x * q
    OBVIOUS
  <2> QED BY <1>2, <2>1
<1>4. t * q \in Nat /\ e * q \in Nat /\ s * q \in Nat /\ x * q \in Nat
  OBVIOUS
<1>5. PICK a \in Nat, b \in Nat, c \in Nat, d \in Nat : a = t * q /\ b = e * q /\ c = s * q /\ d = x * q
  BY <1>4
<1>6. MinFee(t, r) = Ceil(a, 1000) /\ MinFee(s, r) = Ceil(c, 1000) /\ MinFee(x, r) = Ceil(d, 1000)
  BY <1>1, <1>5 DEF MinFee, Rate
<1>7. a <= c + d
  BY <1>3, <1>5
<1>8. Ceil(a, 1000) <= Ceil(c, 1000) + Ceil(d, 1000)
  BY <1>7 DEF Ceil
<1> QED BY <1>6, <1>8

(* No bytes, no fee.                                                        *)
LEMMA FeeOfNothing == ASSUME NEW r \in Nat PROVE MinFee(0, r) = 0
PROOF
<1>1. PICK q \in Nat : q = Rate(r)
  BY DEF Rate
<1>2. 0 * q = 0
  OBVIOUS
<1>3. MinFee(0, r) = Ceil(0, 1000)
  BY <1>1, <1>2 DEF MinFee, Rate
<1> QED BY <1>3 DEF Ceil

-----------------------------------------------------------------------------
(* The builder.                                                             *)
Plans == [recipients : Seq(Int), data : Nat, send_all : BOOLEAN, fee_per_kb : Nat]
CoinRec == [outpoint : Nat \X Nat, sats : Nat, confirmed : BOOLEAN]
BuildType ==
  /\ pc \in {"idle", "check", "select", "settle", "done", "failed", "child"}
  /\ plan \in Plans /\ utxos \in Seq(CoinRec) /\ result.outputs \in Seq(Int)
  /\ total_recip \in 0..MAX_MONEY /\ running_in \in 0..MAX_MONEY /\ sel_count \in 0..Len(utxos)

(* The running sum is that of the coins taken.                              *)
Taken == running_in = funding_utxos_total(SubSeq(utxos, 1, sel_count))

(* Nothing is taken before the plan was checked, and a reason is given only *)
(* by a refusal.                                                            *)
Fresh == pc \in {"idle", "check", "child"} => total_recip = 0 /\ running_in = 0 /\ sel_count = 0
FeeShort ==
  running_in + MinFee(sel_count, plan.fee_per_kb) >= total_recip + MinFee(Settled, plan.fee_per_kb)
Reasons ==
  /\ pc # "failed" => why = ""
  /\ why = "insufficient funds" => sel_count = Len(utxos)
  /\ why = "insufficient funds for fee" => FeeShort

(* The plan was checked and its amounts added up.                           *)
Checked == pc \in {"select", "settle", "done"} =>
  ~ BadArguments /\ total_recip = IF plan.send_all THEN 0 ELSE Total(plan.recipients)

(* The selection goes on only while what it has does not suffice.           *)
Short(sum, k) == sum < total_recip + MinFee(est_size_by_counts(k, NumOut, Script), plan.fee_per_kb) + 1
Open == pc = "select" /\ ~ plan.send_all => Short(running_in, sel_count)
Tight == pc \in {"settle", "done"} /\ ~ plan.send_all =>
  sel_count >= 1 /\ Short(running_in - utxos[sel_count].sats, sel_count - 1)

(* It stops once the estimate is covered.                                   *)
Covered == pc = "settle" /\ ~ plan.send_all =>
  running_in >= total_recip + MinFee(est_size_by_counts(sel_count, NumOut, Script), plan.fee_per_kb)

(* A sweep has no change.                                                   *)
Change == pc = "done" =>
  result.change \in Nat /\ result.fee \in Int /\ (plan.send_all => result.change = 0)

BuildOK == /\ BuildType /\ Taken /\ Fresh /\ Reasons /\ Checked /\ Open /\ Tight /\ Covered /\ Change
           /\ SpendAddsUp /\ FeeIsFair

(* The values of coins, and their total as the sum over the positions.      *)
SatsIn(q) == [i \in DOMAIN q |-> q[i].sats]

LEMMA CoinTotal == ASSUME NEW q PROVE funding_utxos_total(q) = Total(SatsIn(q))
PROOF
<1> DEFINE D == DOMAIN q
           v == SatsIn(q)
           R(F) == [s \in SUBSET D |-> IF s = {} THEN 0 ELSE q[First(s)].sats + F[s \ {First(s)}]]
           Q(F) == [s \in SUBSET D |-> IF s = {} THEN 0 ELSE v[First(s)] + F[s \ {First(s)}]]
<1>1. \A s \in SUBSET D : s # {} => v[First(s)] = q[First(s)].sats
  BY FirstIn DEF SatsIn
<1>2. \A F : R(F) = Q(F)
  <2> HIDE DEF v
  <2> QED BY <1>1
<1>3. funding_utxos_total(q) = (CHOOSE F : F = R(F))[D]
  BY DEF funding_utxos_total, FoldSeq, FoldFunction, FoldFunctionOnSet, MapThenFoldSet, First
<1>4. SumFunctionOnSet(v, D) = (CHOOSE F : F = Q(F))[D]
  <2> HIDE DEF v
  <2> QED BY SumIsIter DEF Iter, IsIter
<1> HIDE DEF R, Q
<1>5. (CHOOSE F : F = R(F)) = (CHOOSE F : F = Q(F))
  BY <1>2, Zenon
<1>6. DOMAIN v = D
  BY DEF SatsIn
<1> QED BY <1>3, <1>4, <1>5, <1>6, TotalIsSum

(* The coins taken add up coin by coin.                                     *)
LEMMA CoinTotals ==
  ASSUME NEW u \in Seq(CoinRec)
  PROVE  /\ funding_utxos_total(SubSeq(u, 1, 0)) = 0
         /\ \A n \in 1..Len(u) :
              /\ funding_utxos_total(SubSeq(u, 1, n)) = funding_utxos_total(SubSeq(u, 1, n - 1)) + u[n].sats
              /\ u[n].sats \in Nat
PROOF
<1> DEFINE v == SatsIn(u)
<1>1. v \in Seq(Int) /\ Len(v) = Len(u) /\ \A n \in 1..Len(u) : v[n] = u[n].sats /\ v[n] \in Nat
  <2>a. DOMAIN u = 1..Len(u) /\ Len(u) \in Nat /\ \A n \in 1..Len(u) : u[n] \in CoinRec
    OBVIOUS
  <2>1. \A n \in 1..Len(u) : u[n].sats \in Nat
    BY <2>a DEF CoinRec
  <2>2. v = [n \in 1..Len(u) |-> u[n].sats]
    BY <2>a DEF SatsIn
  <2> HIDE DEF v
  <2> QED BY <2>a, <2>1, <2>2
<1>2. ASSUME NEW n \in 0..Len(u) PROVE SatsIn(SubSeq(u, 1, n)) = SubSeq(v, 1, n)
  BY <1>1 DEF SatsIn
<1> HIDE DEF v
<1>3. ASSUME NEW n \in 0..Len(u) PROVE funding_utxos_total(SubSeq(u, 1, n)) = Total(SubSeq(v, 1, n))
  BY <1>2, CoinTotal
<1>4. SubSeq(v, 1, 0) = <<>> /\ 0 \in 0..Len(u)
  BY <1>1
<1>5. ASSUME NEW n \in 1..Len(u)
      PROVE  /\ n \in 0..Len(u) /\ n - 1 \in 0..Len(u)
             /\ Total(SubSeq(v, 1, n)) = Total(SubSeq(v, 1, n - 1)) + u[n].sats
             /\ u[n].sats \in Nat
  <2>1. n \in 1..Len(v) /\ v[n] = u[n].sats /\ v[n] \in Nat
    BY <1>1
  <2>2. Total(SubSeq(v, 1, n)) = Total(SubSeq(v, 1, n - 1)) + v[n]
    BY <1>1, <2>1, Totals
  <2>3. n \in 0..Len(u) /\ n - 1 \in 0..Len(u)
    OBVIOUS
  <2> QED BY <2>1, <2>2, <2>3
<1> QED BY <1>3, <1>4, <1>5, Totals

(* Sizes of the plan at hand.                                               *)
LEMMA PlanSizes ==
  ASSUME plan \in Plans
  PROVE  /\ Script \in Nat /\ NumOut \in Nat /\ Len(plan.recipients) \in Nat /\ plan.fee_per_kb \in Nat
         /\ plan.recipients \in Seq(Int) /\ plan.send_all \in BOOLEAN
PROOF
<1>1. plan.recipients \in Seq(Int) /\ plan.data \in Nat /\ plan.send_all \in BOOLEAN /\ plan.fee_per_kb \in Nat
  BY DEF Plans
<1>2. Len(plan.recipients) \in Nat
  BY <1>1
<1>3. opreturn_script(plan.data) \in Nat
  BY <1>1 DEF opreturn_script
<1>4. Script \in Nat
  BY <1>1, <1>3 DEF Script
<1>5. NumOut \in Nat
  <2>1. PICK a \in Nat, b \in Nat : a = (IF plan.data = 0 THEN 0 ELSE 1) /\ b = (IF plan.send_all THEN 0 ELSE 1)
    OBVIOUS
  <2>2. NumOut = Len(plan.recipients) + a + b
    BY <2>1 DEF NumOut
  <2> QED BY <1>2, <2>2
<1> QED BY <1>1, <1>2, <1>4, <1>5

(* The settled size against the estimate, of the plan at hand.              *)
LEMMA PlanGap ==
  ASSUME plan \in Plans, ~ plan.send_all, NEW k \in Nat
  PROVE  estimate_size(k, Len(plan.recipients) + 1, Script) <= est_size_by_counts(k, NumOut, Script) + k
PROOF
<1>1. PICK n \in Nat : n = Len(plan.recipients)
  BY PlanSizes
<1>2. plan.data \in Nat /\ Script \in Nat
  BY PlanSizes DEF Plans
<1>3. Script = 0 <=> plan.data = 0
  <2>1. opreturn_script(plan.data) \in Nat \ {0}
    BY <1>2 DEF opreturn_script
  <2> QED BY <2>1 DEF Script
<1>4. NumOut = n + 1 + IF Script = 0 THEN 0 ELSE 1
  <2>1. PICK a \in {0, 1} : a = IF plan.data = 0 THEN 0 ELSE 1
    OBVIOUS
  <2>2. a = IF Script = 0 THEN 0 ELSE 1
    BY <1>3, <2>1
  <2>3. NumOut = n + a + 1
    BY <1>1, <2>1 DEF NumOut
  <2> QED BY <2>2, <2>3
<1>5. PICK d \in Nat : d = Script
  BY <1>2
<1>6. PICK m \in Int : m = NumOut
  BY <1>4
<1> QED BY <1>1, <1>4, <1>5, <1>6, SizeGap

(* What passed the checks adds up within the money supply.                  *)
LEMMA CheckedTotal ==
  ASSUME plan \in Plans, ~ BadArguments, ~ plan.send_all
  PROVE  /\ Total(plan.recipients) \in 0..MAX_MONEY
         /\ \A i \in 1..Len(plan.recipients) : plan.recipients[i] >= WALLET_DUST_THRESHOLD
PROOF
<1>1. PICK r \in Seq(Int) : r = plan.recipients
  BY DEF Plans
<1>2. /\ \A i \in 1..Len(r) : r[i] >= WALLET_DUST_THRESHOLD
      /\ \A i \in 1..Len(r) : in_money_range(Total(SubSeq(r, 1, i - 1)), r[i])
  <2>1. /\ \A i \in 1..Len(plan.recipients) : ~ (plan.recipients[i] < WALLET_DUST_THRESHOLD)
        /\ \A i \in 1..Len(plan.recipients) :
             in_money_range(Total(SubSeq(plan.recipients, 1, i - 1)), plan.recipients[i])
    BY DEF BadArguments
  <2>2. \A i \in 1..Len(r) : r[i] \in Int /\ ~ (r[i] < WALLET_DUST_THRESHOLD)
    BY <1>1, <2>1
  <2>3. \A i \in 1..Len(r) : r[i] >= WALLET_DUST_THRESHOLD
    BY <2>2 DEF WALLET_DUST_THRESHOLD
  <2> QED BY <1>1, <2>1, <2>3, Zenon
<1>3. MAX_MONEY \in Nat
  BY FundingConstants
<1>4. CASE Len(r) = 0
  <2>1. r = <<>>
    BY <1>4
  <2> QED BY <1>1, <1>2, <1>3, <2>1, Totals
<1>5. CASE Len(r) # 0
  <2>1. PICK n \in Nat : n = Len(r) /\ n \in 1..Len(r)
    BY <1>5
  <2>2. r = SubSeq(r, 1, n)
    BY <2>1
  <2>3. Total(r) = Total(SubSeq(r, 1, n - 1)) + r[n]
    BY <2>1, <2>2, Totals
  <2>4. in_money_range(Total(SubSeq(r, 1, n - 1)), r[n])
    BY <1>2, <2>1
  <2>5. Total(SubSeq(r, 1, n - 1)) \in Int /\ r[n] \in Int
    <3>1. SubSeq(r, 1, n - 1) \in Seq(Int) /\ r[n] \in Int
      BY <2>1
    <3> QED BY <3>1, Totals
  <2>6. Total(r) <= MAX_MONEY
    BY <1>3, <2>3, <2>4, <2>5 DEF in_money_range
  <2>7. Total(r) \in Nat
    <3>1. DOMAIN r = 1..Len(r) /\ IsFiniteSet(1..Len(r)) /\ 1..Len(r) \in SUBSET (1..Len(r))
      BY FS_Interval
    <3>2. \A i \in 1..Len(r) : r[i] \in Nat
      BY <1>2 DEF WALLET_DUST_THRESHOLD
    <3>3. SumFunctionOnSet(r, 1..Len(r)) \in Nat
      BY <3>1, <3>2, SumSubset
    <3> QED BY <3>1, <3>3, TotalIsSum
  <2> QED BY <1>1, <1>2, <1>3, <2>6, <2>7
<1> QED BY <1>4, <1>5

(* A refusal keeps what there is, and gives a reason.                       *)
LEMMA FailStep ==
  ASSUME BuildOK, NEW reason, reason = "insufficient funds" => sel_count = Len(utxos),
         reason = "insufficient funds for fee" => FeeShort, Fail(reason)
  PROVE  BuildOK'
PROOF
<1>1. /\ pc' = "failed" /\ why' = reason
      /\ UNCHANGED <<plan, utxos, total_recip, sel_count, running_in, result>>
  BY DEF Fail
<1>2. FeeShort' <=> FeeShort
  BY <1>1 DEF FeeShort, Settled, Script
<1>3. BuildType' /\ Taken' /\ Fresh' /\ Reasons'
  BY <1>1, <1>2 DEF BuildOK, BuildType, Taken, Fresh, Reasons
<1>4. Checked' /\ Open' /\ Tight' /\ Covered' /\ Change' /\ SpendAddsUp' /\ FeeIsFair'
  BY <1>1 DEF BuildOK, Checked, Open, Tight, Covered, Change, SpendAddsUp, FeeIsFair
<1> QED BY <1>3, <1>4 DEF BuildOK

(* Checking the arguments.                                                  *)
LEMMA CheckStep == ASSUME BuildOK, Check PROVE BuildOK'
PROOF
<1>1. CASE BadArguments /\ Fail("bad arguments")
  BY <1>1, FailStep
<1>2. CASE ~ BadArguments
  <2>1. /\ pc = "check" /\ pc' = "select"
        /\ total_recip' = IF plan.send_all THEN 0 ELSE Total(plan.recipients)
        /\ UNCHANGED <<plan, utxos, sel_count, running_in, result, why>>
    BY <1>2 DEF Check
  <2>2. total_recip' \in 0..MAX_MONEY
    <3>1. plan \in Plans /\ plan.send_all \in BOOLEAN /\ 0 \in 0..MAX_MONEY
      BY FundingConstants DEF BuildOK, BuildType, Plans
    <3> QED BY <1>2, <2>1, <3>1, CheckedTotal
  <2>3. BuildType' /\ Taken' /\ Fresh' /\ Reasons'
    BY <2>1, <2>2 DEF BuildOK, BuildType, Taken, Fresh, Reasons
  <2>4. Checked'
    <3>1. BadArguments' = BadArguments
      BY <2>1 DEF BadArguments
    <3> QED BY <1>2, <2>1, <3>1 DEF Checked
  <2>5. Open'
    <3>1. Script \in Nat /\ NumOut \in Nat /\ plan.fee_per_kb \in Nat
      BY PlanSizes DEF BuildOK, BuildType
    <3>2. est_size_by_counts(0, NumOut, Script) \in Nat
      BY <3>1, Sizes
    <3>3. MinFee(est_size_by_counts(0, NumOut, Script), plan.fee_per_kb) \in Nat
      BY <3>1, <3>2, Fees
    <3>4. running_in = 0 /\ sel_count = 0
      BY <2>1 DEF BuildOK, Fresh
    <3>5. NumOut' = NumOut /\ Script' = Script
      BY <2>1 DEF NumOut, Script
    <3> QED BY <2>1, <2>2, <3>3, <3>4, <3>5 DEF Open, Short
  <2>6. Tight' /\ Covered' /\ Change' /\ SpendAddsUp' /\ FeeIsFair'
    BY <2>1, <2>2 DEF BuildOK, Tight, Covered, Change, SpendAddsUp, FeeIsFair
  <2> QED BY <2>3, <2>4, <2>5, <2>6 DEF BuildOK
<1> QED BY <1>1, <1>2 DEF Check

(* Estimates and the fees for them, at any number of coins.                 *)
LEMMA Estimates ==
  ASSUME plan \in Plans, NEW k \in Nat
  PROVE  /\ MinFee(est_size_by_counts(k, NumOut, Script), plan.fee_per_kb) \in Nat
         /\ \A fee \in fee_for(est_size_by_counts(k, NumOut, Script), plan.fee_per_kb) :
              /\ fee \in Nat
              /\ fee >= MinFee(est_size_by_counts(k, NumOut, Script), plan.fee_per_kb)
              /\ fee <= MinFee(est_size_by_counts(k, NumOut, Script), plan.fee_per_kb) + 1
PROOF
<1>1. Script \in Nat /\ NumOut \in Nat /\ plan.fee_per_kb \in Nat
  BY PlanSizes
<1>2. PICK size \in Nat : size = est_size_by_counts(k, NumOut, Script)
  BY <1>1, Sizes
<1>3. PICK m \in Nat : m = MinFee(size, plan.fee_per_kb)
  BY <1>1, Fees
<1>4. \A fee \in fee_for(size, plan.fee_per_kb) : fee \in {m, m + 1}
  BY <1>1, <1>3, Fees
<1>5. \A fee \in fee_for(size, plan.fee_per_kb) : fee \in Nat /\ fee >= m /\ fee <= m + 1
  BY <1>4
<1> QED BY <1>2, <1>3, <1>5

(* One turn of the selection loop.                                          *)
LEMMA SelectStep == ASSUME BuildOK, Select PROVE BuildOK'
PROOF
<1> DEFINE v == utxos[sel_count + 1].sats
<1>1. /\ pc = "select" /\ sel_count \in Nat /\ sel_count + 1 \in 1..Len(utxos) /\ plan \in Plans
      /\ utxos \in Seq(CoinRec) /\ running_in \in 0..MAX_MONEY /\ total_recip \in 0..MAX_MONEY /\ MAX_MONEY \in Nat
  <2>1. pc = "select" /\ sel_count < Len(utxos)
    BY DEF Select
  <2>2. /\ sel_count \in 0..Len(utxos) /\ plan \in Plans /\ utxos \in Seq(CoinRec)
        /\ running_in \in 0..MAX_MONEY /\ total_recip \in 0..MAX_MONEY
    BY DEF BuildOK, BuildType
  <2>3. Len(utxos) \in Nat
    BY <2>2
  <2> QED BY <2>1, <2>2, <2>3, FundingConstants
<1>2. CASE ~ in_money_range(running_in, v)
  <2>1. Fail("funding value out of range")
    BY <1>2 DEF Select
  <2> QED BY <2>1, FailStep
<1>3. CASE in_money_range(running_in, v)
  <2>1. /\ sel_count' = sel_count + 1 /\ running_in' = running_in + v
        /\ UNCHANGED <<plan, utxos, total_recip, result>>
    BY <1>3 DEF Select
  <2>2. \/ plan.send_all /\ pc' = "select" /\ UNCHANGED why
        \/ /\ ~ plan.send_all
           /\ \E fee \in fee_for(est_size_by_counts(sel_count + 1, NumOut, Script), plan.fee_per_kb) :
                \/ pc' = "failed" /\ why' = "spend total out of range"
                \/ pc' = "settle" /\ running_in + v >= total_recip + fee /\ UNCHANGED why
                \/ pc' = "select" /\ ~ (running_in + v >= total_recip + fee) /\ UNCHANGED why
    BY <1>3 DEF Select
  <2>3. v \in Nat /\ funding_utxos_total(SubSeq(utxos, 1, sel_count + 1)) = funding_utxos_total(SubSeq(utxos, 1, sel_count)) + v
    <3>1. PICK n \in 1..Len(utxos) : n = sel_count + 1 /\ n - 1 = sel_count
      BY <1>1
    <3> HIDE DEF v
    <3>2. /\ funding_utxos_total(SubSeq(utxos, 1, n)) = funding_utxos_total(SubSeq(utxos, 1, n - 1)) + utxos[n].sats
          /\ utxos[n].sats \in Nat
      BY <1>1, CoinTotals
    <3> QED BY <3>1, <3>2 DEF v
  <2> HIDE DEF v
  <2>4. running_in' \in 0..MAX_MONEY /\ sel_count' \in 0..Len(utxos') /\ sel_count' - 1 = sel_count
    BY <1>1, <1>3, <2>1, <2>3 DEF in_money_range
  <2>5. running_in' - v = running_in
    BY <1>1, <2>1, <2>3
  <2>6. NumOut' = NumOut /\ Script' = Script /\ BadArguments' = BadArguments
    BY <2>1 DEF NumOut, Script, BadArguments
  <2>7. pc' \in {"select", "settle", "failed"} /\ (pc' # "failed" => why' = why)
        /\ why' \notin {"insufficient funds", "insufficient funds for fee"}
    BY <1>1, <2>2 DEF BuildOK, Reasons
  <2>8. BuildType' /\ Fresh' /\ Reasons'
    BY <1>1, <2>1, <2>4, <2>7 DEF BuildOK, BuildType, Fresh, Reasons
  <2>9. Taken'
    BY <2>1, <2>3 DEF BuildOK, Taken
  <2>10. Checked'
    BY <1>1, <2>1, <2>6, <2>7 DEF BuildOK, Checked
  <2>11. Open'
    <3>1. CASE pc' = "select" /\ ~ plan.send_all
      <4>1. PICK fee \in fee_for(est_size_by_counts(sel_count + 1, NumOut, Script), plan.fee_per_kb) :
              ~ (running_in + v >= total_recip + fee)
        BY <2>2, <3>1
      <4>2. sel_count + 1 \in Nat
        BY <1>1
      <4>3. PICK m \in Nat : m = MinFee(est_size_by_counts(sel_count + 1, NumOut, Script), plan.fee_per_kb)
        BY <1>1, <4>2, Estimates
      <4>4. fee \in Nat /\ fee <= m + 1
        BY <1>1, <4>1, <4>2, <4>3, Estimates
      <4>5. running_in' < total_recip + m + 1
        BY <1>1, <2>1, <2>3, <4>1, <4>4
      <4> QED BY <2>1, <2>6, <4>3, <4>5 DEF Open, Short
    <3> QED BY <2>1, <3>1 DEF Open
  <2>12. Tight'
    <3>1. CASE pc' = "settle" /\ ~ plan.send_all
      <4>1. Short(running_in, sel_count)
        BY <1>1, <3>1 DEF BuildOK, Open
      <4>2. (running_in - utxos[sel_count].sats)' = running_in /\ (sel_count - 1)' = sel_count /\ sel_count' >= 1
        BY <1>1, <2>1, <2>4, <2>5 DEF v
      <4> QED BY <2>1, <2>6, <4>1, <4>2 DEF Tight, Short
    <3> QED BY <2>1, <2>7, <3>1 DEF Tight
  <2>13. SpendAddsUp' /\ FeeIsFair' /\ Change'
    BY <1>1, <2>1, <2>4, <2>7 DEF SpendAddsUp, FeeIsFair, Change
  <2>14. Covered'
    <3>1. CASE pc' = "settle" /\ ~ plan.send_all
      <4>1. PICK fee \in fee_for(est_size_by_counts(sel_count + 1, NumOut, Script), plan.fee_per_kb) :
              running_in + v >= total_recip + fee
        BY <2>2, <3>1
      <4>2. sel_count + 1 \in Nat
        BY <1>1
      <4>3. PICK m \in Nat : m = MinFee(est_size_by_counts(sel_count + 1, NumOut, Script), plan.fee_per_kb)
        BY <1>1, <4>2, Estimates
      <4>4. fee \in Nat /\ fee >= m
        BY <1>1, <4>1, <4>2, <4>3, Estimates
      <4>5. running_in' >= total_recip + m
        BY <1>1, <2>1, <2>3, <4>1, <4>4
      <4> QED BY <2>1, <2>6, <4>3, <4>5 DEF Covered
    <3> QED BY <2>1, <3>1 DEF Covered
  <2> QED BY <2>8, <2>9, <2>10, <2>11, <2>12, <2>13, <2>14 DEF BuildOK
<1> QED BY <1>2, <1>3

(* The coins are all taken.                                                 *)
LEMMA SelectEndsStep == ASSUME BuildOK, SelectEnds PROVE BuildOK'
PROOF
<1>1. CASE ~ (plan.send_all /\ sel_count > 0)
  <2>1. Fail("insufficient funds") /\ sel_count = Len(utxos)
    BY <1>1 DEF SelectEnds
  <2> QED BY <2>1, FailStep
<1>2. CASE plan.send_all /\ sel_count > 0
  <2>1. pc = "select" /\ pc' = "settle" /\ UNCHANGED <<plan, utxos, total_recip, sel_count, running_in, result, why>>
    BY <1>2 DEF SelectEnds
  <2>2. BadArguments' = BadArguments
    BY <2>1 DEF BadArguments
  <2>3. BuildType' /\ Taken' /\ Fresh' /\ Reasons' /\ Open'
    BY <2>1 DEF BuildOK, BuildType, Taken, Fresh, Reasons, Open
  <2>4. Checked' /\ Tight' /\ Covered' /\ Change' /\ SpendAddsUp' /\ FeeIsFair'
    BY <1>2, <2>1, <2>2 DEF BuildOK, Checked, Tight, Covered, Change, SpendAddsUp, FeeIsFair
  <2> QED BY <2>3, <2>4 DEF BuildOK
<1> QED BY <1>1, <1>2

(* The builder's numbers.                                                   *)
LEMMA BuildNumbers ==
  ASSUME BuildOK
  PROVE  /\ plan \in Plans /\ utxos \in Seq(CoinRec) /\ Len(utxos) \in Nat
         /\ sel_count \in Nat /\ sel_count <= Len(utxos) /\ running_in \in Nat /\ total_recip \in Nat
PROOF
<1>1. /\ plan \in Plans /\ utxos \in Seq(CoinRec) /\ sel_count \in 0..Len(utxos)
      /\ running_in \in 0..MAX_MONEY /\ total_recip \in 0..MAX_MONEY
  BY DEF BuildOK, BuildType
<1>2. Len(utxos) \in Nat
  BY <1>1
<1> QED BY <1>1, <1>2, FundingConstants

(* What the result must be for the builder to end well.                     *)
Fits(fee, change, outs) ==
  /\ running_in = Total(outs) + fee
  /\ change \in Nat /\ fee \in Int /\ (plan.send_all => change = 0)
  /\ \A i \in 1..Len(outs) : outs[i] >= WALLET_DUST_THRESHOLD
  /\ ~ plan.send_all => outs = plan.recipients \o (IF change = 0 THEN <<>> ELSE <<change>>)
Fair(fee, size) ==
  /\ fee >= MinFee(size, plan.fee_per_kb)
  /\ fee < MinFee(size, plan.fee_per_kb) + WALLET_DUST_THRESHOLD + MinFee(output_size(25) + 2, plan.fee_per_kb) + 2

(* Such a result is a good one.                                             *)
LEMMA FinishStep ==
  ASSUME BuildOK, pc = "settle", NEW fee, NEW change, NEW outs \in Seq(Int),
         Fits(fee, change, outs), Fair(fee, estimate_size(sel_count, Len(outs), Script)), Finish(fee, change, outs)
  PROVE  BuildOK'
PROOF
<1>1. /\ result'.total_out = Total(outs) /\ result'.fee = fee /\ result'.change = change /\ result'.outputs = outs
      /\ result'.size = estimate_size(sel_count, Len(outs), Script)
      /\ pc' = "done" /\ UNCHANGED <<plan, utxos, total_recip, sel_count, running_in, why>>
  BY DEF Finish
<1>2. NumOut' = NumOut /\ Script' = Script /\ BadArguments' = BadArguments
  BY <1>1 DEF NumOut, Script, BadArguments
<1>3. BuildType' /\ Taken' /\ Fresh' /\ Reasons' /\ Open'
  BY <1>1 DEF BuildOK, BuildType, Taken, Fresh, Reasons, Open
<1>4. Checked' /\ Tight' /\ Covered' /\ Change'
  BY <1>1, <1>2 DEF BuildOK, Checked, Tight, Short, Covered, Change, Fits
<1>5. SpendAddsUp'
  BY <1>1, <1>3 DEF BuildOK, SpendAddsUp, BuildType, Taken, Fits
<1>6. FeeIsFair'
  BY <1>1 DEF FeeIsFair, Fair
<1> QED BY <1>3, <1>4, <1>5, <1>6 DEF BuildOK

(* A sweep.                                                                 *)
LEMMA SettleSweepStep == ASSUME BuildOK, SettleSweep PROVE BuildOK'
PROOF
<1>1. /\ pc = "settle" /\ plan.send_all /\ plan \in Plans /\ sel_count \in Nat /\ running_in \in Nat
  BY BuildNumbers DEF SettleSweep
<1>2. Script \in Nat /\ plan.fee_per_kb \in Nat
  BY <1>1, PlanSizes
<1>3. PICK size \in Nat : size = estimate_size(sel_count, 1, Script)
  BY <1>1, <1>2, Sizes
<1>4. PICK fee \in fee_for(size, plan.fee_per_kb) :
        IF fee > MAX_MONEY \/ running_in - fee < WALLET_DUST_THRESHOLD
        THEN Fail("sweep amount below dust after fee")
        ELSE Finish(fee, 0, <<running_in - fee>>)
  BY <1>3 DEF SettleSweep
<1>5. PICK m \in Nat : m = MinFee(size, plan.fee_per_kb)
  BY <1>2, Fees
<1>6. fee \in Nat /\ fee >= m /\ fee <= m + 1
  <2>1. fee \in {m, m + 1}
    BY <1>2, <1>4, <1>5, Fees
  <2> QED BY <2>1
<1>7. CASE running_in - fee < WALLET_DUST_THRESHOLD \/ fee > MAX_MONEY
  BY <1>4, <1>7, FailStep
<1>8. CASE ~ (running_in - fee < WALLET_DUST_THRESHOLD \/ fee > MAX_MONEY)
  <2>1. PICK out \in Int : out = running_in - fee
    BY <1>1, <1>6
  <2>2. Finish(fee, 0, <<out>>) /\ out >= WALLET_DUST_THRESHOLD
    <3>1. Finish(fee, 0, <<running_in - fee>>)
      BY <1>4, <1>8
    <3>2. ~ (out < WALLET_DUST_THRESHOLD)
      BY <1>8, <2>1
    <3> QED BY <2>1, <3>1, <3>2 DEF WALLET_DUST_THRESHOLD
  <2>3. Total(<<out>>) = out /\ Len(<<out>>) = 1 /\ <<out>>[1] = out /\ <<out>> \in Seq(Int)
    <3>1. <<out>> = Append(<<>>, out) /\ <<>> \in Seq(Int)
      OBVIOUS
    <3>2. Total(Append(<<>>, out)) = Total(<<>>) + out /\ Total(<<>>) = 0
      BY <3>1, Totals, Zenon
    <3> QED BY <3>1, <3>2
  <2>4. Fits(fee, 0, <<out>>)
    BY <1>1, <1>6, <2>1, <2>2, <2>3 DEF Fits
  <2>5. MinFee(output_size(25) + 2, plan.fee_per_kb) \in Nat
    <3>1. MinFee(36, plan.fee_per_kb) \in Nat
      BY <1>2, Fees
    <3> QED BY <3>1, ChangeBytes
  <2>6. Fair(fee, size)
    BY <1>5, <1>6, <2>5 DEF Fair, WALLET_DUST_THRESHOLD
  <2> QED BY <1>1, <1>3, <2>2, <2>3, <2>4, <2>6, FinishStep
<1> QED BY <1>7, <1>8

(* A payment with its change, or without one that is not worth an output.   *)
LEMMA SettleChangeStep == ASSUME BuildOK, SettleChange PROVE BuildOK'
PROOF
<1>1. /\ pc = "settle" /\ ~ plan.send_all /\ plan \in Plans /\ sel_count \in Nat /\ running_in \in Nat
      /\ total_recip \in Nat /\ total_recip = Total(plan.recipients) /\ ~ BadArguments
  <2>1. pc = "settle" /\ ~ plan.send_all
    BY DEF SettleChange
  <2> QED BY <2>1, BuildNumbers DEF BuildOK, Checked
<1>2. Script \in Nat /\ plan.fee_per_kb \in Nat /\ plan.recipients \in Seq(Int)
  BY <1>1, PlanSizes
<1>3. PICK n \in Nat : n = Len(plan.recipients)
  BY <1>2
<1>4. PICK less \in Nat, size \in Nat :
        /\ less = estimate_size(sel_count, n, Script) /\ size = estimate_size(sel_count, n + 1, Script)
        /\ less <= size /\ size <= less + 36
  <2>1. n + 1 \in Nat
    OBVIOUS
  <2> QED BY <1>1, <1>2, <2>1, Sizes
<1>5. PICK fee \in fee_for(size, plan.fee_per_kb) :
        LET change == running_in - total_recip - fee IN
        IF ~ in_money_range(total_recip, fee) THEN Fail("spend total out of range")
        ELSE IF change < 0 THEN Fail("insufficient funds for fee")
        ELSE IF change < WALLET_DUST_THRESHOLD
             THEN Finish(running_in - total_recip, 0, plan.recipients)
             ELSE Finish(fee, change, Append(plan.recipients, change))
  BY <1>3, <1>4 DEF SettleChange
<1>6. PICK m \in Nat, x \in Nat, e \in Nat :
        m = MinFee(size, plan.fee_per_kb) /\ x = MinFee(less, plan.fee_per_kb) /\ e = MinFee(36, plan.fee_per_kb)
  BY <1>2, Fees
<1>7. fee \in Nat /\ fee >= m /\ fee <= m + 1
  <2>1. fee \in {m, m + 1}
    BY <1>2, <1>5, <1>6, Fees
  <2> QED BY <2>1
<1>8. x <= m /\ m <= x + e
  <2>1. less <= size + 0 /\ size <= less + 36
    BY <1>4
  <2>2. MinFee(less, plan.fee_per_kb) <= MinFee(size, plan.fee_per_kb) + MinFee(0, plan.fee_per_kb)
    BY <1>2, <2>1, FeeGrows
  <2>3. MinFee(size, plan.fee_per_kb) <= MinFee(less, plan.fee_per_kb) + MinFee(36, plan.fee_per_kb)
    BY <1>2, <2>1, FeeGrows
  <2> QED BY <1>2, <1>6, <2>2, <2>3, FeeOfNothing
<1>9. output_size(25) + 2 = 36
  BY ChangeBytes
<1>10. PICK change \in Int : change = running_in - total_recip - fee
  BY <1>1, <1>7
<1>11. \A i \in 1..n : plan.recipients[i] >= WALLET_DUST_THRESHOLD
  BY <1>1, <1>3, CheckedTotal
<1>12. CASE ~ in_money_range(total_recip, fee) \/ change < 0
  <2>1. FeeShort
    <3>1. PICK est \in Nat : est = est_size_by_counts(sel_count, NumOut, Script)
      BY <1>1, PlanSizes, Sizes
    <3>2. size <= est + sel_count
      BY <1>1, <1>3, <1>4, <3>1, PlanGap
    <3>3. PICK f \in Nat, g \in Nat : f = MinFee(est, plan.fee_per_kb) /\ g = MinFee(sel_count, plan.fee_per_kb)
      BY <1>1, <1>2, Fees
    <3>4. m <= f + g
      BY <1>1, <1>2, <1>6, <3>2, <3>3, FeeGrows
    <3>5. running_in >= total_recip + f
      BY <1>1, <3>1, <3>3 DEF BuildOK, Covered
    <3>6. running_in + g >= total_recip + m
      BY <1>1, <3>4, <3>5
    <3> QED BY <1>3, <1>4, <1>6, <3>3, <3>6 DEF FeeShort, Settled
  <2> QED BY <1>5, <1>10, <1>12, <2>1, FailStep
<1>13. CASE in_money_range(total_recip, fee) /\ ~ (change < 0) /\ change < WALLET_DUST_THRESHOLD
  <2>1. PICK paid \in Nat : paid = running_in - total_recip /\ paid >= fee /\ paid < fee + WALLET_DUST_THRESHOLD
    <3>1. running_in - total_recip = change + fee
      BY <1>1, <1>7, <1>10
    <3> QED BY <1>7, <1>13, <3>1 DEF WALLET_DUST_THRESHOLD
  <2>2. Finish(paid, 0, plan.recipients)
    BY <1>5, <1>10, <1>13, <2>1
  <2>3. Fits(paid, 0, plan.recipients)
    <3>1. plan.recipients \o <<>> = plan.recipients
      BY <1>2
    <3> QED BY <1>1, <1>3, <1>11, <2>1, <3>1 DEF Fits
  <2>4. Fair(paid, less)
    BY <1>6, <1>7, <1>8, <1>9, <2>1 DEF Fair, WALLET_DUST_THRESHOLD
  <2> QED BY <1>1, <1>2, <1>3, <1>4, <2>2, <2>3, <2>4, FinishStep
<1>14. CASE in_money_range(total_recip, fee) /\ ~ (change < 0) /\ ~ (change < WALLET_DUST_THRESHOLD)
  <2>1. PICK outs \in Seq(Int) : outs = Append(plan.recipients, change)
    <3>1. Append(plan.recipients, change) \in Seq(Int)
      BY <1>2
    <3> QED BY <3>1
  <2>2. Finish(fee, change, outs) /\ change >= WALLET_DUST_THRESHOLD /\ change # 0
    BY <1>5, <1>10, <1>14, <2>1 DEF WALLET_DUST_THRESHOLD
  <2>3. Total(outs) = Total(plan.recipients) + change
    BY <1>2, <2>1, Totals
  <2>4. Len(outs) = n + 1 /\ outs[n + 1] = change /\ \A i \in 1..n : outs[i] = plan.recipients[i]
    BY <1>2, <1>3, <2>1
  <2>5. outs = plan.recipients \o <<change>>
    BY <1>2, <2>1
  <2>6. Fits(fee, change, outs)
    <3>1. running_in = Total(outs) + fee
      BY <1>1, <1>7, <1>10, <2>3
    <3>2. \A i \in 1..Len(outs) : outs[i] >= WALLET_DUST_THRESHOLD
      BY <1>11, <2>2, <2>4
    <3>3. change \in Nat /\ fee \in Int
      BY <1>7, <2>2 DEF WALLET_DUST_THRESHOLD
    <3> QED BY <1>1, <2>2, <2>5, <3>1, <3>2, <3>3 DEF Fits
  <2>7. Fair(fee, size)
    <3>1. MinFee(output_size(25) + 2, plan.fee_per_kb) = e
      BY <1>6, <1>9
    <3>2. fee < m + 546 + e + 2
      BY <1>7
    <3> QED BY <1>6, <1>7, <3>1, <3>2 DEF Fair, WALLET_DUST_THRESHOLD
  <2> QED BY <1>1, <1>4, <2>2, <2>4, <2>6, <2>7, FinishStep
<1> QED BY <1>12, <1>13, <1>14

-----------------------------------------------------------------------------
(* The node and the reports.                                                *)
Outs == {"own", "payee"} \X Nat
Txs == [ins : SUBSET (Nat \X Nat), outs : Seq(Outs), confirmed : Seq(BOOLEAN)]
Kinds == {"sent", "unknown", "dry run", "failed"}
Reports == [what : Kinds, sent : Int, fee : Int]
ChainType ==
  /\ txs \in Seq(Txs) /\ listed \in 1..Len(txs)
  /\ Len(txs[1].confirmed) = Len(txs[1].outs)
  /\ reports \in Seq(Reports)

(* The definitions of Payments, for any chain h and reports rs.             *)
At(h, o) == h[o[1]].outs[o[2] + 1]
PointsIn(h, n) == UNION {{<<t, v>> : v \in 0..(Len(h[t].outs) - 1)} : t \in 1..n}
SpentIn(h, n) == UNION {h[t].ins : t \in 1..n}
OwnIn(h, n) == {o \in PointsIn(h, n) : At(h, o)[1] = "own" /\ o \notin SpentIn(h, n)}
Val(h) == [o \in PointsIn(h, Len(h)) |-> At(h, o)[2]]
Worth(h) == SumFunctionOnSet(Val(h), OwnIn(h, Len(h)))
Start(h) == SumFunctionOnSet(Val(h), PointsIn(h, 1))
Costs(rs) == [i \in 1..Len(rs) |-> rs[i].sent + rs[i].fee]
KindIn(rs, what) == {i \in 1..Len(rs) : rs[i].what = what}
Books(h, rs) == \E S \in SUBSET KindIn(rs, "unknown") :
  Worth(h) = Start(h) - SumFunctionOnSet(Costs(rs), KindIn(rs, "sent") \cup S)

(* Nothing is spent that is not on the chain.                               *)
Closed(h) == SpentIn(h, Len(h)) \subseteq PointsIn(h, Len(h))

(* The coins of a command are different outputs of the chain, worth what    *)
(* the listing said.                                                        *)
Coins(h, u) ==
  /\ \A i \in 1..Len(u) : u[i].outpoint \in PointsIn(h, Len(h)) /\ u[i].sats = At(h, u[i].outpoint)[2]
  /\ \A i, j \in 1..Len(u) : u[i].outpoint = u[j].outpoint => i = j

(* A child spends an output of the chain and keeps what the fee leaves.     *)
ChildType == pc = "child" =>
  /\ child[1] \in PointsIn(txs, Len(txs)) /\ child[2] \in Nat /\ child[3] \in Int
  /\ child[2] + child[3] = At(txs, child[1])[2]

PayInv == BuildOK /\ ChainType /\ ChildType /\ Closed(txs) /\ Coins(txs, utxos) /\ Books(txs, reports)

(* The outputs of the first transactions, one by one.                       *)
LEMMA PointIs ==
  ASSUME NEW h \in Seq(Txs), NEW n \in 0..Len(h), NEW o \in PointsIn(h, n)
  PROVE  /\ o \in (1..n) \X Nat /\ o[2] + 1 \in 1..Len(h[o[1]].outs) /\ o = <<o[1], o[2]>>
         /\ h[o[1]] \in Txs /\ At(h, o) \in Outs /\ At(h, o)[2] \in Nat
PROOF
<1>1. PICK t \in 1..n : o \in {<<t, v>> : v \in 0..(Len(h[t].outs) - 1)}
  BY DEF PointsIn
<1>2. PICK v \in 0..(Len(h[t].outs) - 1) : o = <<t, v>>
  BY <1>1
<1>3. h[t] \in Txs /\ h[t].outs \in Seq(Outs)
  <2>1. h[t] \in Txs
    OBVIOUS
  <2> QED BY <2>1 DEF Txs
<1>4. Len(h[t].outs) \in Nat /\ v \in Nat /\ v + 1 \in 1..Len(h[t].outs)
  BY <1>3
<1>5. h[t].outs[v + 1] \in Outs
  BY <1>3, <1>4
<1>6. o[1] = t /\ o[2] = v
  BY <1>2
<1>7. At(h, o) = h[t].outs[v + 1]
  BY <1>6 DEF At
<1>8. h[t].outs[v + 1][2] \in Nat
  BY <1>5 DEF Outs
<1> QED BY <1>2, <1>3, <1>4, <1>5, <1>6, <1>7, <1>8

(* An output that is there.                                                 *)
LEMMA PointFor ==
  ASSUME NEW h, NEW n, NEW t \in 1..n, NEW v \in 0..(Len(h[t].outs) - 1)
  PROVE  <<t, v>> \in PointsIn(h, n)
  BY DEF PointsIn

(* There are finitely many.                                                 *)
LEMMA PointsFinite ==
  ASSUME NEW h \in Seq(Txs), NEW n \in 0..Len(h)
  PROVE  /\ IsFiniteSet(PointsIn(h, n)) /\ IsFiniteSet(OwnIn(h, n)) /\ OwnIn(h, n) \subseteq PointsIn(h, n)
         /\ PointsIn(h, n) \subseteq PointsIn(h, Len(h))
PROOF
<1> DEFINE Vs(t) == {<<t, v>> : v \in 0..(Len(h[t].outs) - 1)}
           All == {Vs(t) : t \in 1..n}
<1>1. ASSUME NEW t \in 1..n PROVE IsFiniteSet(Vs(t))
  <2> DEFINE m == Len(h[t].outs) - 1
             pair == [v \in 0..m |-> <<t, v>>]
  <2>1. h[t].outs \in Seq(Outs)
    <3>1. h[t] \in Txs
      OBVIOUS
    <3> QED BY <3>1 DEF Txs
  <2>2. m \in Int
    BY <2>1
  <2>3. IsFiniteSet(0..m)
    <3> HIDE DEF m
    <3> QED BY <2>2, FS_Interval
  <2>4. Vs(t) = {pair[v] : v \in 0..m}
    OBVIOUS
  <2> HIDE DEF m, pair, Vs
  <2> QED BY <2>3, <2>4, FiniteImage
<1>2. IsFiniteSet(All)
  <2> DEFINE g == [t \in 1..n |-> Vs(t)]
  <2>1. IsFiniteSet(1..n)
    BY FS_Interval
  <2>2. All = {g[t] : t \in 1..n}
    OBVIOUS
  <2> HIDE DEF g, All
  <2> QED BY <2>1, <2>2, FiniteImage
<1>3. IsFiniteSet(UNION All)
  <2>1. \A S \in All : IsFiniteSet(S)
    BY <1>1
  <2> HIDE DEF All
  <2> QED BY <1>2, <2>1, FS_UNION
<1>4. PointsIn(h, n) = UNION All
  BY DEF PointsIn
<1>5. OwnIn(h, n) \subseteq PointsIn(h, n)
  BY DEF OwnIn
<1>6. PointsIn(h, n) \subseteq PointsIn(h, Len(h))
  BY DEF PointsIn
<1> HIDE DEF All
<1> QED BY <1>3, <1>4, <1>5, <1>6, FS_Subset

(* BooksBalance in these terms.                                             *)
RawBooks(h, rs) ==
  \E taken \in SUBSET {i \in 1..Len(rs) : rs[i].what = "unknown"} :
    SumFunction([o \in OwnIn(h, Len(h)) |-> At(h, o)[2]])
      = SumFunction([o \in PointsIn(h, 1) |-> At(h, o)[2]])
        - SumFunction([i \in {j \in 1..Len(rs) : rs[j].what = "sent"} \cup taken |-> rs[i].sent + rs[i].fee])

LEMMA RawBooksAre == BooksBalance <=> RawBooks(txs, reports)
  BY DEF BooksBalance, RawBooks, Balance, Funded, CostOf, Reported, Unspent, OwnIn, Outpoints, PointsIn,
         SpentBy, SpentIn, Out, At

LEMMA BooksAre ==
  ASSUME NEW h \in Seq(Txs), NEW rs \in Seq(Reports), Len(h) >= 1
  PROVE  RawBooks(h, rs) <=> Books(h, rs)
PROOF
<1> DEFINE P == PointsIn(h, 1)
           O == OwnIn(h, Len(h))
           U == KindIn(rs, "unknown")
           K == KindIn(rs, "sent")
           ownv == [o \in O |-> At(h, o)[2]]
           allv == [o \in P |-> At(h, o)[2]]
           c(S) == [i \in K \cup S |-> rs[i].sent + rs[i].fee]
<1>1. /\ IsFiniteSet(P) /\ IsFiniteSet(O)
      /\ P \subseteq PointsIn(h, Len(h)) /\ O \subseteq PointsIn(h, Len(h))
  <2>1. 1 \in 0..Len(h) /\ Len(h) \in 0..Len(h)
    OBVIOUS
  <2> QED BY <2>1, PointsFinite
<1>2. SumFunction(ownv) = Worth(h)
  <2>1. SumFunction(ownv) = SumFunctionOnSet(ownv, O)
    <3>1. DOMAIN ownv = O
      OBVIOUS
    <3> HIDE DEF ownv, O
    <3> QED BY <3>1 DEF SumFunction
  <2>2. \A o \in O : ownv[o] = Val(h)[o]
    <3> HIDE DEF O
    <3> QED BY <1>1 DEF Val
  <2>3. PICK w : w = ownv
    OBVIOUS
  <2>4. SumFunctionOnSet(w, O) = SumFunctionOnSet(Val(h), O)
    <3> HIDE DEF ownv, O
    <3> QED BY <1>1, <2>2, <2>3, SumSameWeights
  <2> HIDE DEF ownv
  <2> QED BY <2>1, <2>3, <2>4 DEF Worth
<1>3. SumFunction(allv) = Start(h)
  <2>1. SumFunction(allv) = SumFunctionOnSet(allv, P)
    <3>1. DOMAIN allv = P
      OBVIOUS
    <3> HIDE DEF allv, P
    <3> QED BY <3>1 DEF SumFunction
  <2>2. \A o \in P : allv[o] = Val(h)[o]
    <3> HIDE DEF P
    <3> QED BY <1>1 DEF Val
  <2>3. PICK w : w = allv
    OBVIOUS
  <2>4. SumFunctionOnSet(w, P) = SumFunctionOnSet(Val(h), P)
    <3> HIDE DEF allv, P
    <3> QED BY <1>1, <2>2, <2>3, SumSameWeights
  <2> HIDE DEF allv
  <2> QED BY <2>1, <2>3, <2>4 DEF Start
<1>4. ASSUME NEW S \in SUBSET U PROVE SumFunction(c(S)) = SumFunctionOnSet(Costs(rs), K \cup S)
  <2>1. PICK D : D = K \cup S
    OBVIOUS
  <2>2. D \subseteq 1..Len(rs) /\ IsFiniteSet(D)
    <3>1. D \subseteq 1..Len(rs)
      BY <2>1 DEF KindIn
    <3>2. IsFiniteSet(1..Len(rs))
      BY FS_Interval
    <3> QED BY <3>1, <3>2, FS_Subset
  <2>3. PICK w : w = [i \in D |-> rs[i].sent + rs[i].fee]
    OBVIOUS
  <2>4. DOMAIN w = D /\ \A i \in D : w[i] = Costs(rs)[i]
    BY <2>2, <2>3 DEF Costs
  <2>5. SumFunctionOnSet(w, D) = SumFunctionOnSet(Costs(rs), D)
    BY <2>2, <2>4, SumSameWeights
  <2>6. SumFunction(w) = SumFunctionOnSet(w, D)
    BY <2>4 DEF SumFunction
  <2>7. w = c(S)
    BY <2>1, <2>3
  <2> HIDE DEF c
  <2> QED BY <2>1, <2>5, <2>6, <2>7
<1>5. RawBooks(h, rs) <=> \E S \in SUBSET U : SumFunction(ownv) = SumFunction(allv) - SumFunction(c(S))
  BY DEF RawBooks, KindIn
<1> HIDE DEF ownv, allv, c, P, O, K
<1>6. Books(h, rs) <=> \E S \in SUBSET U : Worth(h) = Start(h) - SumFunctionOnSet(Costs(rs), K \cup S)
  BY DEF Books, K
<1> HIDE DEF U
<1> QED BY <1>2, <1>3, <1>4, <1>5, <1>6

(* One more transaction.                                                    *)
NewPoints(h, tx) == {<<Len(h) + 1, v>> : v \in 0..(Len(tx.outs) - 1)}
NewOwn(h, tx) == {o \in NewPoints(h, tx) : tx.outs[o[2] + 1][1] = "own"}

Adds(h, tx, g) ==
  /\ g \in Seq(Txs) /\ Len(g) = Len(h) + 1
  /\ PointsIn(g, Len(g)) = PointsIn(h, Len(h)) \cup NewPoints(h, tx)
  /\ \A o \in NewPoints(h, tx) : o \notin PointsIn(h, Len(h)) /\ At(g, o) = tx.outs[o[2] + 1]
  /\ \A o \in PointsIn(h, Len(h)) : At(g, o) = At(h, o)
  /\ SpentIn(g, Len(g)) = SpentIn(h, Len(h)) \cup tx.ins
  /\ Len(h) >= 1 => PointsIn(g, 1) = PointsIn(h, 1)

LEMMA OneMore ==
  ASSUME NEW h \in Seq(Txs), NEW tx \in Txs, NEW g, g = Append(h, tx)
  PROVE  Adds(h, tx, g)
PROOF
<1>1. PICK n \in Nat : n = Len(h)
  OBVIOUS
<1>2. g \in Seq(Txs) /\ Len(g) = n + 1 /\ g[n + 1] = tx /\ \A t \in 1..n : g[t] = h[t]
  BY <1>1
<1>3. 1..(n + 1) = (1..n) \cup {n + 1}
  OBVIOUS
<1>4. PointsIn(g, n + 1) = PointsIn(h, n) \cup NewPoints(h, tx)
  <2>1. PointsIn(h, n) \cup NewPoints(h, tx) \subseteq PointsIn(g, n + 1)
    BY <1>1, <1>2, <1>3 DEF PointsIn, NewPoints
  <2>2. PointsIn(g, n + 1) \subseteq PointsIn(h, n) \cup NewPoints(h, tx)
    BY <1>1, <1>2, <1>3 DEF PointsIn, NewPoints
  <2> QED BY <2>1, <2>2
<1>5. ASSUME NEW o \in NewPoints(h, tx) PROVE o \notin PointsIn(h, n) /\ At(g, o) = tx.outs[o[2] + 1]
  <2>1. o[1] = n + 1
    BY <1>1 DEF NewPoints
  <2>2. o \notin PointsIn(h, n)
    <3>1. n \in 0..Len(h) /\ n + 1 \notin 1..n
      BY <1>1
    <3> QED BY <2>1, <3>1, PointIs
  <2> QED BY <1>2, <2>1, <2>2 DEF At
<1>6. ASSUME NEW o \in PointsIn(h, n) PROVE At(g, o) = At(h, o)
  <2>1. o[1] \in 1..n
    <3>1. n \in 0..Len(h)
      BY <1>1
    <3> QED BY <3>1, PointIs
  <2> QED BY <1>2, <2>1 DEF At
<1>7. SpentIn(g, n + 1) = SpentIn(h, n) \cup tx.ins
  BY <1>2, <1>3 DEF SpentIn
<1>8. n >= 1 => PointsIn(g, 1) = PointsIn(h, 1)
  BY <1>2 DEF PointsIn
<1> QED BY <1>1, <1>2, <1>4, <1>5, <1>6, <1>7, <1>8 DEF Adds

(* A transaction that spends own outputs takes their value and adds that of *)
(* its own outputs.                                                         *)
LEMMA Spends ==
  ASSUME NEW h \in Seq(Txs), NEW tx \in Txs, NEW g, g = Append(h, tx), Len(h) >= 1,
         Closed(h), tx.ins \subseteq OwnIn(h, Len(h))
  PROVE  /\ Closed(g) /\ Start(g) = Start(h) /\ Start(h) \in Int
         /\ Worth(h) \in Int /\ SumFunctionOnSet(Val(h), tx.ins) \in Int
         /\ SumFunctionOnSet(Val(g), NewOwn(h, tx)) \in Int
         /\ Worth(g) = Worth(h) - SumFunctionOnSet(Val(h), tx.ins) + SumFunctionOnSet(Val(g), NewOwn(h, tx))
PROOF
<1>1. PICK P, O, I, N, A : /\ P = PointsIn(h, Len(h)) /\ O = OwnIn(h, Len(h)) /\ I = tx.ins
                           /\ N = NewOwn(h, tx) /\ A = NewPoints(h, tx)
  OBVIOUS
<1>2. PICK Q, R : Q = PointsIn(g, Len(g)) /\ R = OwnIn(g, Len(g))
  OBVIOUS
<1>3. PICK v, w : v = Val(h) /\ w = Val(g)
  OBVIOUS
<1>4. /\ Q = P \cup A /\ \A o \in A : o \notin P /\ At(g, o) = tx.outs[o[2] + 1]
      /\ \A o \in P : At(g, o) = At(h, o)
      /\ SpentIn(g, Len(g)) = SpentIn(h, Len(h)) \cup I /\ PointsIn(g, 1) = PointsIn(h, 1)
      /\ g \in Seq(Txs) /\ Len(g) = Len(h) + 1
  <2>1. Adds(h, tx, g)
    BY OneMore
  <2> QED BY <1>1, <1>2, <2>1 DEF Adds
<1>5. /\ IsFiniteSet(P) /\ IsFiniteSet(O) /\ O \subseteq P /\ PointsIn(h, 1) \subseteq P /\ IsFiniteSet(PointsIn(h, 1))
      /\ IsFiniteSet(Q) /\ IsFiniteSet(R) /\ R \subseteq Q
  <2>1. 1 \in 0..Len(h) /\ Len(h) \in 0..Len(h) /\ Len(g) \in 0..Len(g)
    BY <1>4
  <2>2. /\ IsFiniteSet(PointsIn(h, Len(h))) /\ IsFiniteSet(OwnIn(h, Len(h)))
        /\ OwnIn(h, Len(h)) \subseteq PointsIn(h, Len(h))
    BY <2>1, PointsFinite
  <2>3. IsFiniteSet(PointsIn(h, 1)) /\ PointsIn(h, 1) \subseteq PointsIn(h, Len(h))
    BY <2>1, PointsFinite
  <2>4. /\ IsFiniteSet(PointsIn(g, Len(g))) /\ IsFiniteSet(OwnIn(g, Len(g)))
        /\ OwnIn(g, Len(g)) \subseteq PointsIn(g, Len(g))
    BY <1>4, <2>1, PointsFinite
  <2> QED BY <1>1, <1>2, <2>2, <2>3, <2>4, Zenon
<1>6. I \subseteq O /\ SpentIn(h, Len(h)) \subseteq P
  BY <1>1 DEF Closed
<1>7. Closed(g)
  BY <1>2, <1>4, <1>5, <1>6 DEF Closed
<1>8. N \subseteq A /\ \A o \in A : o \in N <=> At(g, o)[1] = "own"
  BY <1>1, <1>4 DEF NewOwn
<1>9. O = {o \in P : At(h, o)[1] = "own" /\ o \notin SpentIn(h, Len(h))}
  BY <1>1 DEF OwnIn
<1>10. R = {o \in Q : At(g, o)[1] = "own" /\ o \notin SpentIn(g, Len(g))}
  BY <1>2 DEF OwnIn
<1>11. R = (O \ I) \cup N
  <2>1. ASSUME NEW o \in P PROVE o \in R <=> o \in O \ I
    BY <1>4, <1>9, <1>10
  <2>2. ASSUME NEW o \in A PROVE (o \in R <=> o \in N) /\ o \notin O
    <3>1. o \notin P /\ o \notin SpentIn(g, Len(g))
      BY <1>4, <1>5, <1>6
    <3> QED BY <1>4, <1>5, <1>8, <1>10, <3>1
  <2>3. \A o \in R : o \in P \/ o \in A
    BY <1>4, <1>5
  <2> QED BY <1>4, <1>5, <1>8, <2>1, <2>2, <2>3
<1>12. /\ \A o \in P : v[o] \in Int /\ v[o] = w[o]
       /\ \A o \in Q : w[o] \in Int
  <2>1. Len(h) \in 0..Len(h) /\ Len(g) \in 0..Len(g)
    BY <1>4
  <2>2. \A o \in P : v[o] = At(h, o)[2] /\ At(h, o)[2] \in Int
    BY <1>1, <1>3, <2>1, PointIs DEF Val
  <2>3. ASSUME NEW o \in Q PROVE w[o] = At(g, o)[2] /\ At(g, o)[2] \in Int
    <3>1. o \in PointsIn(g, Len(g))
      BY <1>2
    <3>2. At(g, o)[2] \in Nat
      BY <1>4, <2>1, <3>1, PointIs
    <3> QED BY <1>3, <3>1, <3>2 DEF Val
  <2> QED BY <1>4, <2>2, <2>3
<1>13. /\ SumFunctionOnSet(v, O) = SumFunctionOnSet(v, I) + SumFunctionOnSet(v, O \ I)
       /\ SumFunctionOnSet(w, R) = SumFunctionOnSet(w, N) + SumFunctionOnSet(w, R \ N)
  <2>1. \A o \in O : v[o] \in Int
    BY <1>5, <1>12
  <2>2. \A o \in R : w[o] \in Int
    BY <1>5, <1>12
  <2> QED BY <1>5, <1>6, <1>11, <2>1, <2>2, SumSplit
<1>14. R \ N = O \ I
  BY <1>4, <1>5, <1>8, <1>11
<1>15. IsFiniteSet(I) /\ IsFiniteSet(O \ I) /\ IsFiniteSet(N)
  <2>1. O \ I \subseteq O /\ N \subseteq R
    BY <1>11
  <2> QED BY <1>5, <1>6, <2>1, FS_Subset
<1>16. SumFunctionOnSet(w, O \ I) = SumFunctionOnSet(v, O \ I)
  <2>1. \A o \in O \ I : w[o] = v[o]
    BY <1>5, <1>12
  <2> QED BY <1>15, <2>1, SumSameWeights
<1>17. SumFunctionOnSet(w, PointsIn(h, 1)) = SumFunctionOnSet(v, PointsIn(h, 1))
  <2>1. \A o \in PointsIn(h, 1) : w[o] = v[o]
    BY <1>5, <1>12
  <2> QED BY <1>5, <2>1, SumSameWeights
<1>18. /\ SumFunctionOnSet(v, I) \in Int /\ SumFunctionOnSet(v, O \ I) \in Int /\ SumFunctionOnSet(w, N) \in Int
       /\ SumFunctionOnSet(v, O) \in Int /\ SumFunctionOnSet(v, PointsIn(h, 1)) \in Int
  <2>1. /\ \A o \in I : v[o] \in Int
        /\ \A o \in O \ I : v[o] \in Int
        /\ \A o \in O : v[o] \in Int
        /\ \A o \in PointsIn(h, 1) : v[o] \in Int
    BY <1>5, <1>6, <1>12
  <2>2. \A o \in N : w[o] \in Int
    BY <1>5, <1>11, <1>12
  <2> QED BY <1>5, <1>15, <2>1, <2>2, SumInt
<1>19. Start(g) = Start(h) /\ Start(h) \in Int
  BY <1>3, <1>4, <1>17, <1>18 DEF Start
<1>20. Worth(h) = SumFunctionOnSet(v, O) /\ Worth(g) = SumFunctionOnSet(w, R)
  BY <1>1, <1>2, <1>3 DEF Worth
<1>21. PICK a \in Int, b \in Int, c \in Int, d \in Int :
         /\ a = SumFunctionOnSet(v, I) /\ b = SumFunctionOnSet(v, O \ I) /\ c = SumFunctionOnSet(w, N)
         /\ d = SumFunctionOnSet(v, O)
  BY <1>18
<1>22. Worth(h) = d /\ d = a + b /\ Worth(g) = c + b
  BY <1>13, <1>14, <1>16, <1>20, <1>21
<1>23. Worth(g) = Worth(h) - a + c
  BY <1>22
<1>24. a = SumFunctionOnSet(Val(h), tx.ins) /\ c = SumFunctionOnSet(Val(g), NewOwn(h, tx))
  BY <1>1, <1>3, <1>21, Zenon
<1> QED BY <1>7, <1>19, <1>22, <1>23, <1>24

(* One more report: one that cost nothing, or the cost of a transaction.    *)
Tells(rs, r, qs) ==
  /\ qs \in Seq(Reports) /\ Len(qs) = Len(rs) + 1 /\ Costs(qs)[Len(rs) + 1] = r.sent + r.fee
  /\ \A i \in 1..Len(rs) : Costs(qs)[i] = Costs(rs)[i] /\ Costs(rs)[i] \in Int
  /\ \A what : KindIn(qs, what) = KindIn(rs, what) \cup IF r.what = what THEN {Len(rs) + 1} ELSE {}

LEMMA ReportKinds ==
  ASSUME NEW rs \in Seq(Reports), NEW r \in Reports, NEW qs, qs = Append(rs, r)
  PROVE  Tells(rs, r, qs)
PROOF
<1>1. PICK n \in Nat : n = Len(rs)
  OBVIOUS
<1>2. qs \in Seq(Reports) /\ Len(qs) = n + 1 /\ qs[n + 1] = r /\ \A i \in 1..n : qs[i] = rs[i]
  BY <1>1
<1>3. \A i \in 1..n : rs[i].sent + rs[i].fee \in Int
  <2>1. \A i \in 1..n : rs[i] \in Reports
    BY <1>1
  <2> QED BY <2>1 DEF Reports
<1>4. 1..(n + 1) = (1..n) \cup {n + 1}
  OBVIOUS
<1>5. Costs(qs)[n + 1] = r.sent + r.fee
  BY <1>2 DEF Costs
<1>6. \A i \in 1..n : Costs(qs)[i] = Costs(rs)[i] /\ Costs(rs)[i] \in Int
  BY <1>1, <1>2, <1>3 DEF Costs
<1>7. ASSUME NEW what PROVE KindIn(qs, what) = KindIn(rs, what) \cup IF r.what = what THEN {n + 1} ELSE {}
  BY <1>1, <1>2, <1>4 DEF KindIn
<1> QED BY <1>1, <1>2, <1>5, <1>6, <1>7 DEF Tells

LEMMA BooksReport ==
  ASSUME NEW h, NEW g, NEW rs \in Seq(Reports), NEW r \in Reports, Books(h, rs), Start(g) = Start(h),
         Start(h) \in Int, \/ r.what # "sent" /\ Worth(g) = Worth(h)
                           \/ r.what \in {"sent", "unknown"} /\ Worth(g) = Worth(h) - (r.sent + r.fee)
  PROVE  Books(g, Append(rs, r))
PROOF
<1>1. PICK qs : qs = Append(rs, r)
  OBVIOUS
<1>2. PICK n \in Nat : n = Len(rs)
  OBVIOUS
<1>3. PICK v, w : v = Costs(rs) /\ w = Costs(qs)
  OBVIOUS
<1>4. PICK S \in SUBSET KindIn(rs, "unknown") : Worth(h) = Start(h) - SumFunctionOnSet(Costs(rs), KindIn(rs, "sent") \cup S)
  BY DEF Books
<1>5. PICK D : D = KindIn(rs, "sent") \cup S
  OBVIOUS
<1>6. /\ w[n + 1] = r.sent + r.fee /\ \A i \in 1..n : w[i] = v[i] /\ v[i] \in Int
      /\ \A what : KindIn(qs, what) = KindIn(rs, what) \cup IF r.what = what THEN {n + 1} ELSE {}
  <2>1. Tells(rs, r, qs)
    BY <1>1, ReportKinds
  <2> QED BY <1>2, <1>3, <2>1 DEF Tells
<1>7. D \subseteq 1..n /\ IsFiniteSet(D) /\ n + 1 \notin D
  <2>1. D \subseteq 1..n
    BY <1>2, <1>5 DEF KindIn
  <2>2. IsFiniteSet(1..n)
    BY FS_Interval
  <2>3. IsFiniteSet(D)
    BY <2>1, <2>2, FS_Subset
  <2>4. n + 1 \notin 1..n
    OBVIOUS
  <2> QED BY <2>1, <2>3, <2>4
<1>8. PICK c \in Int : c = r.sent + r.fee
  BY DEF Reports
<1>9. SumFunctionOnSet(w, D) = SumFunctionOnSet(v, D) /\ SumFunctionOnSet(v, D) \in Int
  <2>1. \A i \in D : w[i] = v[i] /\ v[i] \in Int
    BY <1>6, <1>7
  <2> QED BY <1>7, <2>1, SumSameWeights, SumInt
<1>10. SumFunctionOnSet(w, D \cup {n + 1}) = c + SumFunctionOnSet(w, D)
  <2>1. \A i \in D : w[i] \in Int
    BY <1>6, <1>7
  <2>2. w[n + 1] = c
    BY <1>6, <1>8
  <2> QED BY <1>7, <1>8, <2>1, <2>2, SumInsert
<1>11. Worth(h) = Start(h) - SumFunctionOnSet(v, D)
  BY <1>3, <1>4, <1>5
<1>12. PICK a \in Int, b \in Int : a = SumFunctionOnSet(v, D) /\ b = Start(h)
  BY <1>9
<1>13. Start(g) - (c + a) = Worth(h) - c
  BY <1>11, <1>12
<1>14. CASE r.what # "sent" /\ Worth(g) = Worth(h)
  <2>1. KindIn(qs, "sent") = KindIn(rs, "sent")
    BY <1>6, <1>14
  <2>2. S \in SUBSET KindIn(qs, "unknown")
    BY <1>6
  <2>3. Worth(g) = Start(g) - SumFunctionOnSet(w, KindIn(qs, "sent") \cup S)
    BY <1>5, <1>9, <1>11, <1>14, <2>1
  <2> QED BY <1>1, <1>3, <2>2, <2>3 DEF Books
<1>15. CASE r.what = "sent" /\ Worth(g) = Worth(h) - (r.sent + r.fee)
  <2>1. KindIn(qs, "sent") \cup S = D \cup {n + 1}
    BY <1>5, <1>6, <1>15
  <2>2. S \in SUBSET KindIn(qs, "unknown")
    BY <1>6
  <2>3. Worth(g) = Start(g) - SumFunctionOnSet(w, KindIn(qs, "sent") \cup S)
    BY <1>8, <1>9, <1>10, <1>15, <1>12, <1>13, <2>1, Zenon
  <2> QED BY <1>1, <1>3, <2>2, <2>3 DEF Books
<1>16. CASE r.what = "unknown" /\ Worth(g) = Worth(h) - (r.sent + r.fee)
  <2>1. PICK T : T = S \cup {n + 1}
    OBVIOUS
  <2>2. KindIn(qs, "sent") \cup T = D \cup {n + 1}
    BY <1>5, <1>6, <1>16, <2>1
  <2>3. T \in SUBSET KindIn(qs, "unknown")
    BY <1>6, <1>16, <2>1
  <2>4. Worth(g) = Start(g) - SumFunctionOnSet(w, KindIn(qs, "sent") \cup T)
    BY <1>8, <1>9, <1>10, <1>16, <1>12, <1>13, <2>2, Zenon
  <2> QED BY <1>1, <1>3, <2>3, <2>4 DEF Books
<1> QED BY <1>14, <1>15, <1>16

-----------------------------------------------------------------------------
(* What the address lists.                                                  *)

(* The listing is a finite set of coins of the chain, one per outpoint.     *)
LEMMA Listing ==
  ASSUME ChainType
  PROVE  /\ IsFiniteSet(list_utxos) /\ list_utxos \subseteq CoinRec
         /\ \A c, d \in list_utxos : c.outpoint = d.outpoint => c = d
         /\ \A c \in list_utxos : c.outpoint \in PointsIn(txs, Len(txs)) /\ c.sats = At(txs, c.outpoint)[2]
PROOF
<1> DEFINE O == OwnIn(txs, listed)
           coin == [o \in O |-> [outpoint |-> o, sats |-> Out(o)[2],
                                 confirmed |-> o[1] = 1 /\ txs[1].confirmed[o[2] + 1]]]
<1>1. /\ txs \in Seq(Txs) /\ listed \in 0..Len(txs) /\ Len(txs) \in Nat /\ 1 \in 1..Len(txs)
      /\ Len(txs[1].confirmed) = Len(txs[1].outs) /\ txs[1] \in Txs
  <2>1. txs \in Seq(Txs) /\ listed \in 1..Len(txs) /\ Len(txs[1].confirmed) = Len(txs[1].outs)
    BY DEF ChainType
  <2> QED BY <2>1
<1>2. txs[1].confirmed \in Seq(BOOLEAN)
  BY <1>1 DEF Txs
<1>3. IsFiniteSet(O) /\ O \subseteq PointsIn(txs, listed) /\ PointsIn(txs, listed) \subseteq PointsIn(txs, Len(txs))
  BY <1>1, PointsFinite
<1>4. list_utxos = {coin[o] : o \in O}
  BY DEF list_utxos, Unspent, OwnIn, Outpoints, PointsIn, SpentBy, SpentIn, Out, At
<1>5. ASSUME NEW o \in O
      PROVE  coin[o] \in CoinRec /\ coin[o].outpoint = o /\ coin[o].sats = At(txs, o)[2] /\ o \in PointsIn(txs, Len(txs))
  <2>1. o \in PointsIn(txs, listed) /\ o \in PointsIn(txs, Len(txs))
    BY <1>3
  <2>2. o \in (1..listed) \X Nat /\ o[2] + 1 \in 1..Len(txs[o[1]].outs) /\ At(txs, o)[2] \in Nat
    BY <1>1, <2>1, PointIs
  <2>3. o \in Nat \X Nat /\ o[1] \in Nat /\ o[2] \in Nat
    BY <1>1, <2>2
  <2>4. o[1] = 1 => txs[1].confirmed[o[2] + 1] \in BOOLEAN
    BY <1>1, <1>2, <2>2
  <2>5. PICK b \in BOOLEAN : b = (o[1] = 1 /\ txs[1].confirmed[o[2] + 1])
    BY <2>4
  <2>6. coin[o] = [outpoint |-> o, sats |-> At(txs, o)[2], confirmed |-> b]
    BY <2>5 DEF Out, At
  <2> HIDE DEF O, coin
  <2> QED BY <2>1, <2>2, <2>3, <2>6 DEF CoinRec
<1> HIDE DEF O, coin
<1>6. IsFiniteSet(list_utxos)
  BY <1>3, <1>4, FiniteImage
<1> QED BY <1>4, <1>5, <1>6

(* The ranking of coins is a total order: confirmed, value, position.       *)
LEMMA RankIsOrder ==
  ASSUME NEW U, U \subseteq CoinRec, \A c, d \in U : c.outpoint = d.outpoint => c = d
  PROVE  /\ \A a \in U : ~ cmp_funding(a, a)
         /\ \A a, b, c \in U : cmp_funding(a, b) /\ cmp_funding(b, c) => cmp_funding(a, c)
         /\ \A a, b \in U : a = b \/ cmp_funding(a, b) \/ cmp_funding(b, a)
PROOF
<1>1. \A c \in U : /\ c.outpoint \in Nat \X Nat /\ c.outpoint[1] \in Nat /\ c.outpoint[2] \in Nat
                   /\ c.sats \in Nat /\ c.confirmed \in BOOLEAN
  BY DEF CoinRec
<1>2. \A a, b \in U : a.outpoint[1] = b.outpoint[1] /\ a.outpoint[2] = b.outpoint[2] => a = b
  BY <1>1
<1> QED BY <1>1, <1>2 DEF cmp_funding, ListedBefore

(* So what the builder is given is a sequence of different coins.           *)
LEMMA Ranked ==
  ASSUME ChainType, NEW f, f = rank_funding_utxos(list_utxos, 0, FALSE)
  PROVE  f \in Seq(CoinRec) /\ Coins(txs, f)
PROOF
<1> DEFINE U == list_utxos
           V == {c \in U : c.sats <= MAX_MONEY /\ c.sats >= 0 /\ (FALSE => c.confirmed)}
           n == Cardinality(V)
           R == {p \in V \X V : cmp_funding(p[1], p[2])}
           Below(c) == {d \in V : cmp_funding(d, c)}
<1>1. f = [i \in 1..n |-> CHOOSE c \in V : Cardinality(Below(c)) = i - 1]
  BY DEF rank_funding_utxos
<1>2. /\ IsFiniteSet(V) /\ V \subseteq CoinRec /\ \A c, d \in V : c.outpoint = d.outpoint => c = d
      /\ \A c \in V : c.outpoint \in PointsIn(txs, Len(txs)) /\ c.sats = At(txs, c.outpoint)[2]
  <2>1. /\ IsFiniteSet(U) /\ U \subseteq CoinRec /\ \A c, d \in U : c.outpoint = d.outpoint => c = d
        /\ \A c \in U : c.outpoint \in PointsIn(txs, Len(txs)) /\ c.sats = At(txs, c.outpoint)[2]
    BY Listing
  <2>2. V \in SUBSET U
    OBVIOUS
  <2> HIDE DEF U, V
  <2> QED BY <2>1, <2>2, FS_Subset
<1> HIDE DEF V
<1>3. n \in Nat
  BY <1>2, FS_CardinalityType
<1>4. \A a, b \in V : <<a, b>> \in R <=> cmp_funding(a, b)
  OBVIOUS
<1>5. \A c \in V : {d \in V : <<d, c>> \in R} = Below(c)
  BY <1>4
<1> HIDE DEF R
<1>6. /\ \A a \in V : ~ cmp_funding(a, a)
      /\ \A a, b, c \in V : cmp_funding(a, b) /\ cmp_funding(b, c) => cmp_funding(a, c)
      /\ \A a, b \in V : a = b \/ cmp_funding(a, b) \/ cmp_funding(b, a)
  BY <1>2, RankIsOrder
<1>7. \A a \in V : <<a, a>> \notin R
  BY <1>4, <1>6, Zenon
<1>8. \A a, b, c \in V : <<a, b>> \in R /\ <<b, c>> \in R => <<a, c>> \in R
  BY <1>4, <1>6, Zenon
<1>9. \A a, b \in V : a = b \/ <<a, b>> \in R \/ <<b, a>> \in R
  BY <1>4, <1>6, Zenon
<1>10. \A i \in 1..n : \E c \in V : Cardinality({d \in V : <<d, c>> \in R}) = i - 1
  <2> HIDE DEF Below
  <2>1. IsFiniteSet(V)
    BY <1>2
  <2> QED BY <2>1, <1>7, <1>8, <1>9, RanksTaken, Zenon
<1> HIDE DEF Below
<1>11. \A i \in 1..n : \E c \in V : Cardinality(Below(c)) = i - 1
  BY <1>5, <1>10
<1>12. \A i \in 1..n : f[i] \in V /\ Cardinality(Below(f[i])) = i - 1
  BY <1>1, <1>11
<1>13. f = [i \in 1..n |-> f[i]]
  BY <1>1
<1> HIDE DEF n
<1>14. f \in Seq(CoinRec) /\ Len(f) = n
  <2>1. \A i \in 1..n : f[i] \in CoinRec
    BY <1>2, <1>12
  <2>2. PICK m \in Nat : m = n
    BY <1>3
  <2>3. PICK e \in [1..m -> CoinRec] : e = f
    BY <1>13, <2>1, <2>2
  <2>4. e \in Seq(CoinRec) /\ Len(e) = m
    OBVIOUS
  <2> QED BY <2>2, <2>3, <2>4
<1>15. \A i \in 1..n : f[i].outpoint \in PointsIn(txs, Len(txs)) /\ f[i].sats = At(txs, f[i].outpoint)[2]
  BY <1>2, <1>12
<1>16. ASSUME NEW i \in 1..n, NEW j \in 1..n, f[i].outpoint = f[j].outpoint PROVE i = j
  <2>1. f[i] = f[j]
    BY <1>2, <1>12, <1>16
  <2>2. i - 1 = j - 1
    BY <1>12, <2>1
  <2> QED BY <1>3, <2>2
<1> QED BY <1>14, <1>15, <1>16 DEF Coins

-----------------------------------------------------------------------------
(* The commands, one by one.                                                *)

(* A command that starts hands a fresh listing to the builder.              *)
LEMMA StartStep ==
  ASSUME PayInv, pc = "idle", NEW p \in Plans, wallet_fund_and_sign(p)
  PROVE  PayInv'
PROOF
<1>1. PICK u \in Seq(CoinRec) : u = rank_funding_utxos(list_utxos, 0, FALSE) /\ Coins(txs, u)
  <2>1. PICK f : f = rank_funding_utxos(list_utxos, 0, FALSE)
    OBVIOUS
  <2>2. f \in Seq(CoinRec) /\ Coins(txs, f)
    BY <2>1, Ranked DEF PayInv
  <2> QED BY <2>1, <2>2
<1>2. /\ plan' = p /\ utxos' = u /\ pc' = "check"
      /\ UNCHANGED <<total_recip, sel_count, running_in, result, why, txs, listed, child, reports>>
  BY <1>1 DEF wallet_fund_and_sign, chain_vars
<1>3. BuildOK
  BY DEF PayInv
<1>4. total_recip = 0 /\ running_in = 0 /\ sel_count = 0 /\ why = "" /\ result.outputs \in Seq(Int)
  BY <1>3 DEF BuildOK, Fresh, Reasons, BuildType
<1>5. Len(u) \in Nat /\ 0 \in 0..Len(u) /\ 0 \in 0..MAX_MONEY
  BY FundingConstants
<1>6. BuildType' /\ Fresh' /\ Reasons' /\ Checked' /\ Open' /\ Tight' /\ Covered' /\ Change' /\ FeeIsFair'
  BY <1>2, <1>4, <1>5 DEF BuildType, Fresh, Reasons, Checked, Open, Tight, Covered, Change, FeeIsFair
<1>7. Taken'
  <2>1. funding_utxos_total(SubSeq(u, 1, 0)) = 0
    BY CoinTotals
  <2>2. Taken' <=> running_in' = funding_utxos_total(SubSeq(utxos', 1, sel_count'))
    BY DEF Taken
  <2> QED BY <1>2, <1>4, <2>1, <2>2
<1>8. SpendAddsUp'
  BY <1>2, <1>4, <1>5 DEF SpendAddsUp
<1>9. ChainType' /\ ChildType'
  BY <1>2 DEF PayInv, ChainType, ChildType
<1>10. (Closed(txs) /\ Coins(txs, utxos) /\ Books(txs, reports))'
  BY <1>1, <1>2 DEF PayInv
<1> QED BY <1>6, <1>7, <1>8, <1>9, <1>10 DEF PayInv, BuildOK

(* What the address was funded with is a number.                            *)
LEMMA StartInt == ASSUME NEW h \in Seq(Txs), Len(h) >= 1 PROVE Start(h) \in Int
PROOF
<1>1. 1 \in 0..Len(h) /\ Len(h) \in 0..Len(h)
  OBVIOUS
<1>2. IsFiniteSet(PointsIn(h, 1)) /\ PointsIn(h, 1) \subseteq PointsIn(h, Len(h))
  BY <1>1, PointsFinite
<1>3. \A o \in PointsIn(h, Len(h)) : Val(h)[o] \in Int
  BY <1>1, PointIs DEF Val
<1>4. \A o \in PointsIn(h, 1) : Val(h)[o] \in Int
  BY <1>2, <1>3
<1> QED BY <1>2, <1>4, SumInt DEF Start

(* A command that ends reports what it has printed: the node took nothing,  *)
(* or what the address has less is just that.                               *)
LEMMA ReportStep ==
  ASSUME PayInv, NEW what \in Kinds, NEW sent \in Int, NEW fee \in Int, Report(what, sent, fee), UNCHANGED listed,
         \/ txs' = txs /\ what # "sent"
         \/ /\ what \in {"sent", "unknown"} /\ \E tx \in Txs : txs' = Append(txs, tx)
            /\ Closed(txs') /\ Start(txs') = Start(txs) /\ Worth(txs') = Worth(txs) - (sent + fee)
  PROVE  PayInv'
PROOF
<1>1. /\ reports' = Append(reports, [what |-> what, sent |-> sent, fee |-> fee])
      /\ pc' = "idle" /\ plan' = NoPlan /\ utxos' = <<>> /\ total_recip' = 0
      /\ sel_count' = 0 /\ running_in' = 0 /\ result' = NoResult /\ why' = ""
  BY DEF Report
<1>2. /\ txs \in Seq(Txs) /\ listed \in 1..Len(txs) /\ Len(txs[1].confirmed) = Len(txs[1].outs)
      /\ reports \in Seq(Reports) /\ Len(txs) \in Nat /\ Len(txs) >= 1
  <2>1. /\ txs \in Seq(Txs) /\ listed \in 1..Len(txs) /\ Len(txs[1].confirmed) = Len(txs[1].outs)
        /\ reports \in Seq(Reports)
    BY DEF PayInv, ChainType
  <2> QED BY <2>1
<1>3. BuildOK'
  <2>1. NoPlan \in Plans /\ NoResult.outputs = <<>>
    BY DEF NoPlan, Plans, NoResult
  <2>2. 0 \in 0..MAX_MONEY /\ 0 \in 0..Len(<<>>) /\ <<>> \in Seq(CoinRec) /\ <<>> \in Seq(Int)
    BY FundingConstants
  <2>3. BuildType' /\ Fresh' /\ Reasons' /\ Checked' /\ Open' /\ Tight' /\ Covered' /\ Change' /\ FeeIsFair'
    <3>1. Len(<<>>) = 0
      OBVIOUS
    <3> QED BY <1>1, <2>1, <2>2, <3>1 DEF BuildType, Fresh, Reasons, Checked, Open, Tight, Covered, Change, FeeIsFair
  <2>4. Taken'
    <3>1. funding_utxos_total(SubSeq(<<>>, 1, 0)) = 0
      BY <2>2, CoinTotals
    <3>2. Taken' <=> running_in' = funding_utxos_total(SubSeq(utxos', 1, sel_count'))
      BY DEF Taken
    <3> QED BY <1>1, <3>1, <3>2
  <2>5. SpendAddsUp'
    BY <1>1, <2>2 DEF SpendAddsUp
  <2> QED BY <2>3, <2>4, <2>5 DEF BuildOK
<1>4. PICK r \in Reports : r = [what |-> what, sent |-> sent, fee |-> fee]
  <2>1. [what |-> what, sent |-> sent, fee |-> fee] \in Reports
    BY DEF Reports
  <2> QED BY <2>1
<1>5. r.what = what /\ r.sent = sent /\ r.fee = fee
  BY <1>4
<1>6. /\ reports' = Append(reports, r) /\ reports' \in Seq(Reports)
  <2>1. reports' = Append(reports, r)
    BY <1>1, <1>4
  <2>2. Append(reports, r) \in Seq(Reports)
    BY <1>2
  <2> QED BY <2>1, <2>2
<1>7. /\ txs' \in Seq(Txs) /\ Len(txs') >= Len(txs) /\ Len(txs') \in Nat /\ txs'[1] = txs[1]
  <2>1. CASE txs' = txs
    BY <1>2, <2>1
  <2>2. CASE \E tx \in Txs : txs' = Append(txs, tx)
    BY <1>2, <2>2
  <2> QED BY <2>1, <2>2
<1>8. ChainType'
  BY <1>2, <1>6, <1>7 DEF ChainType
<1>9. ChildType'
  BY <1>1 DEF ChildType
<1>10. Closed(txs') /\ Start(txs') = Start(txs)
  BY DEF PayInv
<1>11. Coins(txs', utxos')
  <2>1. 1..Len(<<>>) = {}
    OBVIOUS
  <2> QED BY <1>1, <2>1 DEF Coins
<1>12. Books(txs', Append(reports, r))
  <2>1. Start(txs) \in Int
    BY <1>2, StartInt
  <2>2. Books(txs, reports)
    BY DEF PayInv
  <2>3. \/ r.what # "sent" /\ Worth(txs') = Worth(txs)
        \/ r.what \in {"sent", "unknown"} /\ Worth(txs') = Worth(txs) - (r.sent + r.fee)
    BY <1>5
  <2>4. PICK h, g : h = txs /\ g = txs'
    OBVIOUS
  <2>5. Books(g, Append(reports, r))
    BY <1>2, <1>10, <2>1, <2>2, <2>3, <2>4, BooksReport
  <2> QED BY <2>4, <2>5
<1>13. (Closed(txs) /\ Coins(txs, utxos) /\ Books(txs, reports))'
  BY <1>6, <1>10, <1>11, <1>12
<1> QED BY <1>3, <1>8, <1>9, <1>13 DEF PayInv

(* A refusal.                                                               *)
LEMMA RefuseStep == ASSUME PayInv, Refuse PROVE PayInv'
PROOF
<1>1. Report("failed", 0, 0) /\ UNCHANGED txs /\ UNCHANGED listed /\ "failed" \in Kinds
  BY DEF Refuse, chain_vars, Kinds
<1>2. PICK what \in Kinds, n \in Int : what = "failed" /\ n = 0
  BY <1>1
<1>3. Report(what, n, n) /\ what # "sent"
  BY <1>1, <1>2
<1> QED BY <1>1, <1>3, ReportStep

(* What the node has checked of a transaction.                              *)
LEMMA AcceptedOwn == ASSUME NEW tx, NodeAccepts(tx) PROVE tx.ins \subseteq OwnIn(txs, Len(txs))
  BY DEF NodeAccepts, OwnIn, Outpoints, PointsIn, SpentBy, SpentIn, Out, At

(* The transaction the builder has made: its inputs are worth the running   *)
(* sum, what comes back is the change, and the rest is what was printed.    *)
SpendOuts == [i \in 1..Len(result.outputs) |->
  <<IF result.change > 0 /\ i = Len(result.outputs) THEN "own" ELSE "payee", result.outputs[i]>>]

LEMMA SpendIsTx ==
  ASSUME PayInv, pc = "done"
  PROVE  /\ Spend \in Txs /\ Spend.outs = SpendOuts /\ Spend.ins = {utxos[i].outpoint : i \in 1..sel_count}
         /\ result.outputs \in Seq(Int) /\ SpendOuts \in Seq(Outs) /\ Len(SpendOuts) = Len(result.outputs)
PROOF
<1>1. PICK o \in Seq(Int) : o = result.outputs
  BY DEF PayInv, BuildOK, BuildType
<1>2. \A i \in 1..Len(o) : o[i] \in Nat
  <2>1. \A i \in 1..Len(o) : o[i] >= WALLET_DUST_THRESHOLD /\ o[i] \in Int
    BY <1>1 DEF PayInv, BuildOK, SpendAddsUp
  <2> QED BY <2>1 DEF WALLET_DUST_THRESHOLD
<1>3. PICK f : f = [i \in 1..Len(o) |-> <<IF result.change > 0 /\ i = Len(o) THEN "own" ELSE "payee", o[i]>>]
  OBVIOUS
<1>4. \A i \in 1..Len(o) : f[i] \in Outs
  BY <1>2, <1>3 DEF Outs
<1>5. f \in Seq(Outs) /\ Len(f) = Len(o)
  <2>1. PICK m \in Nat : m = Len(o)
    OBVIOUS
  <2>2. PICK e \in [1..m -> Outs] : e = f
    BY <1>3, <1>4, <2>1
  <2>3. e \in Seq(Outs) /\ Len(e) = m
    OBVIOUS
  <2> QED BY <2>1, <2>2, <2>3
<1>6. PICK S : S = {utxos[i].outpoint : i \in 1..sel_count}
  OBVIOUS
<1>7. S \subseteq Nat \X Nat
  <2>1. utxos \in Seq(CoinRec) /\ Len(utxos) \in Nat /\ sel_count \in Nat /\ sel_count <= Len(utxos)
    BY BuildNumbers DEF PayInv
  <2>2. \A i \in 1..sel_count : utxos[i] \in CoinRec
    BY <2>1
  <2>3. \A i \in 1..sel_count : utxos[i].outpoint \in Nat \X Nat
    BY <2>2 DEF CoinRec
  <2> QED BY <1>6, <2>3
<1>8. f = SpendOuts
  BY <1>1, <1>3 DEF SpendOuts
<1>9. Spend = [ins |-> S, outs |-> f, confirmed |-> <<>>]
  BY <1>1, <1>3, <1>6 DEF Spend
<1>10. Spend \in Txs /\ Spend.outs = f /\ Spend.ins = S
  BY <1>5, <1>7, <1>9 DEF Txs
<1> QED BY <1>1, <1>5, <1>6, <1>8, <1>10

LEMMA SpendTakes ==
  ASSUME PayInv, pc = "done" PROVE SumFunctionOnSet(Val(txs), Spend.ins) = running_in
PROOF
<1>1. utxos \in Seq(CoinRec) /\ Len(utxos) \in Nat /\ sel_count \in Nat /\ sel_count <= Len(utxos)
  BY BuildNumbers DEF PayInv
<1>2. PICK k \in Nat : k = sel_count
  BY <1>1
<1>3. PICK q \in Seq(CoinRec) : q = SubSeq(utxos, 1, k)
  <2>1. SubSeq(utxos, 1, k) \in Seq(CoinRec)
    BY <1>1, <1>2
  <2> QED BY <2>1
<1>4. Len(q) = k /\ DOMAIN q = 1..k /\ \A i \in 1..k : q[i] = utxos[i] /\ q[i] \in CoinRec
  BY <1>1, <1>2, <1>3
<1>5. PICK v, f, w : v = SatsIn(q) /\ f = [i \in 1..k |-> utxos[i].outpoint] /\ w = Val(txs)
  OBVIOUS
<1>6. DOMAIN v = 1..k /\ \A i \in 1..k : v[i] = utxos[i].sats /\ v[i] \in Int
  BY <1>4, <1>5 DEF SatsIn, CoinRec
<1>7. running_in = SumFunctionOnSet(v, 1..k)
  <2>1. running_in = funding_utxos_total(q)
    BY <1>2, <1>3 DEF PayInv, BuildOK, Taken
  <2> QED BY <1>5, <1>6, <2>1, CoinTotal, TotalIsSum
<1>8. /\ \A i \in 1..k : f[i] = utxos[i].outpoint /\ f[i] \in PointsIn(txs, Len(txs)) /\ utxos[i].sats = At(txs, f[i])[2]
      /\ \A i, j \in 1..k : f[i] = f[j] => i = j
  BY <1>1, <1>2, <1>5 DEF PayInv, Coins
<1>9. \A i \in 1..k : v[i] \in Int /\ v[i] = w[f[i]]
  BY <1>5, <1>6, <1>8 DEF Val
<1>10. PICK J : J = {f[i] : i \in 1..k}
  OBVIOUS
<1>11. J = Spend.ins
  <2>1. J = {utxos[i].outpoint : i \in 1..k}
    BY <1>8, <1>10
  <2>2. Spend.ins = {utxos[i].outpoint : i \in 1..sel_count}
    BY SpendIsTx
  <2> QED BY <1>2, <2>1, <2>2, Zenon
<1>12. IsFiniteSet(1..k)
  BY FS_Interval
<1>13. SumFunctionOnSet(v, 1..k) = SumFunctionOnSet(w, J)
  <2>1. PICK I : I = 1..k
    OBVIOUS
  <2>2. /\ IsFiniteSet(I) /\ J = {f[i] : i \in I}
        /\ \A i \in I : v[i] \in Int /\ v[i] = w[f[i]]
        /\ \A i, j \in I : f[i] = f[j] => i = j
    BY <1>8, <1>9, <1>10, <1>12, <2>1, Zenon
  <2>3. SumFunctionOnSet(v, I) = SumFunctionOnSet(w, J)
    BY <2>2, SumReindex
  <2> QED BY <2>1, <2>3
<1> QED BY <1>5, <1>7, <1>11, <1>13

LEMMA SpendGains ==
  ASSUME PayInv, pc = "done", NEW g, g = Append(txs, Spend)
  PROVE  SumFunctionOnSet(Val(g), NewOwn(txs, Spend)) = result.change /\ result.change \in Int
PROOF
<1>1. /\ Spend \in Txs /\ Spend.outs = SpendOuts /\ result.outputs \in Seq(Int)
      /\ SpendOuts \in Seq(Outs) /\ Len(SpendOuts) = Len(result.outputs)
  BY SpendIsTx
<1>2. PICK n \in Nat, m \in Nat : n = Len(txs) /\ m = Len(result.outputs)
  BY <1>1 DEF PayInv, ChainType
<1>3. PICK f : f = SpendOuts
  OBVIOUS
<1>4. \A i \in 1..m : f[i] = <<IF result.change > 0 /\ i = m THEN "own" ELSE "payee", result.outputs[i]>>
  BY <1>2, <1>3 DEF SpendOuts
<1>5. result.change \in Nat /\ (plan.send_all => result.change = 0)
  BY DEF PayInv, BuildOK, Change
<1>6. NewPoints(txs, Spend) = {<<n + 1, v>> : v \in 0..(m - 1)}
  BY <1>1, <1>2 DEF NewPoints
<1>7. NewOwn(txs, Spend) = {o \in NewPoints(txs, Spend) : f[o[2] + 1][1] = "own"}
  BY <1>1, <1>3 DEF NewOwn
<1>8. CASE result.change = 0
  <2>1. \A i \in 1..m : f[i][1] = "payee"
    BY <1>4, <1>8
  <2>2. ASSUME NEW o \in NewPoints(txs, Spend) PROVE o \notin NewOwn(txs, Spend)
    <3>1. PICK v \in 0..(m - 1) : o = <<n + 1, v>>
      BY <1>6
    <3>2. o[2] = v /\ v + 1 \in 1..m
      BY <1>2, <3>1
    <3>3. f[o[2] + 1][1] = "payee"
      BY <2>1, <3>2
    <3> QED BY <1>7, <3>3
  <2>3. NewOwn(txs, Spend) = {}
    BY <1>7, <2>2
  <2> QED BY <1>8, <2>3, SumEmpty
<1>9. CASE result.change # 0
  <2>1. result.change > 0 /\ ~ plan.send_all
    BY <1>5, <1>9
  <2>2. plan.recipients \in Seq(Int)
    BY PlanSizes DEF PayInv, BuildOK, BuildType
  <2>3. result.outputs = plan.recipients \o <<result.change>>
    BY <1>9, <2>1 DEF PayInv, BuildOK, SpendAddsUp
  <2>4. PICK c \in Int, r \in Seq(Int) : c = result.change /\ r = plan.recipients
    BY <1>5, <2>2
  <2>5. m = Len(r) + 1 /\ m >= 1 /\ result.outputs[m] = c
    BY <1>2, <2>3, <2>4
  <2>6. f[m] = <<"own", c>> /\ \A i \in 1..m : i # m => f[i][1] = "payee"
    BY <1>4, <2>1, <2>5
  <2>7. PICK p : p = <<n + 1, m - 1>>
    OBVIOUS
  <2>8. p \in NewPoints(txs, Spend) /\ p[2] + 1 = m
    BY <1>2, <1>6, <2>5, <2>7
  <2>9. ASSUME NEW o \in NewPoints(txs, Spend) PROVE o \in NewOwn(txs, Spend) <=> o = p
    <3>1. PICK v \in 0..(m - 1) : o = <<n + 1, v>>
      BY <1>6
    <3>2. o[2] = v /\ v + 1 \in 1..m /\ (v = m - 1 <=> o = p)
      BY <1>2, <2>7, <3>1
    <3>3. CASE v = m - 1
      <4>1. f[o[2] + 1][1] = "own"
        BY <2>5, <2>6, <3>2, <3>3
      <4> QED BY <1>7, <3>2, <3>3, <4>1
    <3>4. CASE v # m - 1
      <4>1. f[o[2] + 1][1] = "payee"
        BY <2>5, <2>6, <3>2, <3>4
      <4> QED BY <1>7, <3>2, <3>4, <4>1
    <3> QED BY <3>3, <3>4
  <2>10. NewOwn(txs, Spend) = {p}
    BY <1>7, <2>8, <2>9
  <2>11. Val(g)[p] = c
    <3>1. txs \in Seq(Txs)
      BY DEF PayInv, ChainType
    <3>2. Adds(txs, Spend, g)
      BY <1>1, <3>1, OneMore
    <3>3. p \in PointsIn(g, Len(g)) /\ At(g, p) = f[m]
      BY <1>1, <1>3, <2>8, <3>2 DEF Adds
    <3> QED BY <2>6, <3>3 DEF Val
  <2>12. PICK w : w = Val(g)
    OBVIOUS
  <2>13. SumFunctionOnSet(w, {p}) = c
    BY <2>11, <2>12, SumSingle
  <2> QED BY <2>4, <2>10, <2>12, <2>13
<1> QED BY <1>5, <1>8, <1>9

(* What was printed, and the change, are what the spend takes in.           *)
LEMMA SpendCosts ==
  ASSUME PayInv, pc = "done"
  PROVE  Sent \in Int /\ Fee \in Int /\ result.change \in Int /\ running_in = Sent + Fee + result.change
PROOF
<1>1. PICK o \in Seq(Int) : o = result.outputs
  BY DEF PayInv, BuildOK, BuildType
<1>2. PICK r \in Seq(Int) : r = plan.recipients
  BY PlanSizes DEF PayInv, BuildOK, BuildType
<1>3. PICK fee \in Int, c \in Nat : fee = result.fee /\ c = result.change /\ (plan.send_all => c = 0)
  BY DEF PayInv, BuildOK, Change
<1>4. /\ running_in = result.total_out + fee /\ result.total_out = Total(o)
      /\ ~ plan.send_all => o = r \o (IF c = 0 THEN <<>> ELSE <<c>>)
  BY <1>1, <1>2, <1>3 DEF PayInv, BuildOK, SpendAddsUp
<1>5. Total(o) \in Int /\ Total(r) \in Int
  BY Totals
<1>6. Fee = fee /\ Sent = IF plan.send_all THEN Total(o) ELSE Total(r)
  BY <1>2, <1>3, <1>4 DEF Fee, Sent
<1>7. CASE plan.send_all
  BY <1>3, <1>4, <1>5, <1>6, <1>7
<1>8. CASE ~ plan.send_all
  <2>1. Total(o) = Total(r) + c
    <3>1. CASE c = 0
      <4>1. r \o <<>> = r
        OBVIOUS
      <4> QED BY <1>4, <1>5, <1>8, <3>1, <4>1
    <3>2. CASE c # 0
      <4>1. r \o <<c>> = Append(r, c)
        OBVIOUS
      <4>2. o = Append(r, c)
        BY <1>4, <1>8, <3>2, <4>1
      <4> QED BY <4>2, Totals
    <3> QED BY <3>1, <3>2
  <2> QED BY <1>3, <1>4, <1>5, <1>6, <1>8, <2>1
<1> QED BY <1>7, <1>8

(* The child cpfp has made: it takes the output it names and gives back     *)
(* what the fee leaves.                                                     *)
LEMMA ChildIsTx ==
  ASSUME PayInv, pc = "child", NEW g, g = Append(txs, Child)
  PROVE  /\ Child \in Txs /\ Sent = 0 /\ Fee \in Int
         /\ SumFunctionOnSet(Val(txs), Child.ins) = child[2] + Fee /\ child[2] \in Nat
         /\ SumFunctionOnSet(Val(g), NewOwn(txs, Child)) = child[2]
PROOF
<1>1. /\ txs \in Seq(Txs) /\ child[1] \in PointsIn(txs, Len(txs)) /\ child[2] \in Nat /\ child[3] \in Int
      /\ child[2] + child[3] = At(txs, child[1])[2]
  BY DEF PayInv, ChildType, ChainType
<1>2. PICK o \in PointsIn(txs, Len(txs)), v \in Nat : o = child[1] /\ v = child[2]
  BY <1>1
<1>3. PICK n \in Nat : n = Len(txs)
  BY <1>1
<1>4. {o} \subseteq Nat \X Nat
  <2>1. n \in 0..Len(txs)
    BY <1>3
  <2>2. o \in (1..n) \X Nat
    BY <1>1, <1>3, <2>1, PointIs
  <2> QED BY <2>2
<1>5. PICK f : f = <<<<"own", v>>>>
  OBVIOUS
<1>6. f \in Seq(Outs) /\ Len(f) = 1 /\ f[1] = <<"own", v>>
  BY <1>5 DEF Outs
<1>7. Child = [ins |-> {o}, outs |-> f, confirmed |-> <<>>]
  BY <1>2, <1>5 DEF Child
<1>8. Child \in Txs /\ Child.outs = f /\ Child.ins = {o}
  BY <1>4, <1>6, <1>7 DEF Txs
<1>9. Sent = 0 /\ Fee = child[3]
  BY DEF Sent, Fee
<1>10. SumFunctionOnSet(Val(txs), Child.ins) = child[2] + child[3]
  <2>1. PICK w : w = Val(txs)
    OBVIOUS
  <2>2. w[o] = child[2] + child[3] /\ w[o] \in Int
    BY <1>1, <1>2, <2>1 DEF Val
  <2>3. SumFunctionOnSet(w, {o}) = w[o]
    BY <2>2, SumSingle
  <2> QED BY <1>8, <2>1, <2>2, <2>3
<1>11. SumFunctionOnSet(Val(g), NewOwn(txs, Child)) = child[2]
  <2>1. PICK p : p = <<n + 1, 0>>
    OBVIOUS
  <2>2. NewPoints(txs, Child) = {p} /\ p[2] = 0
    <3>1. 0..(Len(f) - 1) = {0}
      BY <1>6
    <3>2. NewPoints(txs, Child) = {<<n + 1, k>> : k \in {0}}
      BY <1>3, <1>8, <3>1 DEF NewPoints
    <3> QED BY <2>1, <3>2
  <2>3. NewOwn(txs, Child) = {p}
    BY <1>6, <1>8, <2>2 DEF NewOwn
  <2>4. PICK w : w = Val(g)
    OBVIOUS
  <2>5. Adds(txs, Child, g)
    BY <1>1, <1>8, OneMore
  <2>6. p \in PointsIn(g, Len(g)) /\ At(g, p) = f[1]
    BY <1>8, <2>2, <2>5 DEF Adds
  <2>7. w[p] = v
    BY <1>6, <2>4, <2>6 DEF Val
  <2>8. SumFunctionOnSet(w, {p}) = v
    <3>1. w[p] \in Int
      BY <2>7
    <3> QED BY <2>7, <3>1, SumSingle
  <2> QED BY <1>2, <2>3, <2>4, <2>8
<1> QED BY <1>1, <1>8, <1>9, <1>10, <1>11

(* A transaction the node takes.                                            *)
LEMMA AcceptedStep == ASSUME PayInv, NEW what \in {"sent", "unknown"}, Accepted(what) PROVE PayInv'
PROOF
<1>1. /\ pc \in {"done", "child"} /\ NodeAccepts(Signed)
      /\ txs' = Append(txs, Signed) /\ UNCHANGED listed /\ Report(what, Sent, Fee)
  BY DEF Accepted
<1>2. what \in Kinds
  BY DEF Kinds
<1>3. txs \in Seq(Txs) /\ Len(txs) >= 1 /\ Closed(txs)
  <2>1. txs \in Seq(Txs) /\ listed \in 1..Len(txs) /\ Closed(txs)
    BY DEF PayInv, ChainType
  <2> QED BY <2>1
<1>4. PICK g, h : g = txs' /\ h = txs
  OBVIOUS
<1>5. PICK tx \in Txs, change \in Int, s \in Int, f \in Int :
        /\ tx = Signed /\ s = Sent /\ f = Fee
        /\ SumFunctionOnSet(Val(h), tx.ins) = s + f + change
        /\ SumFunctionOnSet(Val(g), NewOwn(h, tx)) = change
  <2>1. CASE pc = "done"
    <3>1. Signed = Spend
      BY <2>1 DEF Signed
    <3>2. g = Append(txs, Spend)
      BY <1>1, <1>4, <3>1
    <3>3. SumFunctionOnSet(Val(g), NewOwn(txs, Spend)) = result.change /\ result.change \in Int
      BY <2>1, <3>2, SpendGains
    <3>4. SumFunctionOnSet(Val(txs), Spend.ins) = Sent + Fee + result.change /\ Sent \in Int /\ Fee \in Int
      BY <2>1, SpendTakes, SpendCosts
    <3>5. Spend \in Txs
      BY <2>1, SpendIsTx
    <3> QED BY <1>4, <3>1, <3>3, <3>4, <3>5, Zenon
  <2>2. CASE pc = "child"
    <3>1. Signed = Child
      BY <2>2 DEF Signed
    <3>2. g = Append(txs, Child)
      BY <1>1, <1>4, <3>1
    <3>3. /\ Child \in Txs /\ Sent = 0 /\ Fee \in Int
          /\ SumFunctionOnSet(Val(txs), Child.ins) = child[2] + Fee /\ child[2] \in Nat
          /\ SumFunctionOnSet(Val(g), NewOwn(txs, Child)) = child[2]
      BY <2>2, <3>2, ChildIsTx
    <3>4. Sent \in Int /\ child[2] \in Int /\ SumFunctionOnSet(Val(txs), Child.ins) = Sent + Fee + child[2]
      BY <3>3
    <3> QED BY <1>4, <3>1, <3>3, <3>4, Zenon
  <2> QED BY <1>1, <2>1, <2>2
<1>6. tx.ins \subseteq OwnIn(txs, Len(txs))
  <2>1. NodeAccepts(tx)
    BY <1>1, <1>5
  <2> QED BY <2>1, AcceptedOwn
<1>7. g = Append(h, tx) /\ h \in Seq(Txs) /\ Len(h) >= 1 /\ Closed(h) /\ tx.ins \subseteq OwnIn(h, Len(h))
  BY <1>1, <1>3, <1>4, <1>5, <1>6
<1>8. /\ Closed(g) /\ Start(g) = Start(h) /\ Worth(h) \in Int
      /\ Worth(g) = Worth(h) - SumFunctionOnSet(Val(h), tx.ins) + SumFunctionOnSet(Val(g), NewOwn(h, tx))
  BY <1>7, Spends
<1>9. Worth(g) = Worth(h) - (s + f)
  BY <1>5, <1>8
<1>10. /\ Closed(txs') /\ Start(txs') = Start(txs) /\ Worth(txs') = Worth(txs) - (s + f)
       /\ \E t \in Txs : txs' = Append(txs, t)
  BY <1>4, <1>7, <1>8, <1>9
<1>11. Report(what, s, f)
  BY <1>1, <1>5
<1> QED BY <1>1, <1>2, <1>10, <1>11, ReportStep

(* What is printed are numbers.                                             *)
LEMMA PrintedNumbers == ASSUME PayInv, pc \in {"done", "child"} PROVE Sent \in Int /\ Fee \in Int
PROOF
<1>1. CASE pc = "done"
  BY <1>1, SpendCosts
<1>2. CASE pc = "child"
  <2>1. PICK g : g = Append(txs, Child)
    OBVIOUS
  <2>2. Sent = 0 /\ Fee \in Int
    BY <1>2, <2>1, ChildIsTx
  <2> QED BY <2>2
<1> QED BY <1>1, <1>2

(* A command that ends without the node taking anything.                    *)
LEMMA PrintedStep ==
  ASSUME PayInv, pc \in {"done", "child"}, NEW what \in {"dry run", "unknown"}, Report(what, Sent, Fee), UNCHANGED chain_vars
  PROVE  PayInv'
PROOF
<1>1. PICK s \in Int, f \in Int : s = Sent /\ f = Fee
  BY PrintedNumbers
<1>2. what \in Kinds /\ what # "sent" /\ Report(what, s, f) /\ txs' = txs /\ UNCHANGED listed
  BY <1>1 DEF Kinds, chain_vars
<1> QED BY <1>2, ReportStep

(* cpfp builds a child, or refuses.                                         *)
LEMMA CpfpStep == ASSUME PayInv, Cpfp PROVE PayInv'
PROOF
<1>1. PICK t \in 1..listed, v \in Vouts, fee \in ChildFees :
        IF v % VOUT_RANGE >= Len(txs[t].outs) THEN Refuse
        ELSE IF txs[t].outs[(v % VOUT_RANGE) + 1][2] - fee < 1000 \/ fee > 50000 THEN Refuse
        ELSE /\ child' = <<<<t, v % VOUT_RANGE>>, txs[t].outs[(v % VOUT_RANGE) + 1][2] - fee, fee>> /\ pc' = "child"
             /\ UNCHANGED <<spend_vars, chain_vars, reports>>
  BY DEF Cpfp
<1>2. PICK n \in Nat : n = v % VOUT_RANGE
  BY PaymentConstants
<1>3. fee \in Int
  BY PaymentConstants
<1>4. /\ txs \in Seq(Txs) /\ listed \in 1..Len(txs) /\ Len(txs) \in Nat /\ t \in 1..Len(txs)
  BY DEF PayInv, ChainType
<1>5. txs[t] \in Txs
  BY <1>4
<1>6. PICK outs \in Seq(Outs) : outs = txs[t].outs
  BY <1>5 DEF Txs
<1>7. CASE n >= Len(outs)
  BY <1>1, <1>2, <1>6, <1>7, RefuseStep
<1>8. CASE ~ (n >= Len(outs))
  <2>1. n + 1 \in 1..Len(outs) /\ outs[n + 1] \in Outs
    BY <1>8
  <2>2. PICK sats \in Nat : sats = outs[n + 1][2]
    BY <2>1 DEF Outs
  <2>3. CASE sats - fee < 1000 \/ fee > 50000
    BY <1>1, <1>2, <1>6, <1>8, <2>2, <2>3, RefuseStep
  <2>4. CASE ~ (sats - fee < 1000 \/ fee > 50000)
    <3>1. PICK left \in Nat : left = sats - fee /\ left + fee = sats
      BY <1>3, <2>4
    <3>2. child' = <<<<t, n>>, left, fee>> /\ pc' = "child" /\ UNCHANGED <<spend_vars, chain_vars, reports>>
      BY <1>1, <1>2, <1>6, <1>8, <2>2, <2>4, <3>1
    <3>3. /\ child'[1] = <<t, n>> /\ child'[2] = left /\ child'[3] = fee
          /\ UNCHANGED <<plan, utxos, total_recip, sel_count, running_in, result, why>>
          /\ UNCHANGED txs /\ UNCHANGED listed /\ UNCHANGED reports
      BY <3>2 DEF spend_vars, chain_vars
    <3>4. pc = "idle" /\ BuildOK
      BY DEF Cpfp, Starts, PayInv
    <3>5. BuildOK'
      BY <3>2, <3>3, <3>4 DEF BuildOK, BuildType, Taken, Fresh, Reasons, Checked, Open, Tight, Covered, Change,
                              SpendAddsUp, FeeIsFair
    <3>6. ChainType'
      BY <3>3 DEF PayInv, ChainType
    <3>7. ChildType'
      <4>1. <<t, n>> \in PointsIn(txs, Len(txs))
        <5>1. n \in 0..(Len(txs[t].outs) - 1)
          BY <1>6, <1>8
        <5> QED BY <1>4, <5>1, PointFor
      <4>2. At(txs, <<t, n>>)[2] = sats
        BY <1>6, <2>2 DEF At
      <4>3. /\ child'[1] \in PointsIn(txs', Len(txs')) /\ child'[2] \in Nat /\ child'[3] \in Int
            /\ child'[2] + child'[3] = At(txs', child'[1])[2]
        BY <1>3, <3>1, <3>3, <4>1, <4>2
      <4> QED BY <4>3 DEF ChildType
    <3>8. (Closed(txs) /\ Coins(txs, utxos) /\ Books(txs, reports))'
      BY <3>3 DEF PayInv
    <3> QED BY <3>5, <3>6, <3>7, <3>8 DEF PayInv
  <2> QED BY <2>3, <2>4
<1> QED BY <1>7, <1>8

(* The builder leaves the node and the reports alone.                       *)
LEMMA BuilderStep == ASSUME PayInv, Builder PROVE PayInv'
PROOF
<1>1. Build /\ UNCHANGED <<txs, listed, child, reports>>
  BY DEF Builder, chain_vars
<1>2. BuildOK'
  BY <1>1, CheckStep, SelectStep, SelectEndsStep, SettleSweepStep, SettleChangeStep DEF PayInv, Build
<1>3. (pc # "child")' /\ UNCHANGED utxos
  BY <1>1 DEF Build, Check, Select, SelectEnds, SettleSweep, SettleChange, Fail, Finish
<1>4. ChainType'
  BY <1>1 DEF PayInv, ChainType
<1>5. ChildType'
  BY <1>3 DEF ChildType
<1>6. (Closed(txs) /\ Coins(txs, utxos) /\ Books(txs, reports))'
  BY <1>1, <1>3 DEF PayInv
<1> QED BY <1>2, <1>4, <1>5, <1>6 DEF PayInv

(* The listing catches up, or nothing happens.                              *)
LEMMA ListStep == ASSUME PayInv, List \/ UNCHANGED vars PROVE PayInv'
PROOF
<1>1. /\ UNCHANGED <<pc, plan, utxos, total_recip, sel_count, running_in, result, why, txs, child, reports>>
      /\ listed' = listed \/ (listed < Len(txs) /\ listed' = listed + 1)
  BY DEF List, vars, spend_vars
<1>2. BuildOK'
  <2>1. NumOut' = NumOut /\ Script' = Script /\ BadArguments' = BadArguments
    BY <1>1 DEF NumOut, Script, BadArguments
  <2>2. BuildOK
    BY DEF PayInv
  <2>3. FeeShort' <=> FeeShort
    BY <1>1 DEF FeeShort, Settled, Script
  <2>4. BuildType' /\ Taken' /\ Fresh' /\ Reasons'
    BY <1>1, <2>2, <2>3 DEF BuildOK, BuildType, Taken, Fresh, Reasons
  <2>5. Checked' /\ Open' /\ Tight' /\ Covered' /\ Change'
    BY <1>1, <2>1, <2>2 DEF BuildOK, Checked, Open, Tight, Short, Covered, Change
  <2>6. SpendAddsUp' /\ FeeIsFair'
    BY <1>1, <2>2 DEF BuildOK, SpendAddsUp, FeeIsFair
  <2> QED BY <2>4, <2>5, <2>6 DEF BuildOK
<1>3. txs \in Seq(Txs) /\ listed \in 1..Len(txs) /\ Len(txs) \in Nat
  BY DEF PayInv, ChainType
<1>4. listed' \in 1..Len(txs)
  BY <1>1, <1>3
<1>5. ChainType' /\ ChildType'
  BY <1>1, <1>4 DEF PayInv, ChainType, ChildType
<1>6. (Closed(txs) /\ Coins(txs, utxos) /\ Books(txs, reports))'
  BY <1>1 DEF PayInv
<1> QED BY <1>2, <1>5, <1>6 DEF PayInv

(* The address at the start.                                                *)
LEMMA PayStart == ASSUME Init PROVE PayInv
PROOF
<1>1. /\ pc = "idle" /\ plan = NoPlan /\ utxos = <<>> /\ total_recip = 0
      /\ sel_count = 0 /\ running_in = 0 /\ result = NoResult /\ why = ""
      /\ reports = <<>> /\ listed = 1
  BY DEF Init, Idle
<1>2. PICK w \in Wallets : txs = <<[ins |-> {}, outs |-> [i \in 1..Len(w) |-> <<"own", w[i][1]>>],
                                    confirmed |-> [i \in 1..Len(w) |-> w[i][2]]]>>
  BY DEF Init
<1>3. w \in Seq(Nat \X BOOLEAN)
  BY PaymentConstants
<1>4. Len(w) \in Nat /\ \A i \in 1..Len(w) : w[i][1] \in Nat /\ w[i][2] \in BOOLEAN
  BY <1>3
<1>5. PICK outs : outs = [i \in 1..Len(w) |-> <<"own", w[i][1]>>]
  OBVIOUS
<1>6. PICK conf : conf = [i \in 1..Len(w) |-> w[i][2]]
  OBVIOUS
<1>7. outs \in Seq(Outs) /\ Len(outs) = Len(w) /\ \A i \in 1..Len(outs) : outs[i][1] = "own"
  <2>1. \A i \in 1..Len(w) : outs[i] \in Outs /\ outs[i][1] = "own"
    BY <1>4, <1>5 DEF Outs
  <2>2. outs = [i \in 1..Len(w) |-> outs[i]]
    BY <1>5
  <2> QED BY <1>4, <2>1, <2>2
<1>8. conf \in Seq(BOOLEAN) /\ Len(conf) = Len(w)
  BY <1>4, <1>6
<1>9. PICK tx : tx = [ins |-> {}, outs |-> outs, confirmed |-> conf]
  OBVIOUS
<1>10. tx \in Txs /\ tx.outs = outs /\ tx.confirmed = conf
  BY <1>7, <1>8, <1>9 DEF Txs
<1>11. txs = <<tx>> /\ Len(txs) = 1 /\ txs[1] = tx /\ txs \in Seq(Txs)
  BY <1>2, <1>5, <1>6, <1>9, <1>10
<1>12. ChainType /\ ChildType
  <2>1. <<>> \in Seq(Reports) /\ 1 \in 1..1
    OBVIOUS
  <2> QED BY <1>1, <1>7, <1>8, <1>10, <1>11, <2>1 DEF ChainType, ChildType
<1>13. tx.ins = {} /\ SpentIn(txs, 1) = {}
  <2>1. tx.ins = {} /\ \A t \in 1..1 : txs[t].ins = {}
    BY <1>9, <1>11
  <2> QED BY <2>1 DEF SpentIn
<1>14. Closed(txs)
  BY <1>11, <1>13 DEF Closed
<1>15. Coins(txs, utxos)
  <2>1. 1..Len(<<>>) = {}
    OBVIOUS
  <2> QED BY <1>1, <2>1 DEF Coins
<1>16. Books(txs, reports)
  <2>1. \A o \in PointsIn(txs, 1) : At(txs, o)[1] = "own"
    <3> TAKE o \in PointsIn(txs, 1)
    <3>1. 1 \in 0..Len(txs)
      BY <1>11
    <3>2. o[1] \in 1..1 /\ o[2] + 1 \in 1..Len(txs[o[1]].outs)
      BY <1>11, <3>1, PointIs
    <3>3. o[1] = 1
      BY <3>2
    <3>4. o[2] + 1 \in 1..Len(outs)
      BY <1>10, <1>11, <3>2, <3>3
    <3> QED BY <1>7, <1>10, <1>11, <3>3, <3>4 DEF At
  <2>2. OwnIn(txs, 1) = PointsIn(txs, 1)
    BY <1>13, <2>1 DEF OwnIn
  <2>3. Worth(txs) = Start(txs)
    BY <1>11, <2>2 DEF Worth, Start
  <2>4. KindIn(reports, "sent") = {} /\ {} \in SUBSET KindIn(reports, "unknown")
    <3>1. 1..Len(<<>>) = {}
      OBVIOUS
    <3> QED BY <1>1, <3>1 DEF KindIn
  <2>5. SumFunctionOnSet(Costs(reports), KindIn(reports, "sent") \cup {}) = 0
    BY <2>4, SumEmpty
  <2>6. Start(txs) \in Int
    <3>1. Len(txs) >= 1
      BY <1>11
    <3> QED BY <1>11, <3>1, StartInt
  <2>7. Worth(txs) = Start(txs) - SumFunctionOnSet(Costs(reports), KindIn(reports, "sent") \cup {})
    BY <2>3, <2>5, <2>6
  <2> QED BY <2>4, <2>7 DEF Books
<1>17. BuildOK
  <2>1. NoPlan \in Plans /\ NoResult.outputs = <<>>
    BY DEF NoPlan, Plans, NoResult
  <2>2. 0 \in 0..MAX_MONEY /\ 0 \in 0..Len(<<>>) /\ <<>> \in Seq(CoinRec) /\ <<>> \in Seq(Int)
    BY FundingConstants
  <2>3. BuildType /\ Fresh /\ Reasons /\ Checked /\ Open /\ Tight /\ Covered /\ Change /\ FeeIsFair
    BY <1>1, <2>1, <2>2 DEF BuildType, Fresh, Reasons, Checked, Open, Tight, Covered, Change, FeeIsFair
  <2>4. Taken
    <3>1. funding_utxos_total(SubSeq(<<>>, 1, 0)) = 0
      BY <2>2, CoinTotals
    <3> QED BY <1>1, <3>1 DEF Taken
  <2>5. SpendAddsUp
    BY <1>1, <2>2 DEF SpendAddsUp
  <2> QED BY <2>3, <2>4, <2>5 DEF BuildOK
<1> QED BY <1>12, <1>14, <1>15, <1>16, <1>17 DEF PayInv

(* The plans of the commands.                                               *)
LEMMA RequestStep == ASSUME PayInv, Pay \/ OpReturn \/ LibraryCall PROVE PayInv'
PROOF
<1>1. pc = "idle"
  BY DEF Pay, OpReturn, LibraryCall, Starts
<1>2. CASE Pay
  <2>1. PICK amount \in Amounts, sweep \in BOOLEAN, rate \in Rates :
          \/ Refuse
          \/ wallet_fund_and_sign([recipients |-> <<IF sweep THEN 0 ELSE amount>>, data |-> 0,
                                   send_all |-> sweep, fee_per_kb |-> rate])
    BY <1>2 DEF Pay
  <2>2. amount \in Int /\ rate \in Nat
    BY PaymentConstants
  <2>3. PICK r \in Seq(Int) : r = <<IF sweep THEN 0 ELSE amount>>
    <3>1. PICK a \in Int : a = IF sweep THEN 0 ELSE amount
      BY <2>2
    <3>2. <<a>> \in Seq(Int)
      OBVIOUS
    <3> QED BY <3>1, <3>2
  <2>4. [recipients |-> r, data |-> 0, send_all |-> sweep, fee_per_kb |-> rate] \in Plans
    BY <2>2 DEF Plans
  <2> QED BY <1>1, <2>1, <2>3, <2>4, RefuseStep, StartStep
<1>3. CASE OpReturn
  <2>1. PICK len \in DataLens, rate \in Rates :
          \/ Refuse
          \/ wallet_fund_and_sign([recipients |-> <<>>, data |-> len, send_all |-> FALSE, fee_per_kb |-> rate])
    BY <1>3 DEF OpReturn
  <2>2. len \in Nat /\ rate \in Nat
    BY PaymentConstants
  <2>3. [recipients |-> <<>>, data |-> len, send_all |-> FALSE, fee_per_kb |-> rate] \in Plans
    BY <2>2 DEF Plans
  <2> QED BY <1>1, <2>1, <2>3, RefuseStep, StartStep
<1>4. CASE LibraryCall
  BY <1>1, <1>4, PaymentConstants, StartStep DEF LibraryCall, Plans
<1> QED BY <1>2, <1>3, <1>4

(* Every step keeps the invariant.                                          *)
LEMMA PayStep == ASSUME PayInv, [Next]_vars PROVE PayInv'
PROOF
<1>1. CASE Pay \/ OpReturn \/ LibraryCall
  BY <1>1, RequestStep
<1>2. CASE Cpfp
  BY <1>2, CpfpStep
<1>3. CASE RequestFails \/ BuildFails
  BY <1>3, RefuseStep DEF RequestFails, BuildFails
<1>4. CASE Builder
  BY <1>4, BuilderStep
<1>5. CASE DryRun
  BY <1>5, PrintedStep DEF DryRun
<1>6. CASE Broadcast \/ BroadcastLost
  BY <1>6, AcceptedStep DEF Broadcast, BroadcastLost
<1>7. CASE BroadcastRefused
  BY <1>7, PrintedStep DEF BroadcastRefused
<1>8. CASE List
  BY <1>8, ListStep
<1>9. CASE Ended \/ UNCHANGED vars
  BY <1>9, ListStep DEF Ended
<1> QED BY <1>1, <1>2, <1>3, <1>4, <1>5, <1>6, <1>7, <1>8, <1>9 DEF Next

-----------------------------------------------------------------------------
(* The theorems.                                                            *)

(* The invariant of the builder and of the commands around it.              *)
THEOREM PaymentsInvariant == Spec => []PayInv
  BY PayStart, PayStep, PTL DEF Spec

(* wallet_build_signed_spend: what a finished spend takes in is what it     *)
(* pays out, with the fee it reports; the recipients get what the plan      *)
(* says, nothing is below dust, and no sum passes the money supply.         *)
THEOREM PaymentsSpendAddsUp == Spec => []SpendAddsUp
PROOF
<1>1. PayInv => SpendAddsUp
  BY DEF PayInv, BuildOK
<1> QED BY <1>1, PaymentsInvariant, PTL

(* wallet_build_signed_spend: the fee is at least that of the final size,   *)
(* and above it by less than the dust limit, the fee of a change output and *)
(* the rounding, for any number of inputs and outputs.                      *)
THEOREM PaymentsFeeIsFair == Spec => []FeeIsFair
PROOF
<1>1. PayInv => FeeIsFair
  BY DEF PayInv, BuildOK
<1> QED BY <1>1, PaymentsInvariant, PTL

(* The selection loop takes no coin too many; "insufficient funds" comes    *)
(* after the last coin; and the refusal after the loop, "insufficient funds *)
(* for fee", which may come with coins left, misses at most the fee of one  *)
(* byte per input, for any number of inputs and any rate.                   *)
THEOREM PaymentsSelectionIsTight == Spec => []SelectionIsTight
PROOF
<1>1. PayInv => SelectionIsTight
  BY DEF PayInv, BuildOK, Tight, Reasons, FeeShort, Short, SelectionIsTight
<1> QED BY <1>1, PaymentsInvariant, PTL

(* Over any series of commands, with a listing that lags and broadcasts     *)
(* whose answer is lost, what the address has left at the node is what it   *)
(* had less what the commands printed.                                      *)
THEOREM PaymentsBooksBalance == Spec => []BooksBalance
PROOF
<1>1. PayInv => BooksBalance
  <2> HAVE PayInv
  <2>1. txs \in Seq(Txs) /\ listed \in 1..Len(txs) /\ reports \in Seq(Reports) /\ Books(txs, reports)
    BY DEF PayInv, ChainType
  <2>2. Len(txs) >= 1
    BY <2>1
  <2>3. RawBooks(txs, reports)
    BY <2>1, <2>2, BooksAre
  <2> QED BY <2>3, RawBooksAre
<1> QED BY <1>1, PaymentsInvariant, PTL
=============================================================================
