-------------------------- MODULE LifecycleProofs --------------------------
(***************************************************************************)
(* Proofs about the three scripts that put an identity on the chain, for   *)
(* any number of runs side by side, any coins, any script length and any   *)
(* lag of the two indexes.                                                 *)
(*                                                                         *)
(* What a run did is read off the list of accepted transactions: Born,     *)
(* Moved and Closed say how far the identity of a run has come.  What a    *)
(* run holds in its hands (pend) was built from an older listing; Sound    *)
(* says what remains true of it when it is sent.                           *)
(***************************************************************************)
EXTENDS Lifecycle, SumTheorems, SequenceTheorems

-----------------------------------------------------------------------------
(* Transactions of a list h, as operators of the list.                      *)
Output == [type : {"p2pkh", "state", "opreturn"}, sats : Nat]
TxRec == [op : {"coins", "deploy", "action", "revoke"}, by : Runs \cup {NoTx},
          ins : SUBSET (Nat \X Nat), outs : Seq(Output), change : Int, fee : Int]

In(h, o) == o[1] \in 1..Len(h) /\ o[2] \in 0..(Len(h[o[1]].outs) - 1)
At(h, o) == h[o[1]].outs[o[2] + 1]
Worth(h, S) == MapThenSumSet(LAMBDA o : At(h, o).sats, S)

(* The transactions of a run, and how far its identity has come: deployed,  *)
(* deployed and acted, revoked.                                             *)
By(h, r) == {t \in 2..Len(h) : h[t].by = r}
Born(h, r, l) == By(h, r) = {l} /\ h[l].op = "deploy"
Moved(h, r, l) ==
  \E d \in By(h, r) : /\ By(h, r) = {d, l} /\ d # l
                      /\ h[d].op = "deploy" /\ h[l].op = "action" /\ <<d, 0>> \in h[l].ins
Closed(h, r, l) ==
  /\ l \in By(h, r) /\ h[l].op = "revoke"
  /\ \E d \in By(h, r) : 
       /\ h[d].op = "deploy"
       /\ \/ By(h, r) = {d, l} /\ <<d, 0>> \in h[l].ins
          \/ \E a \in By(h, r) : /\ By(h, r) = {d, a, l} /\ a # d /\ h[a].op = "action"
                                 /\ <<d, 0>> \in h[a].ins /\ <<a, 0>> \in h[l].ins

(* A transaction that is built or sent: its first output, its value.        *)
Shaped(tx) ==
  /\ tx \in TxRec /\ IsFiniteSet(tx.ins) /\ tx.by \in Runs
  /\ tx.op \in {"deploy", "action", "revoke"} /\ Len(tx.outs) >= 1
  /\ tx.outs[1] = IF tx.op = "revoke" THEN P2PKH(IDENTITY_SATS) ELSE State
Pays(h, tx) == (\A o \in tx.ins : In(h, o)) /\ FeeAdds(tx, Worth(h, tx.ins))

(* What a run is about to send: coins of the address, and its identity.     *)
Sound(h, r, l, tx) ==
  /\ Shaped(tx) /\ Pays(h, tx) /\ tx.by = r
  /\ \A o \in tx.ins : At(h, o).type = "p2pkh" \/ (o = <<l, 0>> /\ tx.op # "deploy")
  /\ tx.op # "deploy" => <<l, 0>> \in tx.ins

-----------------------------------------------------------------------------
(* The inductive invariant.                                                 *)
Steps == {"off", "start", "write_keys", "deploy", "action", "revoke", "send", "wait", "dry", "done", "failed"}
LifeTypeOK ==
  /\ txs \in Seq(TxRec) /\ Len(txs) >= 1
  /\ mined \in 0..Len(txs) /\ indexed \in 0..Len(txs) /\ listed \in 0..Len(txs)
  /\ pc \in [Runs -> Steps] /\ last \in [Runs -> 0..Len(txs)]
  /\ DOMAIN pend = Runs /\ DOMAIN built = Runs

(* Accepted transactions are well formed, pay for themselves and spend      *)
(* different outputs.                                                       *)
PastOK(h) ==
  \A t \in 2..Len(h) : /\ Shaped(h[t]) /\ Pays(h, h[t])
                       /\ \A u \in 2..(t - 1) : h[t].ins \cap h[u].ins = {}

(* Where a run stands; before it goes on its last transaction is mined.     *)
Stage(h, m, r, step, l, tx) ==
  /\ step \in {"off", "start", "write_keys", "deploy", "dry"} => By(h, r) = {}
  /\ step \in {"action", "revoke", "send", "wait"} => (step = "send" /\ tx.op = "deploy") \/ Script[r] # "deploy"
  /\ step = "action" => Born(h, r, l) /\ l <= m
  /\ step = "revoke" => (Born(h, r, l) \/ Moved(h, r, l)) /\ l <= m
  /\ step = "send" =>
       /\ Sound(h, r, l, tx)
       /\ tx.op = "deploy" => By(h, r) = {}
       /\ tx.op = "action" => Born(h, r, l) /\ l <= m
       /\ tx.op = "revoke" => (Born(h, r, l) \/ Moved(h, r, l)) /\ l <= m
  /\ step = "wait" => Born(h, r, l) \/ Moved(h, r, l) \/ Closed(h, r, l)
StageOK == \A r \in Runs : Stage(txs, mined, r, pc[r], last[r], pend[r])
DoneOK == \A r \in Runs : pc[r] = "done" /\ Script[r] # "deploy" /\ built[r] = <<>> => Closed(txs, r, last[r])

(* A dry build spends coins of the address or what it built before.         *)
DryAt(h, b, o) == IF o[1] < 0 THEN b[-o[1]].outs[o[2] + 1] ELSE At(h, o)
DryWorth(h, b, S) == MapThenSumSet(LAMBDA o : DryAt(h, b, o).sats, S)
DryOK(h, b) ==
  \A i \in 1..Len(b) :
    /\ IsFiniteSet(b[i].ins) /\ \A o \in b[i].ins : o[1] < 0 \/ In(h, o)
    /\ FeeAdds(b[i], DryWorth(h, b, b[i].ins))
BuiltOK == \A r \in Runs : DryOK(txs, built[r])

LifeInv == LifeTypeOK /\ PastOK(txs) /\ StageOK /\ DoneOK /\ BuiltOK

-----------------------------------------------------------------------------
(* Values of outputs and coins, as the weights of a sum.                    *)
SatsIn(s) == [i \in DOMAIN s |-> s[i].sats]

(* The satoshis of outputs, as a sum over their positions.                  *)
LEMMA SatsOfIs ==
  ASSUME NEW q PROVE SatsOf(q) = SumFunctionOnSet(SatsIn(q), DOMAIN q)
PROOF
<1> DEFINE D == DOMAIN q
           R(F) == [s \in SUBSET D |-> IF s = {} THEN 0 ELSE q[First(s)].sats + F[s \ {First(s)}]]
           Q(F) == [s \in SUBSET D |-> IF s = {} THEN 0 ELSE SatsIn(q)[First(s)] + F[s \ {First(s)}]]
<1>1. \A s \in SUBSET D : s # {} => SatsIn(q)[First(s)] = q[First(s)].sats
  BY FirstIn DEF SatsIn
<1>2. \A F : R(F) = Q(F)
  BY <1>1
<1>3. SatsOf(q) = (CHOOSE F : F = R(F))[D]
  BY DEF SatsOf, FoldSeq, FoldFunction, FoldFunctionOnSet, MapThenFoldSet, First
<1>4. SumFunctionOnSet(SatsIn(q), D) = (CHOOSE F : F = Q(F))[D]
  BY SumIsIter DEF Iter, IsIter
<1> HIDE DEF R, Q
<1>5. (CHOOSE F : F = R(F)) = (CHOOSE F : F = Q(F))
  BY <1>2, Zenon
<1> QED BY <1>3, <1>4, <1>5

(* The total of coins is the same sum.                                      *)
LEMMA TotalIs ==
  ASSUME NEW q PROVE funding_utxos_total(q) = SumFunctionOnSet(SatsIn(q), DOMAIN q)
PROOF
<1>1. funding_utxos_total(q) = SatsOf(q)
  BY DEF funding_utxos_total, SatsOf, FoldSeq, FoldFunction, FoldFunctionOnSet, MapThenFoldSet
<1> QED BY <1>1, SatsOfIs

(* What outputs are worth, as a sum over them.                              *)
LEMMA WorthIs ==
  ASSUME NEW h, NEW S PROVE Worth(h, S) = SumFunctionOnSet([o \in S |-> At(h, o).sats], S)
PROOF
<1> DEFINE w == [o \in S |-> At(h, o).sats]
           R(F) == [s \in SUBSET S |-> IF s = {} THEN 0 ELSE At(h, First(s)).sats + F[s \ {First(s)}]]
           Q(F) == [s \in SUBSET S |-> IF s = {} THEN 0 ELSE w[First(s)] + F[s \ {First(s)}]]
<1>1. \A s \in SUBSET S : s # {} => w[First(s)] = At(h, First(s)).sats
  BY FirstIn
<1>2. \A F : R(F) = Q(F)
  <2> HIDE DEF w
  <2> QED BY <1>1
<1>3. Worth(h, S) = (CHOOSE F : F = R(F))[S]
  BY DEF Worth, MapThenSumSet, MapThenFoldSet, First
<1>4. SumFunctionOnSet(w, S) = (CHOOSE F : F = Q(F))[S]
  <2> HIDE DEF w
  <2> QED BY SumIsIter DEF Iter, IsIter
<1> HIDE DEF R, Q
<1>5. (CHOOSE F : F = R(F)) = (CHOOSE F : F = Q(F))
  BY <1>2, Zenon
<1> QED BY <1>3, <1>4, <1>5

(* The same for a dry build.                                                *)
LEMMA DryWorthIs ==
  ASSUME NEW h, NEW b, NEW S PROVE DryWorth(h, b, S) = SumFunctionOnSet([o \in S |-> DryAt(h, b, o).sats], S)
PROOF
<1> DEFINE w == [o \in S |-> DryAt(h, b, o).sats]
           R(F) == [s \in SUBSET S |-> IF s = {} THEN 0 ELSE DryAt(h, b, First(s)).sats + F[s \ {First(s)}]]
           Q(F) == [s \in SUBSET S |-> IF s = {} THEN 0 ELSE w[First(s)] + F[s \ {First(s)}]]
<1>1. \A s \in SUBSET S : s # {} => w[First(s)] = DryAt(h, b, First(s)).sats
  BY FirstIn
<1>2. \A F : R(F) = Q(F)
  <2> HIDE DEF w
  <2> QED BY <1>1
<1>3. DryWorth(h, b, S) = (CHOOSE F : F = R(F))[S]
  BY DEF DryWorth, MapThenSumSet, MapThenFoldSet, First
<1>4. SumFunctionOnSet(w, S) = (CHOOSE F : F = Q(F))[S]
  <2> HIDE DEF w
  <2> QED BY SumIsIter DEF Iter, IsIter
<1> HIDE DEF R, Q
<1>5. (CHOOSE F : F = R(F)) = (CHOOSE F : F = Q(F))
  BY <1>2, Zenon
<1> QED BY <1>3, <1>4, <1>5

(* Outputs are summed one by one.                                           *)
LEMMA SatsSums ==
  /\ SatsOf(<<>>) = 0
  /\ \A q \in Seq(Output) : SatsOf(q) \in Nat
  /\ \A q \in Seq(Output), x \in Output : SatsOf(Append(q, x)) = SatsOf(q) + x.sats
PROOF
<1>1. SatsOf(<<>>) = 0
  <2>1. DOMAIN <<>> = {}
    OBVIOUS
  <2> QED BY <2>1, SatsOfIs, SumEmpty
<1>2. ASSUME NEW q \in Seq(Output)
      PROVE  /\ DOMAIN q = 1..Len(q) /\ Len(q) \in Nat /\ IsFiniteSet(1..Len(q))
             /\ \A i \in 1..Len(q) : SatsIn(q)[i] = q[i].sats /\ q[i].sats \in Nat
  <2>1. DOMAIN q = 1..Len(q) /\ Len(q) \in Nat /\ \A i \in 1..Len(q) : q[i] \in Output
    OBVIOUS
  <2>2. IsFiniteSet(1..Len(q))
    BY <2>1, FS_Interval
  <2>3. \A i \in 1..Len(q) : SatsIn(q)[i] = q[i].sats /\ q[i].sats \in Nat
    BY <2>1 DEF SatsIn, Output
  <2> QED BY <2>1, <2>2, <2>3
<1>3. ASSUME NEW q \in Seq(Output) PROVE SatsOf(q) \in Nat
  <2>1. 1..Len(q) \in SUBSET (1..Len(q))
    OBVIOUS
  <2> QED BY <1>2, <2>1, SatsOfIs, SumSubset
<1>4. ASSUME NEW q \in Seq(Output), NEW x \in Output PROVE SatsOf(Append(q, x)) = SatsOf(q) + x.sats
  <2> DEFINE n == Len(q)
             p == Append(q, x)
  <2>1. p \in Seq(Output) /\ Len(p) = n + 1 /\ p[n + 1] = x /\ \A i \in 1..n : p[i] = q[i]
    OBVIOUS
  <2>2. n \in Nat /\ 1..(n + 1) = (1..n) \cup {n + 1} /\ n + 1 \notin 1..n
    BY <1>2
  <2>3. x.sats \in Nat
    BY DEF Output
  <2> HIDE DEF n, p
  <2>4. DOMAIN p = 1..(n + 1) /\ \A i \in 1..(n + 1) : SatsIn(p)[i] = p[i].sats /\ p[i].sats \in Nat
    BY <1>2, <2>1
  <2>5. DOMAIN q = 1..n /\ IsFiniteSet(1..n) /\ \A i \in 1..n : SatsIn(q)[i] = q[i].sats /\ q[i].sats \in Nat
    BY <1>2 DEF n
  <2>6. SumFunctionOnSet(SatsIn(p), (1..n) \cup {n + 1}) = SatsIn(p)[n + 1] + SumFunctionOnSet(SatsIn(p), 1..n)
    <3>1. SatsIn(p)[n + 1] \in Int /\ \A i \in 1..n : SatsIn(p)[i] \in Int
      BY <2>2, <2>4
    <3> QED BY <2>2, <2>5, <3>1, SumInsert
  <2>7. SumFunctionOnSet(SatsIn(p), 1..n) = SumFunctionOnSet(SatsIn(q), 1..n)
    BY <2>1, <2>2, <2>4, <2>5, SumSameWeights
  <2>8. SatsOf(p) = x.sats + SatsOf(q)
    BY <2>1, <2>2, <2>4, <2>5, <2>6, <2>7, SatsOfIs
  <2>9. SatsOf(q) \in Nat
    BY <1>3
  <2> QED BY <2>3, <2>8, <2>9 DEF p
<1> QED BY <1>1, <1>3, <1>4

-----------------------------------------------------------------------------
(* Coins: listed outputs of the address, one entry each.                    *)
CoinRec == [outpoint : Nat \X Nat, sats : Nat, confirmed : BOOLEAN]
CoinOf(h, c) == /\ c \in CoinRec /\ In(h, c.outpoint)
                /\ At(h, c.outpoint).type = "p2pkh" /\ At(h, c.outpoint).sats = c.sats
Coins(h, U) == /\ IsFiniteSet(U) /\ \A c \in U : CoinOf(h, c)
               /\ \A c, d \in U : c.outpoint = d.outpoint => c = d
Funding(h, f) == /\ f \in Seq(CoinRec) /\ \A i \in 1..Len(f) : CoinOf(h, f[i])
                 /\ \A i, j \in 1..Len(f) : f[i].outpoint = f[j].outpoint => i = j

(* What WhatsOnChain lists are coins.                                       *)
LEMMA Listing == ASSUME LifeTypeOK PROVE Coins(txs, list_utxos)
PROOF
<1> DEFINE Vs(t) == {<<t, v>> : v \in 0..(Len(txs[t].outs) - 1)}
           All == {Vs(t) : t \in 1..listed}
           O == {o \in UNION All : Out(o).type = "p2pkh" /\ o \notin SpentBy(listed)}
           coin == [o \in O |-> [outpoint |-> o, sats |-> Out(o).sats, confirmed |-> o[1] <= mined]]
<1>1. /\ listed \in Nat /\ listed <= Len(txs) /\ Len(txs) \in Nat /\ mined \in Nat
      /\ \A t \in 1..Len(txs) : txs[t] \in TxRec
  BY DEF LifeTypeOK
<1>2. \A t \in 1..listed : txs[t].outs \in Seq(Output) /\ Len(txs[t].outs) \in Nat
  BY <1>1 DEF TxRec
<1>3. ASSUME NEW t \in 1..listed PROVE IsFiniteSet(Vs(t))
  <2> DEFINE n == Len(txs[t].outs) - 1
             pair == [v \in 0..n |-> <<t, v>>]
  <2>1. n \in Int
    BY <1>2
  <2>2. IsFiniteSet(0..n)
    BY <2>1, FS_Interval
  <2>3. Vs(t) = {pair[v] : v \in 0..n}
    OBVIOUS
  <2> HIDE DEF n, pair, Vs
  <2> QED BY <2>2, <2>3, FiniteImage
<1>4. IsFiniteSet(All)
  <2> DEFINE g == [t \in 1..listed |-> Vs(t)]
  <2>1. IsFiniteSet(1..listed)
    BY <1>1, FS_Interval
  <2>2. All = {g[t] : t \in 1..listed}
    OBVIOUS
  <2> HIDE DEF g, All
  <2> QED BY <2>1, <2>2, FiniteImage
<1>5. IsFiniteSet(O)
  <2>1. IsFiniteSet(UNION All)
    <3>1. \A S \in All : IsFiniteSet(S)
      BY <1>3
    <3> HIDE DEF All
    <3> QED BY <1>4, <3>1, FS_UNION
  <2>2. O \in SUBSET UNION All
    OBVIOUS
  <2> HIDE DEF O, All
  <2> QED BY <2>1, <2>2, FS_Subset
<1>6. list_utxos = {coin[o] : o \in O}
  BY DEF list_utxos
<1>7. ASSUME NEW o \in O PROVE CoinOf(txs, coin[o]) /\ coin[o].outpoint = o
  <2>a. PICK t \in 1..listed : o \in Vs(t)
    OBVIOUS
  <2>1. PICK v \in 0..(Len(txs[t].outs) - 1) : o = <<t, v>>
    BY <2>a
  <2>2. Out(o).type = "p2pkh" /\ Out(o) = At(txs, o)
    BY DEF Out, At
  <2>3. t \in 1..Len(txs) /\ v \in Nat /\ t \in Nat /\ v + 1 \in 1..Len(txs[t].outs)
    BY <1>1, <1>2
  <2>4. txs[t].outs[v + 1] \in Output
    BY <1>2, <2>3
  <2>5. At(txs, o).sats \in Nat
    BY <2>1, <2>4 DEF At, Output
  <2>6. coin[o] = [outpoint |-> o, sats |-> At(txs, o).sats, confirmed |-> o[1] <= mined]
    BY <2>2
  <2>7. o[1] = t /\ o[2] = v /\ o \in Nat \X Nat
    BY <2>1, <2>3
  <2> HIDE DEF O, coin
  <2>8. coin[o].outpoint = o /\ coin[o].sats = At(txs, o).sats /\ coin[o] \in CoinRec
    BY <2>5, <2>6, <2>7 DEF CoinRec
  <2>9. In(txs, o)
    BY <2>3, <2>7 DEF In
  <2> QED BY <2>2, <2>8, <2>9 DEF CoinOf
<1> HIDE DEF O, coin
<1>8. IsFiniteSet(list_utxos)
  BY <1>5, <1>6, FiniteImage
<1> QED BY <1>6, <1>7, <1>8 DEF Coins

(* The ranking is a total order: confirmed, then value, then position.      *)
LEMMA RankIsOrder ==
  ASSUME NEW h, NEW U, \A c \in U : CoinOf(h, c), \A c, d \in U : c.outpoint = d.outpoint => c = d
  PROVE  /\ \A a \in U : ~ cmp_funding(a, a)
         /\ \A a, b, c \in U : cmp_funding(a, b) /\ cmp_funding(b, c) => cmp_funding(a, c)
         /\ \A a, b \in U : a = b \/ cmp_funding(a, b) \/ cmp_funding(b, a)
PROOF
<1>1. \A c \in U : /\ c.outpoint \in Nat \X Nat /\ c.outpoint[1] \in Nat /\ c.outpoint[2] \in Nat
                   /\ c.sats \in Nat /\ c.confirmed \in BOOLEAN
  BY DEF CoinOf, CoinRec
<1>2. \A a, b \in U : a.outpoint[1] = b.outpoint[1] /\ a.outpoint[2] = b.outpoint[2] => a = b
  BY <1>1
<1> QED BY <1>1, <1>2 DEF cmp_funding, ListedBefore

(* So a ranked listing has every usable coin once.                          *)
LEMMA Ranked ==
  ASSUME NEW h, NEW U, Coins(h, U), NEW m, NEW only
  PROVE  Funding(h, rank_funding_utxos(U, m, only))
PROOF
<1> DEFINE V == {c \in U : c.sats <= MAX_MONEY /\ c.sats >= m /\ (only => c.confirmed)}
           n == Cardinality(V)
           R == {p \in V \X V : cmp_funding(p[1], p[2])}
           Below(c) == {d \in V : cmp_funding(d, c)}
           f == [i \in 1..n |-> CHOOSE c \in V : Cardinality(Below(c)) = i - 1]
<1>1. rank_funding_utxos(U, m, only) = f
  BY DEF rank_funding_utxos
<1>2. /\ IsFiniteSet(V) /\ V \subseteq U /\ \A c \in V : CoinOf(h, c)
      /\ \A c, d \in V : c.outpoint = d.outpoint => c = d
  BY FS_Subset DEF Coins
<1>3. n \in Nat
  BY <1>2, FS_CardinalityType
<1> HIDE DEF V
<1>4. \A a, b \in V : <<a, b>> \in R <=> cmp_funding(a, b)
  OBVIOUS
<1>5. \A c \in V : {d \in V : <<d, c>> \in R} = Below(c)
  BY <1>4
<1> HIDE DEF R
<1>6. /\ \A a \in V : ~ cmp_funding(a, a)
      /\ \A a, b, c \in V : cmp_funding(a, b) /\ cmp_funding(b, c) => cmp_funding(a, c)
      /\ \A a, b \in V : a = b \/ cmp_funding(a, b) \/ cmp_funding(b, a)
  BY <1>2, RankIsOrder
<1>7. \A a \in V : <<a, a>> \notin R
  BY <1>4, <1>6, Zenon
<1>8. \A a, b, c \in V : <<a, b>> \in R /\ <<b, c>> \in R => <<a, c>> \in R
  BY <1>4, <1>6, Zenon
<1>9. \A a, b \in V : a = b \/ <<a, b>> \in R \/ <<b, a>> \in R
  BY <1>4, <1>6, Zenon
<1>10. \A i \in 1..n : \E c \in V : Cardinality({d \in V : <<d, c>> \in R}) = i - 1
  <2> HIDE DEF f, Below
  <2>1. IsFiniteSet(V)
    BY <1>2
  <2> QED BY <2>1, <1>7, <1>8, <1>9, RanksTaken, Zenon
<1> HIDE DEF Below
<1>11. \A i \in 1..n : \E c \in V : Cardinality(Below(c)) = i - 1
  BY <1>5, <1>10
<1>12. \A i \in 1..n : f[i] \in V /\ Cardinality(Below(f[i])) = i - 1
  BY <1>11
<1>13. Len(f) = n /\ DOMAIN f = 1..n
  BY <1>3
<1> HIDE DEF n, f
<1>14. \A i \in 1..n : f[i] \in CoinRec
  BY <1>2, <1>12 DEF CoinOf
<1>15. f \in Seq(CoinRec)
  <2>1. f = [i \in 1..n |-> f[i]]
    BY DEF f
  <2> QED BY <1>3, <1>14, <2>1
<1>16. \A i, j \in 1..n : f[i].outpoint = f[j].outpoint => i = j
  BY <1>2, <1>3, <1>12
<1> QED BY <1>1, <1>2, <1>12, <1>13, <1>15, <1>16 DEF Funding

(* What is chosen from the ranking, by value or because it is not spent.    *)
LEMMA Chosen ==
  ASSUME NEW h, NEW U, Coins(h, U)
  PROVE  /\ \A need : \A f \in select_funding(U, need) : Funding(h, f) /\ funding_utxos_total(f) >= need
         /\ \A S : \A f \in pick_funding(U, S) : Funding(h, f)
PROOF
<1> DEFINE q == rank_funding_utxos(U, 0, FALSE)
<1>1. Funding(h, q)
  BY Ranked
<1>2. Len(q) \in Nat /\ \A i \in 1..Len(q) : q[i] \in CoinRec
  <2> HIDE DEF q
  <2> QED BY <1>1 DEF Funding
<1>3. ASSUME NEW need, NEW f \in select_funding(U, need)
      PROVE  Funding(h, f) /\ funding_utxos_total(f) >= need
  <2>1. PICK l \in 0..Len(q) : f = SubSeq(q, 1, l) /\ funding_utxos_total(f) >= need
    BY <1>3 DEF select_funding, Prefixes
  <2> HIDE DEF q
  <2>2. f \in Seq(CoinRec) /\ Len(f) = l /\ \A i \in 1..l : f[i] = q[i]
    BY <1>1, <1>2, <2>1 DEF Funding
  <2>3. 1..l \subseteq 1..Len(q)
    BY <1>2
  <2> QED BY <1>1, <2>1, <2>2, <2>3 DEF Funding
<1>4. ASSUME NEW S, NEW f \in pick_funding(U, S) PROVE Funding(h, f)
  <2>1. PICK i \in 1..Len(q) : f = <<q[i]>>
    BY <1>4 DEF pick_funding
  <2> HIDE DEF q
  <2>2. f \in Seq(CoinRec) /\ Len(f) = 1 /\ f[1] = q[i]
    BY <1>2, <2>1
  <2> QED BY <1>1, <2>2 DEF Funding
<1> QED BY <1>3, <1>4

(* The coins chosen are worth what they add up to.                          *)
LEMMA FundingWorth ==
  ASSUME NEW h \in Seq(TxRec), NEW f, Funding(h, f)
  PROVE  /\ IsFiniteSet(Outpoints(f)) /\ Outpoints(f) \subseteq Nat \X Nat
         /\ \A o \in Outpoints(f) : In(h, o) /\ At(h, o).type = "p2pkh" /\ At(h, o).sats \in Nat
         /\ funding_utxos_total(f) = Worth(h, Outpoints(f)) /\ funding_utxos_total(f) \in Nat
PROOF
<1> DEFINE n == Len(f)
           pos == [i \in 1..n |-> f[i].outpoint]
           S == Outpoints(f)
           w == [o \in S |-> At(h, o).sats]
<1>1. DOMAIN f = 1..n /\ n \in Nat /\ \A i \in 1..n : CoinOf(h, f[i])
  BY DEF Funding
<1>2. S = {pos[i] : i \in 1..n}
  BY <1>1 DEF Outpoints, ToSet
<1>3. IsFiniteSet(1..n) /\ 1..n \in SUBSET (1..n)
  BY <1>1, FS_Interval
<1>4. \A i \in 1..n : /\ pos[i] \in Nat \X Nat /\ In(h, pos[i]) /\ At(h, pos[i]).type = "p2pkh"
                      /\ At(h, pos[i]).sats = f[i].sats /\ f[i].sats \in Nat
  BY <1>1 DEF CoinOf, CoinRec
<1>5. \A i \in 1..n : SatsIn(f)[i] = f[i].sats
  BY <1>1 DEF SatsIn
<1>6. \A i, j \in 1..n : pos[i] = pos[j] => i = j
  BY DEF Funding
<1> HIDE DEF pos, S, n
<1>7. \A o \in S : w[o] = At(h, o).sats
  OBVIOUS
<1> HIDE DEF w
<1>8. \A i \in 1..n : SatsIn(f)[i] \in Int /\ SatsIn(f)[i] = w[pos[i]]
  BY <1>2, <1>4, <1>5, <1>7
<1>9. SumFunctionOnSet(SatsIn(f), 1..n) = SumFunctionOnSet(w, S)
  <2>1. PICK v : v = SatsIn(f)
    OBVIOUS
  <2>2. PICK I : I = 1..n
    OBVIOUS
  <2>3. IsFiniteSet(I)
    BY <1>3, <2>2
  <2>4. \A i \in I : v[i] \in Int /\ v[i] = w[pos[i]]
    BY <1>8, <2>1, <2>2
  <2>5. \A i, j \in I : pos[i] = pos[j] => i = j
    BY <1>6, <2>2
  <2>6. S = {pos[i] : i \in I}
    BY <1>2, <2>2
  <2>7. SumFunctionOnSet(v, I) = SumFunctionOnSet(w, S)
    BY <2>3, <2>4, <2>5, <2>6, SumReindex, SMTT(30)
  <2> QED BY <2>1, <2>2, <2>7
<1>10. SumFunctionOnSet(SatsIn(f), 1..n) \in Nat
  BY <1>3, <1>4, <1>5, SumSubset
<1>11. IsFiniteSet(S)
  BY <1>2, <1>3, FiniteImage
<1>12. Worth(h, S) = SumFunctionOnSet(w, S)
  BY WorthIs DEF w
<1>13. funding_utxos_total(f) = SumFunctionOnSet(SatsIn(f), 1..n)
  BY <1>1, TotalIs
<1>14. \A o \in S : o \in Nat \X Nat /\ In(h, o) /\ At(h, o).type = "p2pkh" /\ At(h, o).sats \in Nat
  BY <1>2, <1>4
<1> QED BY <1>9, <1>10, <1>11, <1>12, <1>13, <1>14 DEF S

-----------------------------------------------------------------------------
(* Fees are natural numbers, whichever way the floating point rounds.       *)
LEMMA FeesAreNat ==
  ASSUME NEW size \in Nat, NEW rate \in Nat PROVE recommended(size, rate) \subseteq Nat
PROOF
<1>1. \A n \in Nat : Ceil(n, 1000) \in Nat /\ Ceil(n, 10) \in Nat
  BY DEF Ceil
<1>2. size * rate \in Nat
  OBVIOUS
<1>3. fee_for_size(size, rate) \subseteq Nat
  <2>1. Ceil(size * rate, 1000) \in Nat
    BY <1>1, <1>2
  <2> QED BY <2>1 DEF fee_for_size
<1>4. ASSUME NEW w \in send_time_fee_window(size, rate) PROVE w.recommended \in Nat
  <2>1. PICK m \in fee_for_size(size, rate) :
          w \in { [min |-> m, max |-> m * FEE_WINDOW_MULTIPLIER,
                   recommended |-> LET lower == IF m > b THEN m ELSE b IN
                                   IF lower < m * FEE_WINDOW_MULTIPLIER THEN lower ELSE m * FEE_WINDOW_MULTIPLIER] :
                  b \in {Ceil(13 * m, 10)} \cup IF m % 10 = 0 THEN {Ceil(13 * m, 10) + 1} ELSE {} }
    BY <1>4 DEF send_time_fee_window
  <2>2. m \in Nat /\ 13 * m \in Nat
    BY <1>3
  <2>3. Ceil(13 * m, 10) \in Nat
    BY <1>1, <2>2
  <2>4. PICK b \in Nat :
          w = [min |-> m, max |-> m * FEE_WINDOW_MULTIPLIER,
               recommended |-> LET lower == IF m > b THEN m ELSE b IN
                               IF lower < m * FEE_WINDOW_MULTIPLIER THEN lower ELSE m * FEE_WINDOW_MULTIPLIER]
    BY <2>1, <2>3
  <2> QED BY <2>2, <2>4 DEF FEE_WINDOW_MULTIPLIER
<1> QED BY <1>4 DEF recommended

(* The outputs the builders start from.                                     *)
LEMMA FirstOutputs ==
  /\ State \in Output /\ Receipt \in Output /\ \A n \in Nat : P2PKH(n) \in Output
  /\ State.sats = 1 /\ Receipt.sats = 0 /\ \A n : P2PKH(n).sats = n /\ P2PKH(n).type = "p2pkh"
  /\ State.type = "state" /\ Receipt.type = "opreturn"
  BY DEF State, Receipt, P2PKH, Output, IDENTITY_SATS

(* What they are worth.                                                     *)
LEMMA FirstSats ==
  /\ SatsOf(<<State>>) = 1 /\ SatsOf(<<State, Receipt>>) = 1 /\ SatsOf(<<P2PKH(IDENTITY_SATS)>>) = 1
  /\ <<State>> \in Seq(Output) /\ <<State, Receipt>> \in Seq(Output) /\ <<P2PKH(IDENTITY_SATS)>> \in Seq(Output)
PROOF
<1>1. <<>> \in Seq(Output) /\ IDENTITY_SATS \in Nat /\ P2PKH(IDENTITY_SATS).sats = 1
  BY FirstOutputs DEF IDENTITY_SATS
<1>2. ASSUME NEW x \in Output PROVE <<x>> \in Seq(Output) /\ SatsOf(<<x>>) = x.sats
  <2>1. <<x>> = Append(<<>>, x) /\ x.sats \in Nat
    BY DEF Output
  <2>2. SatsOf(Append(<<>>, x)) = SatsOf(<<>>) + x.sats /\ SatsOf(<<>>) = 0
    BY <1>1, SatsSums, Zenon
  <2>3. <<x>> \in Seq(Output)
    OBVIOUS
  <2> QED BY <2>1, <2>2, <2>3
<1>3. <<State, Receipt>> = Append(<<State>>, Receipt)
  OBVIOUS
<1>4. <<State>> \in Seq(Output) /\ SatsOf(<<State>>) = 1
  BY <1>2, FirstOutputs
<1>5. <<State, Receipt>> \in Seq(Output) /\ SatsOf(<<State, Receipt>>) = 1 + 0
  <2>1. SatsOf(Append(<<State>>, Receipt)) = SatsOf(<<State>>) + Receipt.sats
    BY <1>4, FirstOutputs, SatsSums, Zenon
  <2>2. <<State, Receipt>> \in Seq(Output)
    BY FirstOutputs
  <2> QED BY <1>3, <1>4, <2>1, <2>2, FirstOutputs
<1>6. <<P2PKH(IDENTITY_SATS)>> \in Seq(Output) /\ SatsOf(<<P2PKH(IDENTITY_SATS)>>) = 1
  BY <1>1, <1>2, FirstOutputs
<1> QED BY <1>4, <1>5, <1>6

(* The change takes what is left, to the satoshi.                           *)
LEMMA ChangeTakesRest ==
  ASSUME NEW outs \in Seq(Output), Len(outs) >= 1, NEW total \in Nat, NEW fee \in Int,
         NEW p \in append_change_fixed_fee(outs, total, fee)
  PROVE  /\ p \in Seq(Output) /\ Len(p) >= 1 /\ p[1] = outs[1] /\ SatsOf(p) = total - fee
         /\ p = outs \/ (Len(p) = Len(outs) + 1 /\ Last(p).type = "p2pkh")
         /\ Last(p) \in Output
PROOF
<1> DEFINE rest == total - SatsOf(outs)
<1>1. SatsOf(outs) \in Nat
  BY SatsSums
<1>2. rest \in Int /\ rest >= fee
  BY <1>1 DEF append_change_fixed_fee
<1>3. CASE rest - fee >= 1
  <2>1. p = Append(outs, P2PKH(rest - fee)) /\ rest - fee \in Nat
    BY <1>2, <1>3 DEF append_change_fixed_fee
  <2>2. PICK x \in Output : x = P2PKH(rest - fee) /\ x.sats = rest - fee /\ x.type = "p2pkh"
    BY <2>1, FirstOutputs
  <2>3. p = Append(outs, x)
    BY <2>1, <2>2
  <2>4. SatsOf(p) = SatsOf(outs) + (rest - fee)
    BY <2>2, <2>3, SatsSums
  <2>5. p \in Seq(Output) /\ Len(p) = Len(outs) + 1 /\ p[1] = outs[1] /\ p[Len(outs) + 1] = x
    BY <2>3
  <2> QED BY <1>1, <2>2, <2>4, <2>5 DEF Last
<1>4. CASE ~ (rest - fee >= 1)
  <2>1. p = outs
    BY <1>2, <1>4 DEF append_change_fixed_fee
  <2>2. rest = fee
    BY <1>2, <1>4
  <2> QED BY <1>1, <2>1, <2>2 DEF Last
<1> QED BY <1>3, <1>4

(* The fields of a transaction.                                             *)
LEMMA TxFields ==
  ASSUME NEW op \in {"deploy", "action", "revoke"}, NEW r \in Runs, NEW ins \in SUBSET (Nat \X Nat),
         NEW outs \in Seq(Output), NEW change \in Int, NEW fee \in Int
  PROVE  LET tx == Tx(op, r, ins, outs, change, fee) IN
         /\ tx \in TxRec /\ tx.op = op /\ tx.by = r /\ tx.ins = ins /\ tx.outs = outs /\ tx.fee = fee
  BY DEF Tx, TxRec

(* Identity and coins together.                                             *)
LEMMA IdentityWorth ==
  ASSUME NEW h \in Seq(TxRec), NEW f, Funding(h, f), NEW o \in Nat \X Nat, In(h, o), At(h, o) = State
  PROVE  LET S == {o} \cup Outpoints(f) IN
         /\ IsFiniteSet(S) /\ S \subseteq Nat \X Nat /\ Worth(h, S) = funding_utxos_total(f) + 1
         /\ \A x \in S : In(h, x) /\ (At(h, x).type = "p2pkh" \/ x = o)
PROOF
<1> DEFINE F == Outpoints(f)
           S == F \cup {o}
           w == [x \in S |-> At(h, x).sats]
           v == [x \in F |-> At(h, x).sats]
<1>1. /\ IsFiniteSet(F) /\ F \subseteq Nat \X Nat
      /\ \A x \in F : In(h, x) /\ At(h, x).type = "p2pkh" /\ At(h, x).sats \in Nat
      /\ funding_utxos_total(f) = Worth(h, F) /\ funding_utxos_total(f) \in Nat
  BY FundingWorth
<1>2. o \notin F
  BY <1>1, FirstOutputs
<1>3. IsFiniteSet(S)
  BY <1>1, FS_AddElement
<1>4. At(h, o).sats = 1
  BY FirstOutputs
<1>5. w[o] = 1 /\ \A x \in F : w[x] = At(h, x).sats /\ v[x] = At(h, x).sats
  BY <1>4
<1>6. Worth(h, F) = SumFunctionOnSet(v, F) /\ Worth(h, S) = SumFunctionOnSet(w, S)
  BY WorthIs
<1> HIDE DEF F, w, v
<1>7. SumFunctionOnSet(w, F \cup {o}) = w[o] + SumFunctionOnSet(w, F)
  BY <1>1, <1>2, <1>5, SumInsert
<1>8. SumFunctionOnSet(w, F) = SumFunctionOnSet(v, F)
  BY <1>1, <1>5, SumSameWeights
<1>9. Worth(h, S) = funding_utxos_total(f) + 1
  BY <1>1, <1>5, <1>6, <1>7, <1>8
<1>10. {o} \cup Outpoints(f) = S
  BY DEF F
<1>11. S \subseteq Nat \X Nat /\ \A x \in S : In(h, x) /\ (At(h, x).type = "p2pkh" \/ x = o)
  BY <1>1
<1> HIDE DEF S
<1> QED BY <1>3, <1>9, <1>10, <1>11

-----------------------------------------------------------------------------
(* What the lifecycles' deploys make.                                       *)
LEMMA DeployMade ==
  ASSUME NEW h \in Seq(TxRec), NEW r \in Runs, Script[r] # "deploy", NEW f, Funding(h, f), NEW fee \in Nat,
         NEW outs \in append_change_fixed_fee(<<State>>, funding_utxos_total(f), fee), NEW l
  PROVE  LET tx == Tx("deploy", r, Outpoints(f), outs, 0, fee) IN Sound(h, r, l, tx) /\ tx.op = "deploy"
PROOF
<1> DEFINE F == Outpoints(f)
           tx == Tx("deploy", r, F, outs, 0, fee)
           total == funding_utxos_total(f)
<1>1. /\ IsFiniteSet(F) /\ F \in SUBSET (Nat \X Nat)
      /\ \A x \in F : In(h, x) /\ At(h, x).type = "p2pkh"
      /\ total = Worth(h, F) /\ total \in Nat
  BY FundingWorth
<1>2. <<State>> \in Seq(Output) /\ Len(<<State>>) >= 1 /\ <<State>>[1] = State
  BY FirstSats
<1>3. outs \in Seq(Output) /\ Len(outs) >= 1 /\ outs[1] = State /\ SatsOf(outs) = total - fee
  <2>1. PICK first \in Seq(Output) : first = <<State>> /\ Len(first) >= 1 /\ first[1] = State
    BY <1>2, Zenon
  <2>2. outs \in append_change_fixed_fee(first, total, fee) /\ fee \in Int /\ total \in Nat
    BY <1>1, <2>1
  <2> HIDE DEF total, F, tx
  <2>3. outs \in Seq(Output) /\ Len(outs) >= 1 /\ outs[1] = first[1] /\ SatsOf(outs) = total - fee
    BY <2>1, <2>2, ChangeTakesRest, Zenon
  <2> QED BY <2>1, <2>3, Zenon
<1>4. /\ tx \in TxRec /\ tx.op = "deploy" /\ tx.by = r /\ tx.ins = F /\ tx.outs = outs /\ tx.fee = fee
  BY <1>1, <1>3, TxFields
<1> HIDE DEF tx, F, total
<1>5. Shaped(tx)
  BY <1>1, <1>3, <1>4 DEF Shaped
<1>6. total - SatsOf(outs) = fee
  BY <1>1, <1>3
<1>7. FeeAdds(tx, Worth(h, tx.ins))
  BY <1>1, <1>4, <1>6 DEF FeeAdds
<1>8. Sound(h, r, l, tx)
  BY <1>1, <1>4, <1>5, <1>7 DEF Sound, Pays
<1> QED BY <1>4, <1>8 DEF tx, F

(* What the deploy script makes: change below the dust limit is dropped.    *)
LEMMA PlainDeployMade ==
  ASSUME NEW h \in Seq(TxRec), NEW r \in Runs, Script[r] = "deploy", NEW f, Funding(h, f), NEW fee \in Nat,
         funding_utxos_total(f) >= IDENTITY_SATS + fee, NEW l
  PROVE  Sound(h, r, l, deploy_tx(r, f, fee)) /\ deploy_tx(r, f, fee).op = "deploy"
PROOF
<1> DEFINE F == Outpoints(f)
           total == funding_utxos_total(f)
           change == total - IDENTITY_SATS - fee
           outs == <<State>> \o (IF change >= FEE_DUST_FLOOR THEN <<P2PKH(change)>> ELSE <<>>)
           tx == Tx("deploy", r, F, outs, 0, fee)
<1>1. /\ IsFiniteSet(F) /\ F \in SUBSET (Nat \X Nat)
      /\ \A x \in F : In(h, x) /\ At(h, x).type = "p2pkh"
      /\ total = Worth(h, F) /\ total \in Nat
  BY FundingWorth
<1>2. change \in Nat /\ total = change + 1 + fee
  BY <1>1 DEF IDENTITY_SATS
<1>3. /\ outs \in Seq(Output) /\ Len(outs) >= 1 /\ outs[1] = State
      /\ total - SatsOf(outs) \in fee..(fee + FEE_DUST_FLOOR - 1)
  <2>1. <<State>> \in Seq(Output) /\ SatsOf(<<State>>) = 1
    BY FirstSats
  <2>2. CASE change >= FEE_DUST_FLOOR
    <3>1. PICK x \in Output : x = P2PKH(change) /\ x.sats = change
      BY <1>2, FirstOutputs
    <3>2. outs = Append(<<State>>, x) /\ Len(outs) = 2 /\ outs[1] = State
      BY <2>2, <3>1
    <3>3. outs \in Seq(Output)
      BY <2>1, <3>2
    <3>4. SatsOf(outs) = 1 + change
      BY <2>1, <3>1, <3>2, SatsSums
    <3> HIDE DEF outs, change
    <3>5. total - SatsOf(outs) = fee
      BY <1>2, <3>4
    <3> QED BY <3>2, <3>3, <3>5 DEF FEE_DUST_FLOOR
  <2>3. CASE ~ (change >= FEE_DUST_FLOOR)
    <3>1. outs = <<State>>
      BY <2>1, <2>3
    <3> HIDE DEF outs, change
    <3>2. total - SatsOf(outs) = fee + change /\ change <= FEE_DUST_FLOOR - 1
      BY <1>2, <2>1, <2>3, <3>1 DEF FEE_DUST_FLOOR
    <3> QED BY <1>2, <2>1, <3>1, <3>2 DEF FEE_DUST_FLOOR
  <2> QED BY <2>2, <2>3
<1>4. deploy_tx(r, f, fee) = tx
  BY DEF deploy_tx
<1> HIDE DEF outs
<1>5. /\ tx \in TxRec /\ tx.op = "deploy" /\ tx.by = r /\ tx.ins = F /\ tx.outs = outs /\ tx.fee = fee
  BY <1>1, <1>3, TxFields
<1> HIDE DEF tx, F, total
<1>6. Shaped(tx)
  BY <1>1, <1>3, <1>5 DEF Shaped
<1>7. FeeAdds(tx, Worth(h, tx.ins))
  BY <1>1, <1>3, <1>5 DEF FeeAdds
<1>8. Sound(h, r, l, tx)
  BY <1>1, <1>5, <1>6, <1>7 DEF Sound, Pays
<1> QED BY <1>4, <1>5, <1>8

(* What an action or a revocation makes.                                    *)
LEMMA CallMade ==
  ASSUME NEW h \in Seq(TxRec), NEW r \in Runs, Script[r] # "deploy", NEW f, Funding(h, f), NEW fee \in Nat,
         NEW l \in Nat, In(h, <<l, 0>>), At(h, <<l, 0>>) = State
  PROVE  /\ \A tx \in action_tx(r, <<l, 0>>, f, fee) : Sound(h, r, l, tx) /\ tx.op = "action"
         /\ \A tx \in revoke_tx(r, <<l, 0>>, f, fee) : Sound(h, r, l, tx) /\ tx.op = "revoke"
PROOF
<1> DEFINE o == <<l, 0>>
           S == {o} \cup Outpoints(f)
           total == funding_utxos_total(f)
<1>1. /\ IsFiniteSet(S) /\ S \in SUBSET (Nat \X Nat) /\ Worth(h, S) = total + 1
      /\ \A x \in S : In(h, x) /\ (At(h, x).type = "p2pkh" \/ x = o)
  BY IdentityWorth
<1>2. total + IDENTITY_SATS \in Nat /\ total + IDENTITY_SATS = total + 1 /\ total \in Nat
  BY FundingWorth DEF IDENTITY_SATS
<1>3. ASSUME NEW op \in {"action", "revoke"}, NEW first \in Seq(Output), Len(first) >= 1,
             first[1] = (IF op = "revoke" THEN P2PKH(IDENTITY_SATS) ELSE State),
             NEW outs \in append_change_fixed_fee(first, total + IDENTITY_SATS, fee)
      PROVE  LET tx == Tx(op, r, S, outs, change_amount(r, outs), fee) IN Sound(h, r, l, tx) /\ tx.op = op
  <2> DEFINE tx == Tx(op, r, S, outs, change_amount(r, outs), fee)
  <2>1. /\ outs \in Seq(Output) /\ Len(outs) >= 1 /\ outs[1] = first[1] /\ Last(outs) \in Output
        /\ SatsOf(outs) = (total + IDENTITY_SATS) - fee
    <3> HIDE DEF total, S
    <3>1. PICK sum \in Nat : sum = total + IDENTITY_SATS
      BY <1>2
    <3>2. outs \in append_change_fixed_fee(first, sum, fee) /\ fee \in Int
      BY <1>3, <3>1
    <3>3. /\ outs \in Seq(Output) /\ Len(outs) >= 1 /\ outs[1] = first[1] /\ Last(outs) \in Output
          /\ SatsOf(outs) = sum - fee
      BY <1>3, <3>2, ChangeTakesRest, Zenon
    <3>4. SatsOf(outs) = (total + IDENTITY_SATS) - fee
      BY <3>1, <3>3
    <3> QED BY <3>3, <3>4, Zenon
  <2>2. change_amount(r, outs) \in Int
    BY <2>1 DEF change_amount, last_output_change, last_output_sats, Output
  <2>3. /\ tx \in TxRec /\ tx.op = op /\ tx.by = r /\ tx.ins = S /\ tx.outs = outs /\ tx.fee = fee
    <3> HIDE DEF S
    <3>1. op \in {"deploy", "action", "revoke"} /\ fee \in Int
      OBVIOUS
    <3> QED BY <1>1, <2>1, <2>2, <3>1, TxFields
  <2> HIDE DEF tx
  <2>4. Shaped(tx)
    BY <1>1, <1>3, <2>1, <2>3 DEF Shaped
  <2>5. Worth(h, S) - SatsOf(outs) = fee
    <3>1. PICK n \in Nat : n = total
      BY <1>2
    <3>2. Worth(h, S) = n + 1
      BY <1>1, <3>1, Zenon
    <3>3. SatsOf(outs) = n + 1 - fee
      <4> HIDE DEF total, S, tx
      <4> QED BY <1>2, <2>1, <3>1
    <3> HIDE DEF total, S, tx
    <3> QED BY <3>2, <3>3
  <2>6. FeeAdds(tx, Worth(h, tx.ins))
    BY <2>3, <2>5 DEF FeeAdds
  <2>7. o \in S
    OBVIOUS
  <2> HIDE DEF S
  <2>8. Sound(h, r, l, tx)
    BY <1>1, <1>3, <2>3, <2>4, <2>6, <2>7 DEF Sound, Pays
  <2> QED BY <2>3, <2>8 DEF tx
<1>4. ASSUME NEW tx \in action_tx(r, o, f, fee) PROVE Sound(h, r, l, tx) /\ tx.op = "action"
  <2>1. PICK outs \in append_change_fixed_fee(<<State, Receipt>>, total + IDENTITY_SATS, fee) :
               tx = Tx("action", r, S, outs, change_amount(r, outs), fee)
    BY <1>4 DEF action_tx, build_agent_tea_action
  <2>2. <<State, Receipt>> \in Seq(Output) /\ Len(<<State, Receipt>>) >= 1 /\ <<State, Receipt>>[1] = State
    BY FirstSats
  <2> HIDE DEF S, total
  <2> QED BY <1>3, <2>1, <2>2
<1>5. ASSUME NEW tx \in revoke_tx(r, o, f, fee) PROVE Sound(h, r, l, tx) /\ tx.op = "revoke"
  <2>1. PICK outs \in append_change_fixed_fee(<<P2PKH(IDENTITY_SATS)>>, total + IDENTITY_SATS, fee) :
               tx = Tx("revoke", r, S, outs, change_amount(r, outs), fee)
    BY <1>5 DEF revoke_tx, build_agent_tea_revoke
  <2>2. /\ <<P2PKH(IDENTITY_SATS)>> \in Seq(Output) /\ Len(<<P2PKH(IDENTITY_SATS)>>) >= 1
        /\ <<P2PKH(IDENTITY_SATS)>>[1] = P2PKH(IDENTITY_SATS)
    BY FirstSats
  <2> HIDE DEF S, total
  <2> QED BY <1>3, <2>1, <2>2
<1> QED BY <1>4, <1>5

(* The identity of a run that goes on is there.                             *)
LEMMA IdentityThere ==
  ASSUME NEW h \in Seq(TxRec), PastOK(h), NEW r, NEW l, Born(h, r, l) \/ Moved(h, r, l)
  PROVE  l \in 2..Len(h) /\ l \in Nat /\ In(h, <<l, 0>>) /\ At(h, <<l, 0>>) = State
PROOF
<1>1. l \in 2..Len(h) /\ h[l].op \in {"deploy", "action"}
  BY DEF Born, Moved, By
<1>2. Shaped(h[l])
  BY <1>1 DEF PastOK
<1>3. h[l].outs \in Seq(Output) /\ Len(h[l].outs) >= 1 /\ h[l].outs[1] = State
  BY <1>1, <1>2 DEF Shaped, TxRec
<1>4. Len(h) \in Nat /\ Len(h[l].outs) \in Nat
  BY <1>3
<1> QED BY <1>1, <1>3, <1>4 DEF In, At

-----------------------------------------------------------------------------
(* One more transaction at the end.                                         *)
LEMMA Growth ==
  ASSUME NEW h \in Seq(TxRec), NEW tx \in TxRec, NEW g, g = Append(h, tx)
  PROVE  /\ g \in Seq(TxRec) /\ Len(h) \in Nat /\ Len(g) = Len(h) + 1 /\ g[Len(h) + 1] = tx
         /\ \A t \in 1..Len(h) : g[t] = h[t]
  OBVIOUS

(* It changes nothing about the outputs that were there.                    *)
LEMMA OutputsStay ==
  ASSUME NEW h \in Seq(TxRec), NEW tx \in TxRec, NEW g, g = Append(h, tx), NEW o, In(h, o)
  PROVE  In(g, o) /\ At(g, o) = At(h, o)
  BY Growth DEF In, At

(* It is a transaction of nobody else than who made it.                     *)
LEMMA ByOthers ==
  ASSUME NEW h \in Seq(TxRec), Len(h) >= 1, NEW tx \in TxRec, NEW g, g = Append(h, tx), NEW r, tx.by # r
  PROVE  By(g, r) = By(h, r)
PROOF
<1>1. /\ Len(h) \in Nat /\ Len(g) = Len(h) + 1 /\ g[Len(h) + 1] = tx
      /\ \A t \in 1..Len(h) : g[t] = h[t]
  BY Growth
<1>2. 2..Len(g) = (2..Len(h)) \cup {Len(h) + 1} /\ Len(h) + 1 \notin 2..Len(h) /\ 2..Len(h) \subseteq 1..Len(h)
  BY <1>1
<1> QED BY <1>1, <1>2 DEF By

(* The value of outputs that exist is a number.                             *)
LEMMA OutputsThere ==
  ASSUME NEW h \in Seq(TxRec), NEW o, In(h, o) PROVE At(h, o) \in Output /\ At(h, o).sats \in Nat
PROOF
<1>1. h[o[1]] \in TxRec
  BY DEF In
<1>2. h[o[1]].outs \in Seq(Output)
  BY <1>1 DEF TxRec
<1>3. o[2] + 1 \in 1..Len(h[o[1]].outs)
  BY <1>2 DEF In
<1>4. At(h, o) \in Output
  BY <1>2, <1>3 DEF At
<1> QED BY <1>4 DEF Output

(* So it is the same sum as before, and a transaction that paid still does. *)
LEMMA PaysStill ==
  ASSUME NEW h \in Seq(TxRec), Len(h) >= 1, NEW tx \in TxRec, NEW g, g = Append(h, tx),
         NEW p, Shaped(p), Pays(h, p)
  PROVE  Pays(g, p)
PROOF
<1> DEFINE S == p.ins
           w == [o \in S |-> At(h, o).sats]
           v == [o \in S |-> At(g, o).sats]
<1>1. \A o \in S : In(h, o) /\ In(g, o) /\ At(g, o) = At(h, o)
  <2>1. ASSUME NEW o \in S PROVE In(h, o) /\ In(g, o) /\ At(g, o) = At(h, o)
    <3>1. In(h, o)
      BY DEF Pays
    <3> QED BY <3>1, OutputsStay, Zenon
  <2> QED BY <2>1
<1>2. IsFiniteSet(S)
  BY DEF Shaped
<1>3. \A o \in S : w[o] = v[o]
  BY <1>1
<1>4. Worth(h, S) = SumFunctionOnSet(w, S) /\ Worth(g, S) = SumFunctionOnSet(v, S)
  BY WorthIs
<1> HIDE DEF w, v
<1>5. Worth(h, S) = Worth(g, S)
  BY <1>2, <1>3, <1>4, SumSameWeights
<1> QED BY <1>1, <1>5 DEF Pays

(* The past stays in order when what is added spends nothing twice.         *)
LEMMA PastGrows ==
  ASSUME NEW h \in Seq(TxRec), Len(h) >= 1, PastOK(h), NEW tx, Shaped(tx), Pays(h, tx),
         \A t \in 2..Len(h) : tx.ins \cap h[t].ins = {}, NEW g, g = Append(h, tx)
  PROVE  PastOK(g)
PROOF
<1>1. tx \in TxRec
  BY DEF Shaped
<1>2. /\ g \in Seq(TxRec) /\ Len(h) \in Nat /\ Len(g) = Len(h) + 1 /\ g[Len(h) + 1] = tx
      /\ \A t \in 1..Len(h) : g[t] = h[t]
  BY <1>1, Growth
<1>3. ASSUME NEW t \in 2..Len(g)
      PROVE  Shaped(g[t]) /\ Pays(g, g[t]) /\ \A u \in 2..(t - 1) : g[t].ins \cap g[u].ins = {}
  <2>1. CASE t = Len(h) + 1
    <3>1. Pays(g, tx)
      BY <1>1, PaysStill
    <3>2. \A u \in 2..(t - 1) : u \in 2..Len(h) /\ g[u] = h[u]
      BY <1>2, <2>1
    <3> QED BY <1>2, <2>1, <3>1, <3>2
  <2>2. CASE t # Len(h) + 1
    <3>1. t \in 2..Len(h) /\ g[t] = h[t] /\ \A u \in 2..(t - 1) : g[u] = h[u]
      BY <1>2, <2>2
    <3>2. Shaped(h[t]) /\ Pays(h, h[t]) /\ \A u \in 2..(t - 1) : h[t].ins \cap h[u].ins = {}
      BY <3>1 DEF PastOK
    <3>3. Pays(g, h[t])
      BY <1>1, <3>2, PaysStill
    <3> QED BY <3>1, <3>2, <3>3
  <2> QED BY <2>1, <2>2
<1> QED BY <1>3 DEF PastOK

(* How far a run has come does not depend on what others add.               *)
LEMMA OthersGrow ==
  ASSUME NEW h \in Seq(TxRec), Len(h) >= 1, NEW tx \in TxRec, NEW g, g = Append(h, tx),
         NEW r, tx.by # r, NEW l
  PROVE  /\ By(g, r) = By(h, r)
         /\ Born(h, r, l) => Born(g, r, l)
         /\ Moved(h, r, l) => Moved(g, r, l)
         /\ Closed(h, r, l) => Closed(g, r, l)
PROOF
<1>1. By(g, r) = By(h, r) /\ \A t \in By(h, r) : g[t] = h[t]
  <2>1. \A t \in By(h, r) : t \in 1..Len(h)
    BY DEF By
  <2>2. \A t \in 1..Len(h) : g[t] = h[t]
    BY Growth
  <2>3. By(g, r) = By(h, r)
    BY ByOthers, ZenonT(60)
  <2> QED BY <2>1, <2>2, <2>3
<1>2. ASSUME Born(h, r, l) PROVE Born(g, r, l)
  BY <1>1, <1>2 DEF Born
<1>3. ASSUME Moved(h, r, l) PROVE Moved(g, r, l)
  <2>1. PICK d \in By(h, r) : /\ By(h, r) = {d, l} /\ d # l
                              /\ h[d].op = "deploy" /\ h[l].op = "action" /\ <<d, 0>> \in h[l].ins
    BY <1>3 DEF Moved
  <2>2. g[d] = h[d] /\ g[l] = h[l]
    BY <1>1, <2>1
  <2> QED BY <1>1, <2>1, <2>2 DEF Moved
<1>4. ASSUME Closed(h, r, l) PROVE Closed(g, r, l)
  <2>1. l \in By(g, r) /\ g[l] = h[l] /\ h[l].op = "revoke"
    BY <1>1, <1>4 DEF Closed
  <2>2. PICK d \in By(h, r) :
          /\ h[d].op = "deploy"
          /\ \/ By(h, r) = {d, l} /\ <<d, 0>> \in h[l].ins
             \/ \E a \in By(h, r) : /\ By(h, r) = {d, a, l} /\ a # d /\ h[a].op = "action"
                                    /\ <<d, 0>> \in h[a].ins /\ <<a, 0>> \in h[l].ins
    BY <1>4 DEF Closed
  <2>3. \/ By(g, r) = {d, l} /\ <<d, 0>> \in g[l].ins
        \/ \E a \in By(g, r) : /\ By(g, r) = {d, a, l} /\ a # d /\ g[a].op = "action"
                               /\ <<d, 0>> \in g[a].ins /\ <<a, 0>> \in g[l].ins
    BY <1>1, <2>1, <2>2
  <2>4. d \in By(g, r) /\ g[d].op = "deploy"
    BY <1>1, <2>2
  <2> QED BY <2>1, <2>3, <2>4 DEF Closed
<1> QED BY <1>1, <1>2, <1>3, <1>4

(* What a run sends takes its identity one stage further.                   *)
LEMMA OwnGrows ==
  ASSUME NEW h \in Seq(TxRec), Len(h) >= 1, NEW r \in Runs, NEW l, NEW m, NEW tx,
         Stage(h, m, r, "send", l, tx), NEW g, g = Append(h, tx), NEW n, n = Len(h) + 1
  PROVE  /\ tx.op = "deploy" => Born(g, r, n)
         /\ tx.op = "action" => Moved(g, r, n)
         /\ tx.op = "revoke" => Closed(g, r, n)
PROOF
<1>1. /\ Sound(h, r, l, tx)
      /\ tx.op = "deploy" => By(h, r) = {}
      /\ tx.op = "action" => Born(h, r, l)
      /\ tx.op = "revoke" => Born(h, r, l) \/ Moved(h, r, l)
  BY DEF Stage
<1>2. tx \in TxRec /\ tx.by = r /\ (tx.op # "deploy" => <<l, 0>> \in tx.ins)
  BY <1>1 DEF Sound, Shaped
<1>3. By(g, r) = By(h, r) \cup {n} /\ g[n] = tx /\ \A t \in 1..Len(h) : g[t] = h[t]
  <2>1. Len(g) = Len(h) + 1 /\ Len(h) \in Nat /\ g[Len(h) + 1] = tx /\ \A t \in 1..Len(h) : g[t] = h[t]
    BY <1>2, Growth
  <2>2. 2..Len(g) = (2..Len(h)) \cup {n} /\ 2..Len(h) \subseteq 1..Len(h)
    BY <2>1
  <2>3. By(g, r) = By(h, r) \cup {n}
    BY <1>2, <2>1, <2>2 DEF By
  <2> QED BY <2>1, <2>3
<1>4. n \notin By(h, r) /\ \A t \in By(h, r) : g[t] = h[t]
  BY <1>3 DEF By
<1>5. CASE tx.op = "deploy"
  BY <1>1, <1>3, <1>5 DEF Born
<1>6. CASE tx.op = "action"
  <2>1. By(h, r) = {l} /\ h[l].op = "deploy" /\ l # n
    BY <1>1, <1>4, <1>6 DEF Born
  <2>2. By(g, r) = {l, n} /\ g[l].op = "deploy" /\ <<l, 0>> \in g[n].ins
    BY <1>2, <1>3, <1>4, <1>6, <2>1
  <2> QED BY <1>3, <1>6, <2>1, <2>2 DEF Moved
<1>7. CASE tx.op = "revoke"
  <2>1. n \in By(g, r) /\ g[n].op = "revoke" /\ <<l, 0>> \in g[n].ins
    BY <1>2, <1>3, <1>7
  <2>2. CASE Born(h, r, l)
    <3>1. By(g, r) = {l, n} /\ g[l].op = "deploy"
      BY <1>3, <1>4, <2>2 DEF Born
    <3> QED BY <1>7, <2>1, <3>1 DEF Closed
  <2>3. CASE Moved(h, r, l)
    <3>1. PICK d \in By(h, r) : /\ By(h, r) = {d, l} /\ d # l
                                /\ h[d].op = "deploy" /\ h[l].op = "action" /\ <<d, 0>> \in h[l].ins
      BY <2>3 DEF Moved
    <3>2. By(g, r) = {d, l, n} /\ g[d] = h[d] /\ g[l] = h[l]
      BY <1>3, <1>4, <3>1
    <3> QED BY <1>7, <2>1, <3>1, <3>2 DEF Closed
  <2> QED BY <1>1, <1>7, <2>2, <2>3
<1> QED BY <1>5, <1>6, <1>7

-----------------------------------------------------------------------------
(* A run moves on by itself: nothing is sent.                               *)
LEMMA Moves ==
  ASSUME LifeInv, NEW r \in Runs, NEW x \in Steps, pc' = [pc EXCEPT ![r] = x],
         txs' = txs, mined' = mined, indexed' = indexed, listed' = listed, last' = last,
         DOMAIN pend' = Runs, \A q \in Runs \ {r} : pend'[q] = pend[q],
         DOMAIN built' = Runs, \A q \in Runs \ {r} : built'[q] = built[q],
         Stage(txs, mined, r, x, last[r], pend'[r]), DryOK(txs, built'[r]),
         x = "done" /\ Script[r] # "deploy" /\ built'[r] = <<>> => Closed(txs, r, last[r])
  PROVE  LifeInv'
PROOF
<1>1. pc \in [Runs -> Steps] /\ pc'[r] = x /\ \A q \in Runs \ {r} : pc'[q] = pc[q]
  BY DEF LifeInv, LifeTypeOK
<1>2. LifeTypeOK'
  BY <1>1 DEF LifeInv, LifeTypeOK
<1>3. PastOK(txs)'
  BY DEF LifeInv
<1>4. StageOK'
  <2>1. ASSUME NEW q \in Runs PROVE Stage(txs, mined, q, pc'[q], last[q], pend'[q])
    BY <1>1 DEF LifeInv, StageOK
  <2> QED BY <2>1 DEF StageOK
<1>5. DoneOK'
  <2>1. ASSUME NEW q \in Runs, pc'[q] = "done", Script[q] # "deploy", built'[q] = <<>>
        PROVE  Closed(txs, q, last[q])
    BY <1>1, <2>1 DEF LifeInv, DoneOK
  <2> QED BY <2>1 DEF DoneOK
<1>6. BuiltOK'
  <2>1. ASSUME NEW q \in Runs PROVE DryOK(txs, built'[q])
    BY DEF LifeInv, BuiltOK
  <2> QED BY <2>1 DEF BuiltOK
<1> QED BY <1>2, <1>3, <1>4, <1>5, <1>6 DEF LifeInv

(* A run that stops before it sends leaves everything in order.             *)
LEMMA FailStep ==
  ASSUME LifeInv, NEW r \in Runs, Fail(r) PROVE LifeInv'
PROOF
<1>1. /\ pc' = [pc EXCEPT ![r] = "failed"] /\ pend' = [pend EXCEPT ![r] = NoTx]
      /\ txs' = txs /\ mined' = mined /\ indexed' = indexed /\ listed' = listed /\ last' = last /\ built' = built
  BY DEF Fail
<1>2. DOMAIN pend = Runs /\ DOMAIN built = Runs /\ DryOK(txs, built[r])
  BY DEF LifeInv, LifeTypeOK, BuiltOK
<1>3. DOMAIN pend' = Runs /\ \A q \in Runs \ {r} : pend'[q] = pend[q]
  BY <1>1, <1>2
<1>4. "failed" \in Steps /\ Stage(txs, mined, r, "failed", last[r], pend'[r])
  BY DEF Steps, Stage
<1> HIDE DEF LifeInv, Stage, DryOK, Closed
<1> QED BY <1>1, <1>2, <1>3, <1>4, Moves

(* A run that has a transaction of its stage ready to be sent.              *)
LEMMA ReadyStep ==
  ASSUME LifeInv, NEW r \in Runs, NEW C, Ready(r, C),
         \A tx \in C : Stage(txs, mined, r, "send", last[r], tx)
  PROVE  LifeInv'
PROOF
<1>1. CASE Fail(r)
  BY <1>1, FailStep
<1>2. ASSUME NEW tx \in C, pend' = [pend EXCEPT ![r] = tx], pc' = [pc EXCEPT ![r] = "send"],
             UNCHANGED <<txs, mined, indexed, listed, keyfile, last, built>>
      PROVE  LifeInv'
  <2>1. DOMAIN pend = Runs /\ DOMAIN built = Runs /\ DryOK(txs, built[r])
    BY DEF LifeInv, LifeTypeOK, BuiltOK
  <2>2. DOMAIN pend' = Runs /\ pend'[r] = tx /\ \A q \in Runs \ {r} : pend'[q] = pend[q]
    BY <1>2, <2>1
  <2>3. "send" \in Steps /\ Stage(txs, mined, r, "send", last[r], pend'[r])
    BY <2>2 DEF Steps
  <2> QED BY <1>2, <2>1, <2>2, <2>3, Moves
<1> QED BY <1>1, <1>2 DEF Ready

(* What the scripts choose for funding are coins of the chain.              *)
LEMMA Funds ==
  ASSUME LifeInv
  PROVE  /\ \A need : \A f \in select_funding(list_utxos, need) : Funding(txs, f) /\ funding_utxos_total(f) >= need
         /\ \A f \in fund_from : Funding(txs, f)
         /\ \A size \in {script_bytes + 1000, script_bytes + 400, 2 * script_bytes + 4000, script_bytes + 2500,
                         2 * script_bytes + 3000, script_bytes + 2000} :
              \A rate \in fee_per_kb \cup {100} : recommended(size, rate) \subseteq Nat
         /\ txs \in Seq(TxRec) /\ PastOK(txs)
PROOF
<1>1. Coins(txs, list_utxos) /\ txs \in Seq(TxRec) /\ PastOK(txs)
  BY Listing DEF LifeInv, LifeTypeOK
<1>2. \A need : \A f \in select_funding(list_utxos, need) : Funding(txs, f) /\ funding_utxos_total(f) >= need
  BY <1>1, Chosen
<1>3. \A f \in fund_from : Funding(txs, f)
  BY <1>1, Chosen DEF fund_from
<1>4. ASSUME NEW size \in {script_bytes + 1000, script_bytes + 400, 2 * script_bytes + 4000, script_bytes + 2500,
                         2 * script_bytes + 3000, script_bytes + 2000}, NEW rate \in fee_per_kb \cup {100}
      PROVE  recommended(size, rate) \subseteq Nat
  <2>1. size \in Nat /\ rate \in Nat
    BY LifecycleConstants
  <2> QED BY <2>1, FeesAreNat
<1> QED BY <1>1, <1>2, <1>3, <1>4

(* A run at a builder's step, with what the builder made.                   *)
LEMMA StageOfBuilt ==
  ASSUME LifeInv, NEW r \in Runs, NEW tx, Sound(txs, r, last[r], tx), tx.op = pc[r],
         pc[r] \in {"deploy", "action", "revoke"}
  PROVE  Stage(txs, mined, r, "send", last[r], tx)
PROOF
<1>1. Stage(txs, mined, r, pc[r], last[r], pend[r])
  BY DEF LifeInv, StageOK
<1>2. CASE pc[r] = "deploy"
  BY <1>1, <1>2 DEF Stage
<1>3. CASE pc[r] = "action"
  BY <1>1, <1>3 DEF Stage
<1>4. CASE pc[r] = "revoke"
  BY <1>1, <1>4 DEF Stage
<1> QED BY <1>2, <1>3, <1>4

(* The identity a run goes on with.                                         *)
LEMMA IdentityOf ==
  ASSUME LifeInv, NEW r \in Runs, pc[r] \in {"action", "revoke"}
  PROVE  /\ Script[r] # "deploy" /\ last[r] \in Nat
         /\ In(txs, <<last[r], 0>>) /\ At(txs, <<last[r], 0>>) = State
PROOF
<1>1. Stage(txs, mined, r, pc[r], last[r], pend[r]) /\ txs \in Seq(TxRec) /\ PastOK(txs)
  BY DEF LifeInv, StageOK, LifeTypeOK
<1>2. Script[r] # "deploy" /\ (Born(txs, r, last[r]) \/ Moved(txs, r, last[r]))
  BY <1>1 DEF Stage
<1> QED BY <1>1, <1>2, IdentityThere

(* Deploying: one transaction from coins.                                   *)
LEMMA DeployRunStep == ASSUME LifeInv, NEW r \in Runs, DeployRun(r) PROVE LifeInv'
PROOF
<1> DEFINE C == UNION {{deploy_tx(r, funding, fee) : funding \in select_funding(list_utxos, IDENTITY_SATS + fee)} :
                     fee \in UNION {recommended(script_bytes + 1000, rate) : rate \in fee_per_kb}}
<1>1. ASSUME NEW tx \in C PROVE Stage(txs, mined, r, "send", last[r], tx)
  <2>0. PICK fee \in UNION {recommended(script_bytes + 1000, rate) : rate \in fee_per_kb} :
          tx \in {deploy_tx(r, funding, fee) : funding \in select_funding(list_utxos, IDENTITY_SATS + fee)}
    BY <1>1
  <2>1. PICK rate \in fee_per_kb : fee \in recommended(script_bytes + 1000, rate)
    BY <2>0
  <2>2. PICK f \in select_funding(list_utxos, IDENTITY_SATS + fee) : tx = deploy_tx(r, f, fee)
    BY <2>0
  <2>3. fee \in Nat /\ Funding(txs, f) /\ funding_utxos_total(f) >= IDENTITY_SATS + fee /\ txs \in Seq(TxRec)
    BY <2>1, Funds
  <2>4. Script[r] = "deploy" /\ pc[r] = "deploy"
    BY DEF DeployRun
  <2>5. Sound(txs, r, last[r], tx) /\ tx.op = "deploy"
    BY <2>2, <2>3, <2>4, PlainDeployMade
  <2> QED BY <2>4, <2>5, StageOfBuilt
<1>2. Ready(r, C)
  BY DEF DeployRun
<1> HIDE DEF C
<1> QED BY <1>1, <1>2, ReadyStep

(* A deployment of the smoke, sent or only built.                           *)
LEMMA SmokeDeploysMade ==
  ASSUME LifeInv, NEW r \in Runs, Script[r] = "smoke", NEW tx \in smoke_deploys(r), NEW l
  PROVE  Sound(txs, r, l, tx) /\ tx.op = "deploy"
PROOF
<1>1. PICK fee \in recommended(script_bytes + 400, 100) :
        tx \in UNION {smoke_deploy_tx(r, funding, fee) : funding \in select_funding(list_utxos, IDENTITY_SATS + fee)}
  BY DEF smoke_deploys
<1>2. PICK f \in select_funding(list_utxos, IDENTITY_SATS + fee) : tx \in smoke_deploy_tx(r, f, fee)
  BY <1>1
<1>3. PICK outs \in append_change_fixed_fee(<<State>>, funding_utxos_total(f), fee) :
        tx = Tx("deploy", r, Outpoints(f), outs, 0, fee)
  BY <1>2 DEF smoke_deploy_tx, FundingInputs
<1>4. fee \in Nat /\ Funding(txs, f) /\ txs \in Seq(TxRec)
  BY Funds
<1> QED BY <1>3, <1>4, DeployMade

(* The smoke deploys.                                                       *)
LEMMA SmokeDeployStep == ASSUME LifeInv, NEW r \in Runs, SmokeDeploy(r) PROVE LifeInv'
PROOF
<1>1. pc[r] = "deploy" /\ Script[r] = "smoke" /\ Ready(r, smoke_deploys(r))
  BY DEF SmokeDeploy
<1>2. ASSUME NEW tx \in smoke_deploys(r) PROVE Stage(txs, mined, r, "send", last[r], tx)
  <2>1. Sound(txs, r, last[r], tx) /\ tx.op = "deploy"
    BY <1>1, SmokeDeploysMade
  <2> QED BY <1>1, <2>1, StageOfBuilt
<1> QED BY <1>1, <1>2, ReadyStep

(* A call on the identity of the run.                                       *)
LEMMA CallStage ==
  ASSUME LifeInv, NEW r \in Runs, NEW f, Funding(txs, f), NEW fee \in Nat, NEW tx,
         \/ pc[r] = "action" /\ tx \in action_tx(r, identity(r), f, fee)
         \/ pc[r] = "revoke" /\ tx \in revoke_tx(r, identity(r), f, fee)
  PROVE  Stage(txs, mined, r, "send", last[r], tx)
PROOF
<1>1. /\ Script[r] # "deploy" /\ last[r] \in Nat
      /\ In(txs, <<last[r], 0>>) /\ At(txs, <<last[r], 0>>) = State
  BY IdentityOf
<1>2. txs \in Seq(TxRec)
  BY DEF LifeInv, LifeTypeOK
<1>3. /\ \A x \in action_tx(r, <<last[r], 0>>, f, fee) : Sound(txs, r, last[r], x) /\ x.op = "action"
      /\ \A x \in revoke_tx(r, <<last[r], 0>>, f, fee) : Sound(txs, r, last[r], x) /\ x.op = "revoke"
  BY <1>1, <1>2, CallMade
<1>4. Sound(txs, r, last[r], tx) /\ tx.op = pc[r]
  BY <1>3 DEF identity
<1> QED BY <1>4, StageOfBuilt

(* The smoke acts and revokes, with coins for the fee alone.                *)
LEMMA SmokeActionStep == ASSUME LifeInv, NEW r \in Runs, SmokeAction(r) PROVE LifeInv'
PROOF
<1> DEFINE C == UNION {UNION {UNION {action_tx(r, identity(r), f, fee) : f \in FundingInputs(funding)} :
                            funding \in select_funding(list_utxos, fee)} :
                     fee \in recommended(2 * script_bytes + 4000, 100)}
<1>1. ASSUME NEW tx \in C PROVE Stage(txs, mined, r, "send", last[r], tx)
  <2>1. PICK fee \in recommended(2 * script_bytes + 4000, 100) :
          tx \in UNION {UNION {action_tx(r, identity(r), f, fee) : f \in FundingInputs(funding)} :
                            funding \in select_funding(list_utxos, fee)}
    BY <1>1
  <2>2. PICK f \in select_funding(list_utxos, fee) : tx \in action_tx(r, identity(r), f, fee)
    BY <2>1 DEF FundingInputs
  <2>3. fee \in Nat /\ Funding(txs, f)
    BY Funds
  <2>4. pc[r] = "action"
    BY DEF SmokeAction
  <2> QED BY <2>2, <2>3, <2>4, CallStage
<1>2. Ready(r, C)
  BY DEF SmokeAction
<1> HIDE DEF C
<1> QED BY <1>1, <1>2, ReadyStep

(* The smoke revokes.                                                       *)
LEMMA SmokeRevokeStep == ASSUME LifeInv, NEW r \in Runs, SmokeRevoke(r) PROVE LifeInv'
PROOF
<1> DEFINE C == UNION {UNION {UNION {revoke_tx(r, identity(r), f, fee) : f \in FundingInputs(funding)} :
                            funding \in select_funding(list_utxos, fee)} :
                     fee \in recommended(script_bytes + 2500, 100)}
<1>1. ASSUME NEW tx \in C PROVE Stage(txs, mined, r, "send", last[r], tx)
  <2>1. PICK fee \in recommended(script_bytes + 2500, 100) :
          tx \in UNION {UNION {revoke_tx(r, identity(r), f, fee) : f \in FundingInputs(funding)} :
                            funding \in select_funding(list_utxos, fee)}
    BY <1>1
  <2>2. PICK f \in select_funding(list_utxos, fee) : tx \in revoke_tx(r, identity(r), f, fee)
    BY <2>1 DEF FundingInputs
  <2>3. fee \in Nat /\ Funding(txs, f)
    BY Funds
  <2>4. pc[r] = "revoke"
    BY DEF SmokeRevoke
  <2> QED BY <2>2, <2>3, <2>4, CallStage
<1>2. Ready(r, C)
  BY DEF SmokeRevoke
<1> HIDE DEF C
<1> QED BY <1>1, <1>2, ReadyStep

(* The third entry deploys from one coin.                                   *)
LEMMA BonsaiDeployStep == ASSUME LifeInv, NEW r \in Runs, BonsaiDeploy(r) PROVE LifeInv'
PROOF
<1> DEFINE C == UNION {{Tx("deploy", r, Outpoints(p[1]), outs, 0, p[2]) :
                        outs \in append_change_fixed_fee(<<State>>, funding_utxos_total(p[1]), p[2])} :
                     p \in fund_from \X recommended(script_bytes + 400, 100)}
<1>1. ASSUME NEW tx \in C PROVE Stage(txs, mined, r, "send", last[r], tx)
  <2>1. PICK p \in fund_from \X recommended(script_bytes + 400, 100) :
          tx \in {Tx("deploy", r, Outpoints(p[1]), outs, 0, p[2]) :
                        outs \in append_change_fixed_fee(<<State>>, funding_utxos_total(p[1]), p[2])}
    BY <1>1
  <2>2. PICK f \in fund_from : f = p[1]
    OBVIOUS
  <2>3. PICK fee \in recommended(script_bytes + 400, 100) : fee = p[2]
    OBVIOUS
  <2>4. PICK outs \in append_change_fixed_fee(<<State>>, funding_utxos_total(f), fee) :
          tx = Tx("deploy", r, Outpoints(f), outs, 0, fee)
    BY <2>1, <2>2, <2>3
  <2>5. fee \in Nat /\ Funding(txs, f) /\ txs \in Seq(TxRec)
    BY Funds
  <2>6. pc[r] = "deploy" /\ Script[r] # "deploy"
    BY DEF BonsaiDeploy
  <2>7. Sound(txs, r, last[r], tx) /\ tx.op = "deploy"
    BY <2>4, <2>5, <2>6, DeployMade
  <2> QED BY <2>6, <2>7, StageOfBuilt
<1>2. Ready(r, C)
  BY DEF BonsaiDeploy
<1> HIDE DEF C
<1> QED BY <1>1, <1>2, ReadyStep

(* The third entry acts.                                                    *)
LEMMA BonsaiActionStep == ASSUME LifeInv, NEW r \in Runs, BonsaiAction(r) PROVE LifeInv'
PROOF
<1> DEFINE C == UNION {action_tx(r, identity(r), p[1], p[2]) :
                     p \in fund_from \X recommended(2 * script_bytes + 3000, 100)}
<1>1. ASSUME NEW tx \in C PROVE Stage(txs, mined, r, "send", last[r], tx)
  <2>1. PICK p \in fund_from \X recommended(2 * script_bytes + 3000, 100) :
          tx \in action_tx(r, identity(r), p[1], p[2])
    BY <1>1
  <2>2. p[2] \in Nat /\ Funding(txs, p[1])
    BY Funds
  <2>3. pc[r] = "action"
    BY DEF BonsaiAction
  <2> QED BY <2>1, <2>2, <2>3, CallStage
<1>2. Ready(r, C)
  BY DEF BonsaiAction
<1> HIDE DEF C
<1> QED BY <1>1, <1>2, ReadyStep

(* The third entry revokes.                                                 *)
LEMMA BonsaiRevokeStep == ASSUME LifeInv, NEW r \in Runs, BonsaiRevoke(r) PROVE LifeInv'
PROOF
<1> DEFINE C == UNION {revoke_tx(r, identity(r), p[1], p[2]) :
                     p \in fund_from \X recommended(script_bytes + 2000, 100)}
<1>1. ASSUME NEW tx \in C PROVE Stage(txs, mined, r, "send", last[r], tx)
  <2>1. PICK p \in fund_from \X recommended(script_bytes + 2000, 100) :
          tx \in revoke_tx(r, identity(r), p[1], p[2])
    BY <1>1
  <2>2. p[2] \in Nat /\ Funding(txs, p[1])
    BY Funds
  <2>3. pc[r] = "revoke"
    BY DEF BonsaiRevoke
  <2> QED BY <2>1, <2>2, <2>3, CallStage
<1>2. Ready(r, C)
  BY DEF BonsaiRevoke
<1> HIDE DEF C
<1> QED BY <1>1, <1>2, ReadyStep

(* Loading, making and writing keys, and a run without confirmation.        *)
LEMMA KeysStep ==
  ASSUME LifeInv, NEW r \in Runs, LoadKeys(r) \/ WriteKeys(r) \/ WriteKeysFails(r) \/ DryRun(r)
  PROVE  LifeInv'
PROOF
<1>1. PICK x \in {"write_keys", "deploy", "failed", "dry"} : pc' = [pc EXCEPT ![r] = x]
  BY DEF LoadKeys, WriteKeys, WriteKeysFails, DryRun
<1>2. /\ txs' = txs /\ mined' = mined /\ indexed' = indexed /\ listed' = listed /\ last' = last
      /\ built' = built /\ pend' = pend
  BY DEF LoadKeys, WriteKeys, WriteKeysFails, DryRun
<1>3. pc[r] \in {"start", "write_keys", "deploy"}
  BY DEF LoadKeys, WriteKeys, WriteKeysFails, DryRun
<1>4. /\ DOMAIN pend = Runs /\ DOMAIN built = Runs /\ DryOK(txs, built[r])
      /\ Stage(txs, mined, r, pc[r], last[r], pend[r])
  BY DEF LifeInv, LifeTypeOK, BuiltOK, StageOK
<1>5. By(txs, r) = {}
  BY <1>3, <1>4 DEF Stage
<1>6. x \in Steps /\ Stage(txs, mined, r, x, last[r], pend[r])
  BY <1>5 DEF Steps, Stage
<1> QED BY <1>1, <1>2, <1>4, <1>6, Moves

(* A confirmed run goes on from a mined transaction.                        *)
LEMMA ConfirmedStep == ASSUME LifeInv, NEW r \in Runs, Confirmed(r) PROVE LifeInv'
PROOF
<1>1. PICK x \in AfterWait(r) : pc' = [pc EXCEPT ![r] = x]
  BY DEF Confirmed
<1>2. /\ pc[r] = "wait" /\ tx_status(last[r]) = "CONFIRMED"
      /\ txs' = txs /\ mined' = mined /\ indexed' = indexed /\ listed' = listed /\ last' = last
      /\ built' = built /\ pend' = pend
  BY DEF Confirmed
<1>3. last[r] <= mined
  BY <1>2 DEF tx_status, interpret_tx_status
<1>4. /\ DOMAIN pend = Runs /\ DOMAIN built = Runs /\ DryOK(txs, built[r])
      /\ Stage(txs, mined, r, "wait", last[r], pend[r])
  BY <1>2 DEF LifeInv, LifeTypeOK, BuiltOK, StageOK
<1>5. /\ Script[r] # "deploy"
      /\ Born(txs, r, last[r]) \/ Moved(txs, r, last[r]) \/ Closed(txs, r, last[r])
  BY <1>4 DEF Stage
<1>6. /\ Born(txs, r, last[r]) => txs[last[r]].op = "deploy"
      /\ Moved(txs, r, last[r]) => txs[last[r]].op = "action"
      /\ Closed(txs, r, last[r]) => txs[last[r]].op = "revoke"
  BY DEF Born, Moved, Closed
<1>7. /\ x \in {"action", "revoke", "done"}
      /\ x = "action" => Born(txs, r, last[r])
      /\ x = "revoke" => Born(txs, r, last[r]) \/ Moved(txs, r, last[r])
      /\ x = "done" => Closed(txs, r, last[r])
  BY <1>5, <1>6 DEF AfterWait
<1>8. x \in Steps /\ Stage(txs, mined, r, x, last[r], pend[r])
  BY <1>3, <1>5, <1>7 DEF Steps, Stage
<1> QED BY <1>1, <1>2, <1>4, <1>7, <1>8, Moves

-----------------------------------------------------------------------------
(* What a run holds stays sound when another run sends.                     *)
LEMMA SoundStill ==
  ASSUME NEW h \in Seq(TxRec), Len(h) >= 1, NEW tx \in TxRec, NEW g, g = Append(h, tx),
         NEW r, NEW l, NEW p, Sound(h, r, l, p)
  PROVE  Sound(g, r, l, p)
PROOF
<1>1. Shaped(p) /\ Pays(h, p)
  BY DEF Sound
<1>2. Pays(g, p)
  BY <1>1, PaysStill
<1>3. ASSUME NEW o \in p.ins PROVE At(g, o) = At(h, o)
  <2>1. In(h, o)
    BY <1>1 DEF Pays
  <2> QED BY <2>1, OutputsStay
<1> QED BY <1>1, <1>2, <1>3 DEF Sound

(* So a run stands where it stood.                                          *)
LEMMA StageStill ==
  ASSUME NEW h \in Seq(TxRec), Len(h) >= 1, NEW tx \in TxRec, NEW g, g = Append(h, tx),
         NEW r, tx.by # r, NEW m, NEW x, NEW l, NEW p, Stage(h, m, r, x, l, p)
  PROVE  Stage(g, m, r, x, l, p)
PROOF
<1>1. /\ By(g, r) = By(h, r)
      /\ Born(h, r, l) => Born(g, r, l)
      /\ Moved(h, r, l) => Moved(g, r, l)
      /\ Closed(h, r, l) => Closed(g, r, l)
  BY OthersGrow
<1>2. Sound(h, r, l, p) => Sound(g, r, l, p)
  BY SoundStill
<1> QED BY <1>1, <1>2 DEF Stage

(* A dry build is worth what it was.                                        *)
LEMMA DryStill ==
  ASSUME NEW h \in Seq(TxRec), Len(h) >= 1, NEW tx \in TxRec, NEW g, g = Append(h, tx),
         NEW b, DryOK(h, b)
  PROVE  DryOK(g, b)
PROOF
<1>1. ASSUME NEW i \in 1..Len(b)
      PROVE  /\ IsFiniteSet(b[i].ins) /\ \A o \in b[i].ins : o[1] < 0 \/ In(g, o)
             /\ FeeAdds(b[i], DryWorth(g, b, b[i].ins))
  <2> DEFINE S == b[i].ins
             w == [o \in S |-> DryAt(h, b, o).sats]
             v == [o \in S |-> DryAt(g, b, o).sats]
  <2>1. IsFiniteSet(S) /\ FeeAdds(b[i], DryWorth(h, b, S))
    BY DEF DryOK
  <2>2. ASSUME NEW o \in S PROVE (o[1] < 0 \/ In(g, o)) /\ DryAt(g, b, o) = DryAt(h, b, o)
    <3>1. o[1] < 0 \/ In(h, o)
      BY DEF DryOK
    <3>2. In(h, o) => In(g, o) /\ At(g, o) = At(h, o)
      BY OutputsStay
    <3> QED BY <3>1, <3>2 DEF DryAt
  <2>3. \A o \in S : w[o] = v[o]
    BY <2>2
  <2>4. DryWorth(h, b, S) = SumFunctionOnSet(w, S) /\ DryWorth(g, b, S) = SumFunctionOnSet(v, S)
    BY DryWorthIs
  <2> HIDE DEF w, v
  <2>5. DryWorth(h, b, S) = DryWorth(g, b, S)
    BY <2>1, <2>3, <2>4, SumSameWeights
  <2> QED BY <2>1, <2>2, <2>5
<1> QED BY <1>1 DEF DryOK

(* The node takes a transaction: it spends nothing twice, and takes the     *)
(* run's identity one stage further, whatever the others did meanwhile.     *)
LEMMA AcceptStep ==
  ASSUME LifeInv, NEW r \in Runs, NEW x, Accept(r, x),
         x = "failed" \/ x = IF NoWait(r) THEN "done" ELSE "wait"
  PROVE  LifeInv'
PROOF
<1> DEFINE h == txs
           tx == pend[r]
           n == Len(h) + 1
<1>1. /\ pc[r] = "send" /\ NodeAccepts(tx) /\ txs' = Append(h, tx)
      /\ last' = [last EXCEPT ![r] = n] /\ pc' = [pc EXCEPT ![r] = x] /\ pend' = [pend EXCEPT ![r] = NoTx]
      /\ mined' = mined /\ indexed' = indexed /\ listed' = listed /\ built' = built
  BY DEF Accept
<1>2. /\ LifeTypeOK /\ h \in Seq(TxRec) /\ Len(h) >= 1 /\ Len(h) \in Nat /\ PastOK(h)
      /\ pc \in [Runs -> Steps] /\ last \in [Runs -> 0..Len(h)] /\ DOMAIN pend = Runs /\ DOMAIN built = Runs
  BY DEF LifeInv, LifeTypeOK
<1>3. Stage(h, mined, r, "send", last[r], tx)
  BY <1>1 DEF LifeInv, StageOK
<1>4. /\ Sound(h, r, last[r], tx) /\ Shaped(tx) /\ Pays(h, tx) /\ tx \in TxRec /\ tx.by = r
      /\ tx.op = "deploy" \/ Script[r] # "deploy"
  BY <1>3 DEF Stage, Sound, Shaped
<1>5. \A t \in 2..Len(h) : tx.ins \cap h[t].ins = {}
  <2>1. ASSUME NEW t \in 2..Len(h), NEW o \in tx.ins, o \in h[t].ins PROVE FALSE
    <3>1. t \in 1..Len(txs)
      BY <1>2
    <3>2. o \in SpentBy(Len(txs))
      BY <2>1, <3>1 DEF SpentBy
    <3> QED BY <1>1, <3>2 DEF NodeAccepts
  <2> QED BY <2>1
<1>6. PICK g : g = txs'
  OBVIOUS
<1>7. g = Append(h, tx) /\ g \in Seq(TxRec) /\ Len(g) = n
  BY <1>1, <1>2, <1>4, <1>6, Growth
<1>8. /\ pc'[r] = x /\ last'[r] = n /\ pend'[r] = NoTx
      /\ \A q \in Runs \ {r} : pc'[q] = pc[q] /\ last'[q] = last[q] /\ pend'[q] = pend[q]
  BY <1>1, <1>2
<1>9. /\ tx.op = "deploy" => Born(g, r, n)
      /\ tx.op = "action" => Moved(g, r, n)
      /\ tx.op = "revoke" => Closed(g, r, n)
  BY <1>2, <1>3, <1>7, OwnGrows
<1>10. tx.op \in {"deploy", "action", "revoke"} /\ x \in {"failed", "done", "wait"}
  BY <1>4 DEF Shaped
<1>11. LifeTypeOK'
  <2>1. mined' \in 0..Len(g) /\ indexed' \in 0..Len(g) /\ listed' \in 0..Len(g) /\ Len(g) >= 1
    BY <1>1, <1>2, <1>7 DEF LifeTypeOK
  <2>2. last' \in [Runs -> 0..Len(g)] /\ pc' \in [Runs -> Steps]
    BY <1>1, <1>2, <1>7, <1>10 DEF Steps
  <2>3. DOMAIN pend' = Runs /\ DOMAIN built' = Runs
    BY <1>1, <1>2
  <2> QED BY <1>6, <1>7, <2>1, <2>2, <2>3 DEF LifeTypeOK
<1>12. PastOK(g)
  BY <1>2, <1>4, <1>5, <1>7, PastGrows
<1>13. ASSUME NEW q \in Runs PROVE Stage(g, mined, q, pc'[q], last'[q], pend'[q])
  <2>1. CASE q = r
    <3>1. x = "wait" => Script[r] # "deploy"
      BY <1>4 DEF NoWait
    <3> QED BY <1>8, <1>9, <1>10, <2>1, <3>1 DEF Stage
  <2>2. CASE q # r
    <3>1. Stage(h, mined, q, pc[q], last[q], pend[q])
      BY DEF LifeInv, StageOK
    <3>2. tx.by # q
      BY <1>4, <2>2
    <3>3. Stage(g, mined, q, pc[q], last[q], pend[q])
      BY <1>2, <1>4, <1>7, <3>1, <3>2, StageStill
    <3> QED BY <1>8, <2>2, <3>3
  <2> QED BY <2>1, <2>2
<1>14. ASSUME NEW q \in Runs, pc'[q] = "done", Script[q] # "deploy", built'[q] = <<>>
       PROVE  Closed(g, q, last'[q])
  <2>1. CASE q = r
    <3>1. tx.op = "revoke"
      BY <1>8, <1>14, <2>1 DEF NoWait
    <3> QED BY <1>8, <1>9, <2>1, <3>1
  <2>2. CASE q # r
    <3>1. Closed(h, q, last[q])
      BY <1>1, <1>8, <1>14, <2>2 DEF LifeInv, DoneOK
    <3>2. tx.by # q
      BY <1>4, <2>2
    <3>3. Closed(g, q, last[q])
      BY <1>2, <1>4, <1>7, <3>1, <3>2, OthersGrow
    <3> QED BY <1>8, <2>2, <3>3
  <2> QED BY <2>1, <2>2
<1>15. ASSUME NEW q \in Runs PROVE DryOK(g, built'[q])
  <2>1. DryOK(h, built[q])
    BY DEF LifeInv, BuiltOK
  <2> QED BY <1>1, <1>2, <1>4, <1>7, <2>1, DryStill
<1>16. PastOK(txs)' /\ StageOK' /\ DoneOK' /\ BuiltOK'
  BY <1>1, <1>6, <1>12, <1>13, <1>14, <1>15 DEF StageOK, DoneOK, BuiltOK
<1> QED BY <1>11, <1>16 DEF LifeInv

(* The chain goes on by itself.                                             *)
LEMMA ChainStep == ASSUME LifeInv, Mine \/ Index \/ List PROVE LifeInv'
PROOF
<1>1. /\ txs' = txs /\ pc' = pc /\ pend' = pend /\ last' = last /\ built' = built
      /\ mined' \in 0..Len(txs) /\ indexed' \in 0..Len(txs) /\ listed' \in 0..Len(txs) /\ mined' >= mined
  BY DEF LifeInv, LifeTypeOK, Mine, Index, List, Lag
<1>2. LifeTypeOK'
  BY <1>1 DEF LifeInv, LifeTypeOK
<1>3. mined \in Nat /\ mined' \in Nat /\ last \in [Runs -> 0..Len(txs)] /\ \A r \in Runs : last[r] \in Nat
  BY <1>1 DEF LifeInv, LifeTypeOK
<1>4. ASSUME NEW r \in Runs PROVE Stage(txs, mined', r, pc[r], last[r], pend[r])
  <2>1. Stage(txs, mined, r, pc[r], last[r], pend[r])
    BY DEF LifeInv, StageOK
  <2>2. last[r] <= mined => last[r] <= mined'
    BY <1>1, <1>3
  <2> QED BY <2>1, <2>2 DEF Stage
<1>5. StageOK'
  BY <1>1, <1>4 DEF StageOK
<1>6. PastOK(txs)' /\ DoneOK' /\ BuiltOK'
  BY <1>1 DEF LifeInv, DoneOK, BuiltOK
<1> QED BY <1>2, <1>5, <1>6 DEF LifeInv

-----------------------------------------------------------------------------
(* A transaction of a dry build that has change, under its negative txid:   *)
(* its identity and its change are worth one satoshi and the change.        *)
Threaded(b, k, id, p) ==
  /\ k \in Nat \ {0} /\ id = -k /\ b[k] = p
  /\ p.outs \in Seq(Output) /\ Len(p.outs) >= 1 /\ p.outs[1] = State /\ HasChange(p)

(* Their worth in the dry build.                                            *)
LEMMA ThreadWorth ==
  ASSUME NEW h, NEW b, NEW k, NEW id, NEW p, Threaded(b, k, id, p),
         NEW S, S = {<<id, 0>>} \cup Outpoints(Thread(p, id)), NEW total, total = funding_utxos_total(Thread(p, id))
  PROVE  /\ IsFiniteSet(S) /\ (\A o \in S : o[1] < 0) /\ total \in Nat
         /\ DryWorth(h, b, S) = total + 1
PROOF
<1>1. PICK e : e = Last(p.outs)
  OBVIOUS
<1>2. PICK j : j = Len(p.outs) - 1
  OBVIOUS
<1>3. /\ j \in Nat /\ e = p.outs[j + 1] /\ e \in Output /\ e.type = "p2pkh" /\ e.sats \in Nat
      /\ p.outs[1] = State
  <2>1. PICK q \in Seq(Output) : q = p.outs
    BY DEF Threaded
  <2>2. Len(q) >= 1 /\ q[1] = State /\ e = Last(q) /\ e.type = "p2pkh" /\ j = Len(q) - 1
    BY <1>1, <1>2, <2>1 DEF Threaded, HasChange
  <2>3. Len(q) \in Nat /\ e = q[Len(q)] /\ Len(q) \in 1..Len(q) /\ j \in Nat /\ j + 1 = Len(q)
    BY <2>2 DEF Last
  <2>4. e \in Output /\ e = q[j + 1]
    BY <2>3
  <2>5. e.sats \in Nat
    BY <2>4 DEF Output
  <2> QED BY <2>1, <2>2, <2>3, <2>4, <2>5
<1>4. j # 0
  BY <1>3, FirstOutputs
<1>5. PICK c : c = [outpoint |-> <<id, j>>, sats |-> e.sats, confirmed |-> FALSE]
  OBVIOUS
<1>6. Thread(p, id) = <<c>> /\ c.outpoint = <<id, j>> /\ c.sats = e.sats
  BY <1>1, <1>2, <1>5 DEF Thread
<1>7. total = e.sats
  <2>1. DOMAIN <<c>> = {1} /\ SatsIn(<<c>>)[1] = e.sats
    BY <1>6 DEF SatsIn
  <2>2. SumFunctionOnSet(SatsIn(<<c>>), {1}) = SatsIn(<<c>>)[1]
    <3>1. PICK s : s = SatsIn(<<c>>)
      OBVIOUS
    <3>2. s[1] \in Int
      BY <1>3, <2>1, <3>1
    <3>3. SumFunctionOnSet(s, {1}) = s[1]
      BY <3>2, SumSingle, Zenon
    <3> QED BY <3>1, <3>3
  <2> QED BY <1>6, <2>1, <2>2, TotalIs
<1>8. S = {<<id, j>>} \cup {<<id, 0>>} /\ <<id, 0>> \notin {<<id, j>>}
  <2>1. Outpoints(<<c>>) = {<<id, j>>}
    BY <1>6 DEF Outpoints, ToSet
  <2> QED BY <1>4, <1>6, <2>1
<1>9. IsFiniteSet({<<id, j>>}) /\ IsFiniteSet(S)
  <2>1. IsFiniteSet({<<id, j>>})
    BY FS_Singleton
  <2> QED BY <1>8, <2>1, FS_AddElement
<1>10. \A o \in S : o[1] < 0
  BY <1>8 DEF Threaded
<1> DEFINE w == [o \in S |-> DryAt(h, b, o).sats]
<1>11. w[<<id, 0>>] = 1 /\ w[<<id, j>>] = e.sats
  <2>1. b[-id] = p /\ id < 0
    BY DEF Threaded
  <2>2. DryAt(h, b, <<id, 0>>) = p.outs[1] /\ DryAt(h, b, <<id, j>>) = p.outs[j + 1]
    BY <1>3, <2>1 DEF DryAt
  <2> QED BY <1>3, <1>8, <2>2, FirstOutputs
<1>12. DryWorth(h, b, S) = SumFunctionOnSet(w, S)
  BY DryWorthIs
<1> HIDE DEF w
<1>13. SumFunctionOnSet(w, {<<id, j>>}) = e.sats
  <2>1. w[<<id, j>>] \in Int
    BY <1>3, <1>11
  <2>2. SumFunctionOnSet(w, {<<id, j>>}) = w[<<id, j>>]
    BY <2>1, SumSingle, Zenon
  <2> QED BY <1>11, <2>2
<1>14. SumFunctionOnSet(w, S) = w[<<id, 0>>] + SumFunctionOnSet(w, {<<id, j>>})
  <2>1. \A x \in {<<id, j>>} : w[x] \in Int
    BY <1>3, <1>11
  <2> QED BY <1>8, <1>9, <1>11, <2>1, SumInsert
<1> QED BY <1>3, <1>7, <1>9, <1>10, <1>11, <1>12, <1>13, <1>14

(* What a dry action or revocation pays.                                    *)
LEMMA DryCallMade ==
  ASSUME NEW h, NEW b, NEW r \in Runs, Script[r] # "deploy", NEW k, NEW id, NEW p, Threaded(b, k, id, p),
         NEW fee \in Nat, NEW tx,
         \/ tx \in action_tx(r, <<id, 0>>, Thread(p, id), fee)
         \/ tx \in revoke_tx(r, <<id, 0>>, Thread(p, id), fee)
  PROVE  /\ IsFiniteSet(tx.ins) /\ (\A o \in tx.ins : o[1] < 0) /\ FeeAdds(tx, DryWorth(h, b, tx.ins))
         /\ tx.outs \in Seq(Output) /\ Len(tx.outs) >= 1
         /\ tx \in action_tx(r, <<id, 0>>, Thread(p, id), fee) => tx.outs[1] = State
PROOF
<1>1. PICK S : S = {<<id, 0>>} \cup Outpoints(Thread(p, id))
  OBVIOUS
<1>2. PICK total : total = funding_utxos_total(Thread(p, id))
  OBVIOUS
<1>3. /\ IsFiniteSet(S) /\ (\A o \in S : o[1] < 0) /\ total \in Nat
      /\ DryWorth(h, b, S) = total + 1
  BY <1>1, <1>2, ThreadWorth
<1>4. total + IDENTITY_SATS \in Nat /\ total + IDENTITY_SATS = total + 1
  BY <1>3 DEF IDENTITY_SATS
<1>5. ASSUME NEW op, NEW first \in Seq(Output), Len(first) >= 1,
             NEW outs \in append_change_fixed_fee(first, total + IDENTITY_SATS, fee),
             tx = Tx(op, r, S, outs, change_amount(r, outs), fee)
      PROVE  /\ IsFiniteSet(tx.ins) /\ (\A o \in tx.ins : o[1] < 0) /\ FeeAdds(tx, DryWorth(h, b, tx.ins))
             /\ tx.outs \in Seq(Output) /\ Len(tx.outs) >= 1 /\ tx.outs[1] = first[1]
  <2>1. /\ outs \in Seq(Output) /\ Len(outs) >= 1 /\ outs[1] = first[1] /\ SatsOf(outs) = (total + IDENTITY_SATS) - fee
    <3>1. PICK sum \in Nat : sum = total + IDENTITY_SATS
      BY <1>4
    <3>2. outs \in append_change_fixed_fee(first, sum, fee) /\ fee \in Int
      BY <1>5, <3>1
    <3>3. outs \in Seq(Output) /\ Len(outs) >= 1 /\ outs[1] = first[1] /\ SatsOf(outs) = sum - fee
      BY <1>5, <3>2, ChangeTakesRest, Zenon
    <3> QED BY <3>1, <3>3
  <2>2. tx.by = r /\ tx.ins = S /\ tx.outs = outs /\ tx.fee = fee
    BY <1>5 DEF Tx
  <2>3. DryWorth(h, b, S) - SatsOf(outs) = fee
    BY <1>3, <1>4, <2>1
  <2>4. FeeAdds(tx, DryWorth(h, b, tx.ins))
    BY <2>2, <2>3 DEF FeeAdds
  <2> QED BY <1>3, <2>1, <2>2, <2>4
<1>6. ASSUME tx \in action_tx(r, <<id, 0>>, Thread(p, id), fee)
      PROVE  /\ IsFiniteSet(tx.ins) /\ (\A o \in tx.ins : o[1] < 0) /\ FeeAdds(tx, DryWorth(h, b, tx.ins))
             /\ tx.outs \in Seq(Output) /\ Len(tx.outs) >= 1 /\ tx.outs[1] = State
  <2>1. PICK outs \in append_change_fixed_fee(<<State, Receipt>>, total + IDENTITY_SATS, fee) :
               tx = Tx("action", r, S, outs, change_amount(r, outs), fee)
    BY <1>1, <1>2, <1>6 DEF action_tx, build_agent_tea_action
  <2>2. <<State, Receipt>> \in Seq(Output) /\ Len(<<State, Receipt>>) >= 1 /\ <<State, Receipt>>[1] = State
    BY FirstSats
  <2> QED BY <1>5, <2>1, <2>2
<1>7. ASSUME tx \in revoke_tx(r, <<id, 0>>, Thread(p, id), fee)
      PROVE  /\ IsFiniteSet(tx.ins) /\ (\A o \in tx.ins : o[1] < 0) /\ FeeAdds(tx, DryWorth(h, b, tx.ins))
             /\ tx.outs \in Seq(Output) /\ Len(tx.outs) >= 1
  <2>1. PICK outs \in append_change_fixed_fee(<<P2PKH(IDENTITY_SATS)>>, total + IDENTITY_SATS, fee) :
               tx = Tx("revoke", r, S, outs, change_amount(r, outs), fee)
    BY <1>1, <1>2, <1>7 DEF revoke_tx, build_agent_tea_revoke
  <2>2. <<P2PKH(IDENTITY_SATS)>> \in Seq(Output) /\ Len(<<P2PKH(IDENTITY_SATS)>>) >= 1
    BY FirstSats
  <2> QED BY <1>5, <2>1, <2>2
<1> QED BY <1>6, <1>7

(* The first transaction of a dry build spends coins of the chain.          *)
LEMMA DryFirst ==
  ASSUME NEW h \in Seq(TxRec), NEW b, NEW tx, Shaped(tx), Pays(h, tx)
  PROVE  /\ IsFiniteSet(tx.ins) /\ (\A o \in tx.ins : o[1] < 0 \/ In(h, o))
         /\ FeeAdds(tx, DryWorth(h, b, tx.ins))
PROOF
<1> DEFINE S == tx.ins
           w == [o \in S |-> At(h, o).sats]
           v == [o \in S |-> DryAt(h, b, o).sats]
<1>1. IsFiniteSet(S) /\ (\A o \in S : In(h, o)) /\ FeeAdds(tx, Worth(h, S))
  BY DEF Shaped, Pays
<1>2. \A o \in S : ~ (o[1] < 0)
  BY <1>1 DEF In
<1>3. \A o \in S : w[o] = v[o]
  BY <1>2 DEF DryAt
<1>4. Worth(h, S) = SumFunctionOnSet(w, S) /\ DryWorth(h, b, S) = SumFunctionOnSet(v, S)
  BY WorthIs, DryWorthIs
<1> HIDE DEF w, v
<1>5. Worth(h, S) = DryWorth(h, b, S)
  BY <1>1, <1>3, <1>4, SumSameWeights
<1> QED BY <1>1, <1>5

(* A dry build without an action pays for itself throughout.                *)
LEMMA DryShort ==
  ASSUME NEW h \in Seq(TxRec), NEW r \in Runs, Script[r] # "deploy", NEW d, Sound(h, r, 0, d), d.op = "deploy",
         HasChange(d), NEW fee \in Nat, NEW v \in revoke_tx(r, <<-1, 0>>, Thread(d, -1), fee), NEW b, b = <<d, v>>
  PROVE  DryOK(h, b) /\ b # <<>>
PROOF
<1>1. /\ Shaped(d) /\ Pays(h, d)
      /\ d.outs \in Seq(Output) /\ Len(d.outs) >= 1 /\ d.outs[1] = State
  BY DEF Sound, Shaped, TxRec
<1>2. b[1] = d /\ b[2] = v /\ Len(b) = 2 /\ b # <<>>
  OBVIOUS
<1>3. Threaded(b, 1, -1, d)
  BY <1>1, <1>2 DEF Threaded
<1>4. /\ IsFiniteSet(d.ins) /\ (\A o \in d.ins : o[1] < 0 \/ In(h, o))
      /\ FeeAdds(d, DryWorth(h, b, d.ins))
  BY <1>1, DryFirst
<1>5. IsFiniteSet(v.ins) /\ (\A o \in v.ins : o[1] < 0) /\ FeeAdds(v, DryWorth(h, b, v.ins))
  <2>1. PICK k, id : k = 1 /\ id = -1
    OBVIOUS
  <2>2. Threaded(b, k, id, d) /\ v \in revoke_tx(r, <<id, 0>>, Thread(d, id), fee)
    BY <1>3, <2>1
  <2> QED BY <2>2, DryCallMade
<1>6. \A i \in 1..Len(b) : i = 1 \/ i = 2
  BY <1>2
<1> QED BY <1>2, <1>4, <1>5, <1>6 DEF DryOK

(* And with one.                                                            *)
LEMMA DryLong ==
  ASSUME NEW h \in Seq(TxRec), NEW r \in Runs, Script[r] # "deploy", NEW d, Sound(h, r, 0, d), d.op = "deploy",
         HasChange(d), NEW fee \in Nat, NEW a \in action_tx(r, <<-1, 0>>, Thread(d, -1), fee), HasChange(a),
         NEW rest \in Nat, NEW v \in revoke_tx(r, <<-2, 0>>, Thread(a, -2), rest), NEW b, b = <<d, a, v>>
  PROVE  DryOK(h, b) /\ b # <<>>
PROOF
<1>1. /\ Shaped(d) /\ Pays(h, d)
      /\ d.outs \in Seq(Output) /\ Len(d.outs) >= 1 /\ d.outs[1] = State
  BY DEF Sound, Shaped, TxRec
<1>2. b[1] = d /\ b[2] = a /\ b[3] = v /\ Len(b) = 3 /\ b # <<>>
  OBVIOUS
<1>3. Threaded(b, 1, -1, d)
  BY <1>1, <1>2 DEF Threaded
<1>4. /\ IsFiniteSet(d.ins) /\ (\A o \in d.ins : o[1] < 0 \/ In(h, o))
      /\ FeeAdds(d, DryWorth(h, b, d.ins))
  BY <1>1, DryFirst
<1>5. /\ IsFiniteSet(a.ins) /\ (\A o \in a.ins : o[1] < 0) /\ FeeAdds(a, DryWorth(h, b, a.ins))
      /\ a.outs \in Seq(Output) /\ Len(a.outs) >= 1 /\ a.outs[1] = State
  <2>1. PICK k, id : k = 1 /\ id = -1
    OBVIOUS
  <2>2. Threaded(b, k, id, d) /\ a \in action_tx(r, <<id, 0>>, Thread(d, id), fee)
    BY <1>3, <2>1
  <2> QED BY <2>2, DryCallMade
<1>6. Threaded(b, 2, -2, a)
  BY <1>2, <1>5 DEF Threaded
<1>7. IsFiniteSet(v.ins) /\ (\A o \in v.ins : o[1] < 0) /\ FeeAdds(v, DryWorth(h, b, v.ins))
  <2>1. PICK k, id : k = 2 /\ id = -2
    OBVIOUS
  <2>2. Threaded(b, k, id, a) /\ v \in revoke_tx(r, <<id, 0>>, Thread(a, id), rest)
    BY <1>6, <2>1
  <2> QED BY <2>2, DryCallMade
<1>8. \A i \in 1..Len(b) : i = 1 \/ i = 2 \/ i = 3
  BY <1>2
<1> QED BY <1>2, <1>4, <1>5, <1>7, <1>8 DEF DryOK

(* A dry build of the smoke ends its run with success and sends nothing.    *)
LEMMA DryBuildStep == ASSUME LifeInv, NEW r \in Runs, SmokeDryBuild(r) PROVE LifeInv'
PROOF
<1>1. /\ pc[r] = "deploy" /\ Script[r] = "smoke" /\ pc' = [pc EXCEPT ![r] = "done"]
      /\ txs' = txs /\ mined' = mined /\ indexed' = indexed /\ listed' = listed /\ pend' = pend /\ last' = last
  BY DEF SmokeDryBuild
<1>2. DOMAIN pend = Runs /\ DOMAIN built = Runs
  BY DEF LifeInv, LifeTypeOK
<1>3. /\ DryOK(txs, built'[r]) /\ built'[r] # <<>>
      /\ DOMAIN built' = Runs /\ \A q \in Runs \ {r} : built'[q] = built[q]
  <2>1. PICK d \in smoke_deploys(r), fa \in recommended(2 * script_bytes + 4000, 100),
             fr \in recommended(script_bytes + 2500, 100) :
          /\ HasChange(d) /\ built'[r] \in dry_builds(r, d, fa, fr)
          /\ DOMAIN built' = Runs /\ \A q \in Runs \ {r} : built'[q] = built[q]
    BY <1>2 DEF SmokeDryBuild
  <2>2. fa \in Nat /\ fr \in Nat /\ txs \in Seq(TxRec)
    BY Funds
  <2>3. Sound(txs, r, 0, d) /\ d.op = "deploy" /\ HasChange(d) /\ Script[r] # "deploy"
    BY <1>1, <2>1, SmokeDeploysMade
  <2>4. PICK b : b = built'[r]
    OBVIOUS
  <2>5. DryOK(txs, b) /\ b # <<>>
    <3>1. CASE b \in {<<d, v>> : v \in revoke_tx(r, <<-1, 0>>, Thread(d, -1), fr)}
      <4>1. PICK v \in revoke_tx(r, <<-1, 0>>, Thread(d, -1), fr) : b = <<d, v>>
        BY <3>1
      <4> QED BY <2>2, <2>3, <4>1, DryShort
    <3>2. ASSUME NEW a \in action_tx(r, <<-1, 0>>, Thread(d, -1), fa), HasChange(a),
                 b \in {<<d, a, v>> : v \in revoke_tx(r, <<-2, 0>>, Thread(a, -2), fr)}
          PROVE  DryOK(txs, b) /\ b # <<>>
      <4>1. PICK v \in revoke_tx(r, <<-2, 0>>, Thread(a, -2), fr) : b = <<d, a, v>>
        BY <3>2
      <4> QED BY <2>2, <2>3, <3>2, <4>1, DryLong
    <3>3. b \in dry_builds(r, d, fa, fr)
      BY <2>1, <2>4
    <3> QED BY <3>1, <3>2, <3>3 DEF dry_builds
  <2> QED BY <2>1, <2>4, <2>5
<1>4. "done" \in Steps /\ Stage(txs, mined, r, "done", last[r], pend'[r])
  BY DEF Steps, Stage
<1>5. DOMAIN pend' = Runs /\ \A q \in Runs \ {r} : pend'[q] = pend[q]
  BY <1>1, <1>2
<1> QED BY <1>1, <1>3, <1>4, <1>5, Moves

(* The wallet's coins, nothing sent.                                        *)
LEMMA LifeInit == ASSUME Init PROVE LifeInv
PROOF
<1>1. PICK w \in Wallets : txs = <<Tx("coins", NoTx, {}, [i \in 1..Len(w) |-> P2PKH(w[i])], 0, 0)>>
  BY DEF Init
<1>2. PICK outs : outs = [i \in 1..Len(w) |-> P2PKH(w[i])]
  OBVIOUS
<1>3. w \in Seq(Nat) /\ Len(w) \in Nat
  BY LifecycleConstants
<1>4. \A i \in 1..Len(w) : P2PKH(w[i]) \in Output
  <2>1. \A i \in 1..Len(w) : w[i] \in Nat
    BY <1>3
  <2> QED BY <2>1, FirstOutputs
<1>5. outs \in Seq(Output)
  BY <1>2, <1>3, <1>4
<1>6. Tx("coins", NoTx, {}, outs, 0, 0) \in TxRec
  BY <1>5 DEF Tx, TxRec
<1>7. txs \in Seq(TxRec) /\ Len(txs) = 1
  BY <1>1, <1>2, <1>6
<1>8. PICK active \in SUBSET Runs : pc = [r \in Runs |-> IF r \in active THEN "start" ELSE "off"]
  BY DEF Init
<1>9. LifeTypeOK
  BY <1>7, <1>8 DEF Init, LifeTypeOK, Steps
<1>10. 2..Len(txs) = {}
  BY <1>7
<1>11. PastOK(txs)
  BY <1>10 DEF PastOK
<1>12. ASSUME NEW r \in Runs PROVE Stage(txs, mined, r, pc[r], last[r], pend[r]) /\ pc[r] # "done"
  <2>1. By(txs, r) = {}
    BY <1>10 DEF By
  <2>2. pc[r] \in {"start", "off"}
    BY <1>8
  <2> QED BY <2>1, <2>2 DEF Stage
<1>13. ASSUME NEW r \in Runs PROVE DryOK(txs, built[r])
  <2>1. built[r] = <<>>
    BY DEF Init
  <2> QED BY <2>1 DEF DryOK
<1> QED BY <1>9, <1>11, <1>12, <1>13 DEF LifeInv, StageOK, DoneOK, BuiltOK

(* Every step keeps the invariant.                                          *)
LEMMA LifeStep == LifeInv /\ [Next]_vars => LifeInv'
PROOF
<1> SUFFICES ASSUME LifeInv, [Next]_vars PROVE LifeInv'
  OBVIOUS
<1>1. CASE UNCHANGED vars
  <2>1. /\ txs' = txs /\ mined' = mined /\ indexed' = indexed /\ listed' = listed /\ pc' = pc
        /\ pend' = pend /\ last' = last /\ built' = built
    BY <1>1 DEF vars
  <2> QED BY <2>1 DEF LifeInv, LifeTypeOK, StageOK, DoneOK, BuiltOK
<1>2. CASE Mine \/ Index \/ List
  BY <1>2, ChainStep
<1>3. ASSUME NEW r \in Runs, Step(r) PROVE LifeInv'
  <2>1. CASE LoadKeys(r) \/ WriteKeys(r) \/ WriteKeysFails(r) \/ DryRun(r)
    BY <2>1, KeysStep
  <2>2. CASE DeployRun(r)
    BY <2>2, DeployRunStep
  <2>3. CASE SmokeDeploy(r)
    BY <2>3, SmokeDeployStep
  <2>4. CASE SmokeAction(r)
    BY <2>4, SmokeActionStep
  <2>5. CASE SmokeRevoke(r)
    BY <2>5, SmokeRevokeStep
  <2>6. CASE SmokeDryBuild(r)
    BY <2>6, DryBuildStep
  <2>7. CASE BonsaiDeploy(r)
    BY <2>7, BonsaiDeployStep
  <2>8. CASE BonsaiAction(r)
    BY <2>8, BonsaiActionStep
  <2>9. CASE BonsaiRevoke(r)
    BY <2>9, BonsaiRevokeStep
  <2>10. CASE Send(r)
    <3>1. PICK x : x = IF NoWait(r) THEN "done" ELSE "wait"
      OBVIOUS
    <3>2. Accept(r, x)
      BY <2>10, <3>1 DEF Send
    <3> QED BY <3>1, <3>2, AcceptStep
  <2>11. CASE SendLost(r)
    BY <2>11, AcceptStep DEF SendLost
  <2>12. CASE SendRefused(r) \/ GiveUp(r)
    BY <2>12, FailStep DEF SendRefused, GiveUp
  <2>13. CASE Confirmed(r)
    BY <2>13, ConfirmedStep
  <2> QED BY <1>3, <2>1, <2>2, <2>3, <2>4, <2>5, <2>6, <2>7, <2>8, <2>9, <2>10, <2>11, <2>12, <2>13 DEF Step
<1>4. ASSUME NEW r \in Runs, Breaks(r) PROVE LifeInv'
  BY <1>4, FailStep DEF Breaks
<1>5. CASE Ended
  BY <1>1, <1>5 DEF Ended
<1> QED BY <1>1, <1>2, <1>3, <1>4, <1>5 DEF Next

(* The invariant holds of every behaviour of the scripts.                   *)
THEOREM LifecycleInvariant == Spec => []LifeInv
PROOF
<1>1. Init => LifeInv
  BY LifeInit
<1> QED BY <1>1, LifeStep, PTL DEF Spec

-----------------------------------------------------------------------------
(* What a lifecycle leaves behind is read off Closed.                       *)
LEMMA ClosedIsRevoked ==
  ASSUME NEW h \in Seq(TxRec), PastOK(h), NEW r, NEW l, Closed(h, r, l)
  PROVE  \E d, v \in By(h, r) :
           /\ h[d].op = "deploy" /\ h[v].op = "revoke" /\ v = l
           /\ \A t \in By(h, r) : h[t].outs[1].type = "state" => <<t, 0>> \in UNION {h[u].ins : u \in 1..Len(h)}
           /\ Cardinality(By(h, r)) \in 2..3
PROOF
<1>1. \A t \in By(h, r) : t \in 2..Len(h) /\ t \in 1..Len(h) /\ Shaped(h[t])
  BY DEF By, PastOK
<1>2. l \in By(h, r) /\ h[l].op = "revoke"
  BY DEF Closed
<1>3. h[l].outs[1].type # "state"
  BY <1>1, <1>2 DEF Shaped, P2PKH
<1>4. PICK d \in By(h, r) :
        /\ h[d].op = "deploy"
        /\ \/ By(h, r) = {d, l} /\ <<d, 0>> \in h[l].ins
           \/ \E a \in By(h, r) : /\ By(h, r) = {d, a, l} /\ a # d /\ h[a].op = "action"
                                  /\ <<d, 0>> \in h[a].ins /\ <<a, 0>> \in h[l].ins
  BY DEF Closed
<1>5. d # l
  BY <1>2, <1>4
<1> DEFINE Gone(t) == <<t, 0>> \in UNION {h[u].ins : u \in 1..Len(h)}
<1>6. (\A t \in By(h, r) : t # l => Gone(t)) /\ Cardinality(By(h, r)) \in 2..3
  <2>1. CASE By(h, r) = {d, l} /\ <<d, 0>> \in h[l].ins
    <3>1. Gone(d)
      BY <1>1, <1>2, <2>1
    <3>2. Cardinality({d, l}) = 2
      <4>1. IsFiniteSet({d}) /\ Cardinality({d}) = 1
        BY FS_Singleton
      <4>2. {d, l} = {d} \cup {l} /\ l \notin {d}
        BY <1>5
      <4>3. Cardinality({d} \cup {l}) = Cardinality({d}) + 1
        BY <4>1, <4>2, FS_AddElement
      <4> QED BY <4>1, <4>2, <4>3
    <3> HIDE DEF Gone
    <3> QED BY <2>1, <3>1, <3>2
  <2>2. ASSUME NEW a \in By(h, r), By(h, r) = {d, a, l}, a # d, h[a].op = "action",
               <<d, 0>> \in h[a].ins, <<a, 0>> \in h[l].ins
        PROVE  (\A t \in By(h, r) : t # l => Gone(t)) /\ Cardinality(By(h, r)) \in 2..3
    <3>1. Gone(d) /\ Gone(a)
      BY <1>1, <1>2, <2>2
    <3>2. Cardinality({d, a, l}) = 3
      <4>1. IsFiniteSet({d}) /\ Cardinality({d}) = 1
        BY FS_Singleton
      <4>2. {d, a} = {d} \cup {a} /\ a \notin {d} /\ {d, a, l} = {d, a} \cup {l} /\ l \notin {d, a}
        BY <1>2, <1>5, <2>2
      <4>3. IsFiniteSet({d} \cup {a}) /\ Cardinality({d} \cup {a}) = Cardinality({d}) + 1
        BY <4>1, <4>2, FS_AddElement
      <4>4. PICK A : A = {d, a}
        OBVIOUS
      <4>5. IsFiniteSet(A) /\ Cardinality(A) = 2
        BY <4>1, <4>2, <4>3, <4>4
      <4>6. Cardinality(A \cup {l}) = Cardinality(A) + 1
        BY <4>2, <4>4, <4>5, FS_AddElement
      <4>7. {d, a, l} = A \cup {l}
        BY <4>4
      <4>8. PICK B : B = A \cup {l}
        OBVIOUS
      <4>9. Cardinality(B) = 3
        BY <4>5, <4>6, <4>8
      <4>10. {d, a, l} = B
        BY <4>7, <4>8
      <4> QED BY <4>9, <4>10
    <3> HIDE DEF Gone
    <3> QED BY <2>2, <3>1, <3>2
  <2> QED BY <1>4, <2>1, <2>2
<1> HIDE DEF Gone
<1>7. \A t \in By(h, r) : h[t].outs[1].type = "state" => Gone(t)
  BY <1>3, <1>6
<1>8. /\ h[d].op = "deploy" /\ h[l].op = "revoke" /\ l = l
      /\ \A t \in By(h, r) : h[t].outs[1].type = "state" => Gone(t)
      /\ Cardinality(By(h, r)) \in 2..3
  BY <1>2, <1>4, <1>6, <1>7
<1> QED BY <1>2, <1>8 DEF Gone

(* Every satoshi is accounted for, in what the node took and in what was    *)
(* only built (the fee arithmetic of the three scripts), for any coins, any *)
(* script length, any number of runs.                                       *)
THEOREM LifecycleValueIsAccounted == Spec => []ValueIsAccounted
PROOF
<1>1. LifeInv => ValueIsAccounted
  <2> SUFFICES ASSUME LifeInv PROVE ValueIsAccounted
    OBVIOUS
  <2>1. ASSUME NEW t \in 2..Len(txs)
        PROVE  /\ FeeAdds(txs[t], MapThenSumSet(LAMBDA o : Out(o).sats, txs[t].ins))
               /\ \A u \in 2..(t - 1) : txs[t].ins \cap txs[u].ins = {}
    <3>1. Pays(txs, txs[t]) /\ \A u \in 2..(t - 1) : txs[t].ins \cap txs[u].ins = {}
      BY DEF LifeInv, PastOK
    <3>2. MapThenSumSet(LAMBDA o : Out(o).sats, txs[t].ins) = Worth(txs, txs[t].ins)
      BY DEF Worth, At, Out
    <3> QED BY <3>1, <3>2 DEF Pays
  <2>2. ASSUME NEW r \in Runs, NEW i \in 1..Len(built[r])
        PROVE  FeeAdds(built[r][i], MapThenSumSet(LAMBDA o : BuiltOut(built[r], o).sats, built[r][i].ins))
    <3>1. FeeAdds(built[r][i], DryWorth(txs, built[r], built[r][i].ins))
      BY DEF LifeInv, BuiltOK, DryOK
    <3>2. MapThenSumSet(LAMBDA o : BuiltOut(built[r], o).sats, built[r][i].ins) = DryWorth(txs, built[r], built[r][i].ins)
      BY DEF DryWorth, DryAt, BuiltOut, At, Out
    <3> QED BY <3>1, <3>2
  <2> QED BY <2>1, <2>2 DEF ValueIsAccounted
<1> QED BY <1>1, LifecycleInvariant, PTL

(* A lifecycle that reports success has left nothing alive, whatever the    *)
(* runs beside it, the node and the indexes do.                             *)
THEOREM LifecycleCompleteMeansRevoked == Spec => []CompleteMeansRevoked
PROOF
<1>1. LifeInv => CompleteMeansRevoked
  <2> SUFFICES ASSUME LifeInv, NEW r \in Runs, pc[r] = "done", Script[r] # "deploy", built[r] = <<>>
               PROVE  \E d, v \in Mine_of(r) :
                        /\ txs[d].op = "deploy" /\ txs[v].op = "revoke" /\ v = last[r]
                        /\ \A t \in Mine_of(r) : txs[t].outs[1].type = "state" => <<t, 0>> \in SpentBy(Len(txs))
                        /\ Cardinality(Mine_of(r)) \in 2..3
    BY DEF CompleteMeansRevoked
  <2>1. Closed(txs, r, last[r]) /\ txs \in Seq(TxRec) /\ PastOK(txs)
    BY DEF LifeInv, DoneOK, LifeTypeOK
  <2>2. By(txs, r) = Mine_of(r) /\ UNION {txs[u].ins : u \in 1..Len(txs)} = SpentBy(Len(txs))
    BY DEF By, Mine_of, SpentBy
  <2> QED BY <2>1, <2>2, ClosedIsRevoked
<1> QED BY <1>1, LifecycleInvariant, PTL

(* A step adds what one run held, or nothing.                               *)
LEMMA OneAtATime ==
  ASSUME [Next]_vars PROVE txs' = txs \/ \E r \in Runs : pc[r] = "send" /\ txs' = Append(txs, pend[r])
PROOF
<1>1. CASE UNCHANGED vars \/ Mine \/ Index \/ List \/ Ended
  BY <1>1 DEF vars, Mine, Index, List, Lag, Ended
<1>2. ASSUME NEW r \in Runs, NEW C, Ready(r, C) PROVE txs' = txs
  BY <1>2 DEF Ready, Fail
<1>3. ASSUME NEW r \in Runs, Step(r) \/ Breaks(r)
      PROVE  txs' = txs \/ (pc[r] = "send" /\ txs' = Append(txs, pend[r]))
  <2>1. CASE LoadKeys(r) \/ WriteKeys(r) \/ WriteKeysFails(r) \/ DryRun(r) \/ Confirmed(r) \/ SmokeDryBuild(r)
    BY <2>1 DEF LoadKeys, WriteKeys, WriteKeysFails, DryRun, Confirmed, SmokeDryBuild
  <2>2. CASE DeployRun(r) \/ SmokeDeploy(r) \/ SmokeAction(r) \/ SmokeRevoke(r)
    BY <1>2, <2>2 DEF DeployRun, SmokeDeploy, SmokeAction, SmokeRevoke
  <2>3. CASE BonsaiDeploy(r) \/ BonsaiAction(r) \/ BonsaiRevoke(r)
    BY <1>2, <2>3 DEF BonsaiDeploy, BonsaiAction, BonsaiRevoke
  <2>4. CASE Send(r) \/ SendLost(r)
    BY <2>4 DEF Send, SendLost, Accept
  <2>5. CASE SendRefused(r) \/ GiveUp(r) \/ Breaks(r)
    BY <2>5 DEF SendRefused, GiveUp, Breaks, Fail
  <2> QED BY <1>3, <2>1, <2>2, <2>3, <2>4, <2>5 DEF Step
<1> QED BY <1>1, <1>3 DEF Next

(* No transaction is added on top of an unconfirmed identity output         *)
(* ("wait for a CONFIRMED parent before the next step").                    *)
THEOREM LifecycleParentConfirmed == Spec => ParentConfirmed
PROOF
<1>1. LifeInv /\ [Next]_vars =>
        [\A t \in Len(txs) + 1..Len(txs') :
           \A o \in txs'[t].ins : Out(o).type = "state" => o[1] <= mined]_vars
  <2> SUFFICES ASSUME LifeInv, [Next]_vars, NEW t \in Len(txs) + 1..Len(txs'), NEW o \in txs'[t].ins,
                      Out(o).type = "state"
               PROVE  o[1] <= mined
    OBVIOUS
  <2>1. txs \in Seq(TxRec) /\ Len(txs) \in Nat
    BY DEF LifeInv, LifeTypeOK
  <2>2. txs' # txs
    BY <2>1
  <2>3. PICK r \in Runs : pc[r] = "send" /\ txs' = Append(txs, pend[r])
    BY <2>2, OneAtATime
  <2>4. Stage(txs, mined, r, "send", last[r], pend[r])
    BY <2>3 DEF LifeInv, StageOK
  <2>5. Sound(txs, r, last[r], pend[r]) /\ (pend[r].op \in {"action", "revoke"} => last[r] <= mined)
    BY <2>4 DEF Stage
  <2>6. pend[r] \in TxRec /\ pend[r].op \in {"deploy", "action", "revoke"}
    BY <2>5 DEF Sound, Shaped
  <2>7. PICK g : g = txs'
    OBVIOUS
  <2>8. Len(g) = Len(txs) + 1 /\ g[Len(txs) + 1] = pend[r]
    BY <2>1, <2>3, <2>6, <2>7, Growth
  <2>9. o \in pend[r].ins
    BY <2>1, <2>7, <2>8
  <2>10. At(txs, o).type # "p2pkh"
    BY DEF At, Out
  <2>11. o = <<last[r], 0>> /\ pend[r].op # "deploy"
    BY <2>5, <2>9, <2>10 DEF Sound
  <2> QED BY <2>5, <2>6, <2>11
<1> QED BY <1>1, LifecycleInvariant, PTL DEF Spec, ParentConfirmed
=============================================================================
