--------------------------- MODULE ChainFunding ---------------------------
(***************************************************************************)
(* How the scripts choose coins and fees: the ranking of WhatsOnChain      *)
(* listings (chainSources/utxo_select.c), the send-time fee window         *)
(* (chainSources/bsv_fees.c) and the greedy choice of funding outputs      *)
(* (scripts/chain_broadcast.c).  A coin is a record with its outpoint,     *)
(* its value in satoshis and whether it is confirmed.                      *)
(***************************************************************************)
EXTENDS Integers, FiniteSets, SequencesExt

CONSTANTS MAX_MONEY      \* BONSAI_MAX_MONEY

ASSUME FundingConstants == MAX_MONEY \in Nat

FEE_WINDOW_MULTIPLIER == 3
FEE_DUST_FLOOR == 546

Ceil(n, d) == (n + d - 1) \div d

(* ceil((size / 1000.0) * rate): the division comes first, so a whole       *)
(* product may come out just above itself and be rounded up.                *)
fee_for_size(size, rate) ==
  {Ceil(size * rate, 1000)}
  \cup IF (size * rate) % 1000 = 0 /\ size % 1000 # 0 THEN {Ceil(size * rate, 1000) + 1} ELSE {}

(* min, recommended and max fee of a signed size; 1.3 is not exact either.  *)
send_time_fee_window(size, rate) ==
  UNION { { [min |-> m, max |-> m * FEE_WINDOW_MULTIPLIER,
             recommended |-> LET lower == IF m > b THEN m ELSE b IN
                             IF lower < m * FEE_WINDOW_MULTIPLIER THEN lower ELSE m * FEE_WINDOW_MULTIPLIER] :
            b \in {Ceil(13 * m, 10)} \cup IF m % 10 = 0 THEN {Ceil(13 * m, 10) + 1} ELSE {} } :
          m \in fee_for_size(size, rate) }

recommended(size, rate) == {w.recommended : w \in send_time_fee_window(size, rate)}

-----------------------------------------------------------------------------
(* Confirmed first, then by descending value; the sort is stable and the    *)
(* listing is ordered by outpoint.                                          *)
ListedBefore(a, b) ==
  \/ a.outpoint[1] < b.outpoint[1]
  \/ a.outpoint[1] = b.outpoint[1] /\ a.outpoint[2] < b.outpoint[2]
cmp_funding(a, b) ==
  IF a.confirmed # b.confirmed THEN a.confirmed
  ELSE IF a.sats # b.sats THEN a.sats > b.sats
  ELSE ListedBefore(a, b)

(* Nothing above the money supply, below min_sats or, if asked, unconfirmed.*)
rank_funding_utxos(coins, min_sats, confirmed_only) ==
  LET usable == {c \in coins : /\ c.sats <= MAX_MONEY /\ c.sats >= min_sats
                               /\ confirmed_only => c.confirmed} IN
  [i \in 1..Cardinality(usable) |->
     CHOOSE c \in usable : Cardinality({d \in usable : cmp_funding(d, c)}) = i - 1]

funding_utxos_total(s) == FoldSeq(LAMBDA c, sum : c.sats + sum, 0, s)

(* The smallest ranked prefix that covers "need": a set holding the prefix, *)
(* or nothing when the coins do not suffice or pass the money supply.       *)
select_funding(coins, need) ==
  LET ranked == rank_funding_utxos(coins, 0, FALSE) IN
  {p \in Prefixes(ranked) :
     /\ funding_utxos_total(p) >= need
     /\ funding_utxos_total(p) <= MAX_MONEY
     /\ funding_utxos_total(Front(p)) < need}

(* The first ranked coin the spent index does not report as spent.          *)
pick_funding(coins, spent) ==
  LET ranked == rank_funding_utxos(coins, 0, FALSE) IN
  {<<ranked[i]>> : i \in {j \in 1..Len(ranked) :
                            /\ ranked[j].outpoint \notin spent
                            /\ \A k \in 1..(j - 1) : ranked[k].outpoint \in spent}}

-----------------------------------------------------------------------------
(* interpret_tx_status: what the two endpoints together say.                *)
interpret_tx_status(raw_present, confirmations) ==
  IF confirmations >= 1 THEN "CONFIRMED" ELSE IF raw_present THEN "MEMPOOL" ELSE "UNKNOWN"
=============================================================================
