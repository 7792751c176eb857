--------------------------- MODULE ReleasesProofs ---------------------------
(***************************************************************************)
(* Theorems about the ARP-1 release thread, the attestor's bond and the    *)
(* consumer's gate, for any artifacts, attestors, quorums, delays, amounts *)
(* and bounds.                                                             *)
(*                                                                         *)
(* The argument: the history of the thread only grows (Grown), so what was *)
(* true of an announcement when the gate asked stays true, and the state   *)
(* in the unspent output is what the history since the last announcement   *)
(* makes of it (ActivationsAreAnnounced with Counted).  A quorum of        *)
(* distinct attestors has an honest one in it, who signs only what was     *)
(* announced.                                                              *)
(***************************************************************************)
EXTENDS Releases, FiniteSetTheorems, SequenceTheorems, TLAPS

Hashes == Artifacts \cup {ZERO}
PubStates == [pendingBundleHash : Hashes, pendingFileSetRoot : Hashes,
              pendingAnnounceTime : Nat, releaseCount : Nat]
SpendOps == {"announce", "activate", "cancel", "invalidate", "retire"}
Spends == [op : SpendOps, of : Hashes \cup Digests, count : Nat, lt : Nat, height : Nat]

ReleasesTypeOK ==
  /\ tip \in Nat /\ txs \in Seq(Spends) /\ (Alive => pub \in PubStates)
  /\ \A s \in sigs : s.by \in Attestors
  /\ bond = [status |-> bond.status, sats |-> bond.sats, staked |-> bond.staked, outs |-> bond.outs]
  /\ bond.status \in {"none", "live", "slashed", "withdrawn"}
  /\ bond.sats \in Nat /\ bond.staked \in Nat

(* The history so far is kept, but for the height of what was not mined.    *)
Grown ==
  /\ Len(txs) <= Len(txs') /\ tip <= tip' /\ sigs \subseteq sigs'
  /\ \A i \in 1..Len(txs) :
       /\ txs'[i].op = txs[i].op /\ txs'[i].of = txs[i].of /\ txs'[i].lt = txs[i].lt
       /\ txs'[i].count = txs[i].count
       /\ txs[i].height > 0 => txs'[i].height = txs[i].height

(* The thread is spent once more.                                           *)
Adds1(op, of, lt) ==
  /\ txs' = Append(txs, [op |-> op, of |-> of, count |-> pub.releaseCount, lt |-> lt, height |-> 0])
  /\ UNCHANGED <<tip, sigs, bond, gate>>

(* What the contract allows, in terms of the state it leaves.               *)
SpendsPub(op, of, lt) ==
  \/ /\ op = "announce" /\ of \in Artifacts /\ pub.pendingBundleHash = ZERO
     /\ pub' = [pendingBundleHash |-> of, pendingFileSetRoot |-> of, pendingAnnounceTime |-> lt,
                releaseCount |-> pub.releaseCount]
  \/ /\ op = "activate" /\ of \in Digests /\ pub.pendingBundleHash # ZERO
     /\ lt >= pub.pendingAnnounceTime + delaySeconds
     /\ \E used \in SUBSET Attestors : (\A a \in used : Signed(a, of)) /\ Cardinality(used) >= quorum
     /\ pub' = [pendingBundleHash |-> ZERO, pendingFileSetRoot |-> ZERO, pendingAnnounceTime |-> 0,
                releaseCount |-> pub.releaseCount + 1]
  \/ /\ op = "cancel" /\ of \in Hashes /\ pub.pendingBundleHash # ZERO
     /\ pub' = [pendingBundleHash |-> ZERO, pendingFileSetRoot |-> ZERO, pendingAnnounceTime |-> 0,
                releaseCount |-> pub.releaseCount]
  \/ op = "invalidate" /\ of \in Digests /\ pub' = pub
  \/ op = "retire" /\ of = ZERO /\ pub' = Retired

ThreadStep == Announce \/ Activate \/ Cancel \/ Invalidate \/ Retire

-----------------------------------------------------------------------------
(* The four states a publisher's thread goes through, field by field.       *)
LEMMA PubForms ==
  ASSUME NEW s \in PubStates, NEW b, NEW r, NEW now
  PROVE  /\ announced(s, b, r, now) = [pendingBundleHash |-> b, pendingFileSetRoot |-> r,
                                       pendingAnnounceTime |-> now, releaseCount |-> s.releaseCount]
         /\ cleared(s) = [pendingBundleHash |-> ZERO, pendingFileSetRoot |-> ZERO,
                          pendingAnnounceTime |-> 0, releaseCount |-> s.releaseCount]
         /\ activated(s) = [pendingBundleHash |-> ZERO, pendingFileSetRoot |-> ZERO,
                            pendingAnnounceTime |-> 0, releaseCount |-> s.releaseCount + 1]
         /\ staged(s, now) = [pendingBundleHash |-> s.pendingBundleHash,
                              pendingFileSetRoot |-> s.pendingFileSetRoot,
                              pendingAnnounceTime |-> now, releaseCount |-> s.releaseCount]
  <1>1. s = [pendingBundleHash |-> s.pendingBundleHash, pendingFileSetRoot |-> s.pendingFileSetRoot,
             pendingAnnounceTime |-> s.pendingAnnounceTime, releaseCount |-> s.releaseCount]
    BY DEF PubStates
  <1>2. ASSUME NEW c, NEW d, NEW e
        PROVE  announced(s, c, d, e) = [pendingBundleHash |-> c, pendingFileSetRoot |-> d,
                                        pendingAnnounceTime |-> e, releaseCount |-> s.releaseCount]
    <2>1. PICK y : y = [s EXCEPT !.pendingBundleHash = c]
      OBVIOUS
    <2>2. y = [pendingBundleHash |-> c, pendingFileSetRoot |-> s.pendingFileSetRoot,
               pendingAnnounceTime |-> s.pendingAnnounceTime, releaseCount |-> s.releaseCount]
      BY <2>1 DEF PubStates
    <2>3. PICK z : z = [y EXCEPT !.pendingFileSetRoot = d]
      OBVIOUS
    <2>4. z = [pendingBundleHash |-> c, pendingFileSetRoot |-> d,
               pendingAnnounceTime |-> s.pendingAnnounceTime, releaseCount |-> s.releaseCount]
      BY <2>2, <2>3
    <2>5. [z EXCEPT !.pendingAnnounceTime = e] =
            [pendingBundleHash |-> c, pendingFileSetRoot |-> d,
             pendingAnnounceTime |-> e, releaseCount |-> s.releaseCount]
      BY <2>4
    <2>6. [[y EXCEPT !.pendingFileSetRoot = d] EXCEPT !.pendingAnnounceTime = e] =
            [pendingBundleHash |-> c, pendingFileSetRoot |-> d,
             pendingAnnounceTime |-> e, releaseCount |-> s.releaseCount]
      BY <2>3, <2>5, Zenon
    <2> QED
      BY <2>1, <2>6, Zenon DEF announced
  <1>3. cleared(s) = [pendingBundleHash |-> ZERO, pendingFileSetRoot |-> ZERO,
                      pendingAnnounceTime |-> 0, releaseCount |-> s.releaseCount]
    BY <1>2 DEF cleared
  <1>4. activated(s) = [pendingBundleHash |-> ZERO, pendingFileSetRoot |-> ZERO,
                        pendingAnnounceTime |-> 0, releaseCount |-> s.releaseCount + 1]
    BY <1>3 DEF activated
  <1>5. staged(s, now) = [pendingBundleHash |-> s.pendingBundleHash,
                          pendingFileSetRoot |-> s.pendingFileSetRoot,
                          pendingAnnounceTime |-> now, releaseCount |-> s.releaseCount]
    BY <1>1 DEF staged
  <1> QED
    BY <1>2, <1>3, <1>4, <1>5

(* The same for a state into which a locktime was staged.                   *)
LEMMA StagedForms ==
  ASSUME NEW s \in PubStates, NEW now \in Nat
  PROVE  /\ staged(s, now) \in PubStates
         /\ cleared(staged(s, now)) = cleared(s) /\ activated(staged(s, now)) = activated(s)
         /\ staged(s, now).pendingAnnounceTime = now
         /\ staged(s, now).pendingBundleHash = s.pendingBundleHash
         /\ staged(s, now).releaseCount = s.releaseCount
  <1>1. staged(s, now) = [pendingBundleHash |-> s.pendingBundleHash,
                          pendingFileSetRoot |-> s.pendingFileSetRoot,
                          pendingAnnounceTime |-> now, releaseCount |-> s.releaseCount]
    BY PubForms
  <1>2. staged(s, now) \in PubStates
    BY <1>1 DEF PubStates
  <1>3. staged(s, now).releaseCount = s.releaseCount
    BY <1>1
  <1>4. cleared(staged(s, now)) = cleared(s) /\ activated(staged(s, now)) = activated(s)
    BY <1>2, <1>3, PubForms
  <1> QED
    BY <1>1, <1>2, <1>3, <1>4

(* A step of the thread is one of these.                                    *)
LEMMA ThreadSteps ==
  ASSUME ReleasesTypeOK, ThreadStep
  PROVE  Alive /\ \E op \in SpendOps, of \in Hashes \cup Digests, lt \in Nat :
                    Adds1(op, of, lt) /\ SpendsPub(op, of, lt)
  <1> DEFINE Goal == \E op \in SpendOps, of \in Hashes \cup Digests, lt \in Nat :
                       Adds1(op, of, lt) /\ SpendsPub(op, of, lt)
  <1>1. Alive /\ pub \in PubStates /\ \A lt \in 1..tip : lt \in Nat
    BY DEF ReleasesTypeOK, ThreadStep, Announce, Activate, Cancel, Invalidate, Retire
  <1>2. ASSUME NEW op, NEW of, NEW lt, NEW built, NEW demanded, Spend(op, of, lt, built, demanded)
        PROVE  /\ Adds1(op, of, lt) /\ built \in demanded
               /\ pub' = IF built[1].type = "state" THEN built[1].state ELSE Retired
    BY <1>2 DEF Spend, Adds1
  <1>3. ASSUME NEW s, NEW r PROVE state_and_receipt_tx(s, 1, r)[1].type = "state"
                                  /\ state_and_receipt_tx(s, 1, r)[1].state = s
    BY DEF state_and_receipt_tx, State
  <1>4. CASE Announce
    <2>1. PICK a \in Artifacts, lt \in 1..tip :
            Spend("announce", a, lt, build_arp_announce(pub, 1, a, a, lt), announceRelease(pub, 1, a, a, lt))
      BY <1>4 DEF Announce
    <2>2. pub' = announced(pub, a, a, lt) /\ pub.pendingBundleHash = ZERO /\ Adds1("announce", a, lt)
      BY <1>2, <1>3, <2>1 DEF build_arp_announce, announceRelease
    <2>3. SpendsPub("announce", a, lt)
      BY <1>1, <2>2, PubForms DEF SpendsPub
    <2> QED
      BY <1>1, <2>2, <2>3 DEF SpendOps, Hashes
  <1>5. CASE Activate
    <2>1. PICK d \in Digests, used \in SUBSET Attestors, lt \in 1..tip :
            Spend("activate", d, lt, build_arp_activate(staged(pub, lt), 1, d),
                  activateRelease(pub, 1, d, used, {a \in Attestors : Signed(a, d)}, lt))
      BY <1>5 DEF Activate
    <2>2. /\ pub' = activated(staged(pub, lt)) /\ Adds1("activate", d, lt)
          /\ build_arp_activate(staged(pub, lt), 1, d)
               \in activateRelease(pub, 1, d, used, {a \in Attestors : Signed(a, d)}, lt)
      BY <1>2, <1>3, <2>1 DEF build_arp_activate
    <2>3. /\ pub.pendingBundleHash # ZERO /\ lt >= pub.pendingAnnounceTime + delaySeconds
          /\ used \subseteq {a \in Attestors : Signed(a, d)} /\ Cardinality(used) >= quorum
      BY <2>2 DEF activateRelease, check_quorum
    <2>4. \E u \in SUBSET Attestors : (\A a \in u : Signed(a, d)) /\ Cardinality(u) >= quorum
      BY <2>3
    <2>5. pub' = [pendingBundleHash |-> ZERO, pendingFileSetRoot |-> ZERO, pendingAnnounceTime |-> 0,
                  releaseCount |-> pub.releaseCount + 1]
      BY <1>1, <2>2, PubForms, StagedForms
    <2>6. SpendsPub("activate", d, lt)
      BY <2>3, <2>4, <2>5 DEF SpendsPub
    <2> QED
      BY <1>1, <2>2, <2>6 DEF SpendOps
  <1>6. CASE Cancel
    <2>1. PICK lt \in 1..tip :
            Spend("cancel", pub.pendingBundleHash, lt, build_arp_cancel(staged(pub, lt), 1), cancelPending(pub, 1, lt))
      BY <1>6 DEF Cancel
    <2>2. pub' = cleared(staged(pub, lt)) /\ pub.pendingBundleHash # ZERO
          /\ Adds1("cancel", pub.pendingBundleHash, lt)
      BY <1>2, <1>3, <2>1 DEF build_arp_cancel, cancelPending
    <2>3. pub' = [pendingBundleHash |-> ZERO, pendingFileSetRoot |-> ZERO, pendingAnnounceTime |-> 0,
                  releaseCount |-> pub.releaseCount] /\ pub.pendingBundleHash \in Hashes
      <3>1. pub.pendingBundleHash \in Hashes
        BY <1>1 DEF PubStates
      <3> QED
        BY <1>1, <2>2, <3>1, PubForms, StagedForms
    <2>4. SpendsPub("cancel", pub.pendingBundleHash, lt)
      BY <2>2, <2>3 DEF SpendsPub
    <2> QED
      BY <1>1, <2>2, <2>3, <2>4 DEF SpendOps
  <1>7. CASE Invalidate
    <2>0. PICK d \in Digests, lt \in 1..tip :
            \E outs \in invalidateRelease(pub, 1, d, lt) :
              Spend("invalidate", d, lt, outs, invalidateRelease(pub, 1, d, lt))
      BY <1>7 DEF Invalidate
    <2>1. PICK outs \in invalidateRelease(pub, 1, d, lt) :
            Spend("invalidate", d, lt, outs, invalidateRelease(pub, 1, d, lt))
      BY <2>0
    <2>2. outs[1].type = "state" /\ outs[1].state = pub
      BY DEF invalidateRelease, State
    <2>3. SpendsPub("invalidate", d, lt) /\ Adds1("invalidate", d, lt)
      BY <1>2, <2>1, <2>2 DEF SpendsPub
    <2> QED
      BY <1>1, <2>3 DEF SpendOps
  <1>8. CASE Retire
    <2>1. Spend("retire", ZERO, 0, build_arp_retire(1), retire(1))
      BY <1>8 DEF Retire
    <2>2. build_arp_retire(1)[1].type # "state"
      BY DEF build_arp_retire, Pay
    <2>3. SpendsPub("retire", ZERO, 0) /\ Adds1("retire", ZERO, 0)
      BY <1>2, <2>1, <2>2 DEF SpendsPub
    <2> QED
      BY <1>1, <2>3 DEF SpendOps, Hashes
  <1> QED
    BY <1>1, <1>4, <1>5, <1>6, <1>7, <1>8 DEF ThreadStep

(* "recompute the receipts identically to the contracts": the builders make *)
(* exactly what the contract demands, in any state the thread can be in.    *)
LEMMA BuildersFitHere == ReleasesTypeOK => BuildersFit
  <1> SUFFICES ASSUME ReleasesTypeOK, Alive, NEW lt \in 1..tip, NEW a \in Artifacts, NEW d
               PROVE  /\ announceRelease(pub, 1, a, a, lt) \subseteq {build_arp_announce(pub, 1, a, a, lt)}
                      /\ activateRelease(pub, 1, d, Attestors, Attestors, lt)
                           \subseteq {build_arp_activate(staged(pub, lt), 1, d)}
                      /\ cancelPending(pub, 1, lt) \subseteq {build_arp_cancel(staged(pub, lt), 1)}
    BY Zenon DEF BuildersFit
  <1>1. pub \in PubStates /\ lt \in Nat
    BY DEF ReleasesTypeOK
  <1> DEFINE c == staged(pub, lt)
  <1>2. /\ cleared(c) = cleared(pub) /\ activated(c) = activated(pub)
        /\ c.pendingAnnounceTime = lt /\ c.pendingBundleHash = pub.pendingBundleHash
        /\ c.releaseCount = pub.releaseCount
    BY <1>1, StagedForms
  <1> HIDE DEF c
  <1>3. build_arp_activate(c, 1, d) =
          <<State(activated(pub), 1), Data(<<"ACTRCPT", d, pub.releaseCount, lt>>, 0)>>
    BY <1>2 DEF build_arp_activate, state_and_receipt_tx, activate_receipt
  <1>4. build_arp_cancel(c, 1) =
          <<State(cleared(pub), 1), Data(<<"CANCEL", pub.pendingBundleHash, lt>>, 0)>>
    BY <1>2 DEF build_arp_cancel, state_and_receipt_tx, cancel_receipt
  <1>5. build_arp_announce(pub, 1, a, a, lt) =
          <<State(announced(pub, a, a, lt), 1), Data(<<"ANNOUNCE", a, a, pub.releaseCount, lt>>, 0)>>
    BY DEF build_arp_announce, state_and_receipt_tx, announce_receipt
  <1> QED
    BY <1>3, <1>4, <1>5 DEF announceRelease, activateRelease, cancelPending, c

-----------------------------------------------------------------------------
(* A spend puts one transaction behind the history.                         *)
LEMMA SpendGrows ==
  ASSUME ReleasesTypeOK, Alive, NEW op \in SpendOps, NEW of \in Hashes \cup Digests, NEW lt \in Nat,
         Adds1(op, of, lt)
  PROVE  /\ Grown /\ txs' \in Seq(Spends) /\ Len(txs) \in Nat /\ Len(txs') = Len(txs) + 1
         /\ LET new == txs'[Len(txs) + 1] IN
            new.op = op /\ new.of = of /\ new.lt = lt /\ new.count = pub.releaseCount
         /\ \A i \in 1..Len(txs) : txs'[i] = txs[i]
  <1> DEFINE new == [op |-> op, of |-> of, count |-> pub.releaseCount, lt |-> lt, height |-> 0]
  <1>1. pub.releaseCount \in Nat /\ txs \in Seq(Spends) /\ tip \in Nat
    BY DEF ReleasesTypeOK, PubStates
  <1>2. new \in Spends
    BY <1>1 DEF Spends
  <1>3. txs' = Append(txs, new) /\ UNCHANGED <<tip, sigs>>
    BY DEF Adds1
  <1>4. new.op = op /\ new.of = of /\ new.lt = lt /\ new.count = pub.releaseCount
    OBVIOUS
  <1> HIDE DEF new
  <1>5. /\ txs' \in Seq(Spends) /\ Len(txs') = Len(txs) + 1 /\ Len(txs) \in Nat
        /\ txs'[Len(txs) + 1] = new /\ \A i \in 1..Len(txs) : txs'[i] = txs[i]
    BY <1>1, <1>2, <1>3, AppendProperties
  <1>6. Grown
    BY <1>1, <1>3, <1>5 DEF Grown
  <1> QED
    BY <1>4, <1>5, <1>6

(* What a spend of the bond leaves: the outputs the contract demands, and   *)
(* perhaps change after them.                                               *)
LEMMA BondOutputs ==
  ASSUME NEW base, NEW demanded, NEW funding, NEW outs \in BondSpend(base, demanded, funding)
  PROVE  /\ bond.status = "live" /\ base \in demanded
         /\ \A x : base = <<x>> => outs[1] = x
         /\ \A x, y : base = <<x, y>> => outs[1] = x /\ outs[2] = y
  <1>1. bond.status = "live" /\ base \in demanded /\ outs \in update_change_output(base, funding + bond.sats, Fee)
    BY DEF BondSpend
  <1>2. PICK c : outs \in {Append(base, c), base}
    BY <1>1 DEF update_change_output
  <1>3. ASSUME NEW x, base = <<x>> PROVE outs[1] = x
    <2>1. base \in Seq({x, c}) /\ Len(base) = 1 /\ base[1] = x
      BY <1>3
    <2>2. Append(base, c)[1] = x
      BY <2>1, AppendProperties
    <2> QED
      BY <1>2, <2>1, <2>2
  <1>4. ASSUME NEW x, NEW y, base = <<x, y>> PROVE outs[1] = x /\ outs[2] = y
    <2>1. base \in Seq({x, y, c}) /\ Len(base) = 2 /\ base[1] = x /\ base[2] = y
      BY <1>4
    <2>2. Append(base, c)[1] = x /\ Append(base, c)[2] = y
      BY <2>1, AppendProperties
    <2> QED
      BY <1>2, <2>1, <2>2
  <1> QED
    BY <1>1, <1>3, <1>4

(* BondIsAccounted, status by status.                                       *)
BondParts ==
  /\ bond.status \in {"none", "live"} => bond.sats = bond.staked
  /\ bond.status = "withdrawn" => bond.outs[1] = Pay("operator", bond.staked) /\ tip >= unbondNotBefore
  /\ bond.status = "slashed" =>
       /\ bond.outs[1].sats + bond.outs[2].sats = bond.staked
       /\ bond.outs[2].sats - bond.outs[1].sats \in 0..1
       /\ \E a, b \in sigs : a # b /\ a.by = b.by /\ a.seq = b.seq

BondTyped ==
  /\ bond = [status |-> bond.status, sats |-> bond.sats, staked |-> bond.staked, outs |-> bond.outs]
  /\ bond.status \in {"none", "live", "slashed", "withdrawn"}
  /\ bond.sats \in Nat /\ bond.staked \in Nat

(* The parts are the property.                                             *)
LEMMA BondPartsAre == ASSUME BondTyped PROVE BondIsAccounted <=> BondParts
  BY DEF BondTyped, BondIsAccounted, BondParts

(* Every spend of the bond accounts for all of it.                          *)
LEMMA BondSteps ==
  ASSUME ReleasesTypeOK, BondParts, Stake \/ Slash \/ Withdraw
  PROVE  BondTyped' /\ BondParts'
  <1>0. BondTyped /\ tip \in Nat
    BY DEF ReleasesTypeOK, BondTyped
  <1>1. CASE Stake
    <2>1. PICK add \in Adds, extra \in 0..1 :
            \E outs \in BondSpend(build_arp_attestor_stake(bond.sats, add), attestor_stake(bond.sats, add), add + Fee + extra) :
              bond' = [bond EXCEPT !.sats = outs[1].sats, !.staked = @ + add]
      BY <1>1 DEF Stake
    <2>2. PICK outs \in BondSpend(build_arp_attestor_stake(bond.sats, add), attestor_stake(bond.sats, add), add + Fee + extra) :
            bond' = [bond EXCEPT !.sats = outs[1].sats, !.staked = @ + add]
      BY <2>1
    <2>3. bond.status = "live" /\ outs[1] = State("bond", bond.sats + add)
      BY BondOutputs DEF build_arp_attestor_stake
    <2>4. outs[1].sats = bond.sats + add /\ add \in Nat
      BY <2>3, ReleaseConstants DEF State
    <2>5. bond' = [status |-> "live", sats |-> bond.sats + add, staked |-> bond.staked + add,
                   outs |-> bond.outs]
      BY <1>0, <2>2, <2>3, <2>4 DEF BondTyped
    <2>6. bond.sats \in Nat /\ bond.staked \in Nat /\ bond.sats = bond.staked
      BY <1>0, <2>3 DEF BondTyped, BondParts
    <2> QED
      BY <2>4, <2>5, <2>6 DEF BondTyped, BondParts
  <1>2. CASE Slash
    <2>1. PICK a \in sigs, b \in sigs, funding \in 0..Fee :
            \E outs \in BondSpend(build_arp_attestor_slash(bond.sats, "reporter"),
                                  slashEquivocation(a, b, bond.sats, "reporter"), funding) :
              EndBond("slashed", outs)
      BY <1>2 DEF Slash
    <2>2. PICK outs \in BondSpend(build_arp_attestor_slash(bond.sats, "reporter"),
                                  slashEquivocation(a, b, bond.sats, "reporter"), funding) :
            EndBond("slashed", outs)
      BY <2>1
    <2> DEFINE half == bond.sats \div 2
    <2>3. /\ bond.status = "live"
          /\ build_arp_attestor_slash(bond.sats, "reporter") \in slashEquivocation(a, b, bond.sats, "reporter")
          /\ outs[1] = Pay("reporter", half) /\ outs[2] = Data("SLASHED", bond.sats - half)
      BY BondOutputs DEF build_arp_attestor_slash
    <2>4. a # b /\ a.by = b.by /\ a.seq = b.seq
      BY <2>3 DEF slashEquivocation, check_equivocation
    <2>5. bond' = [status |-> "slashed", sats |-> bond.sats, staked |-> bond.staked, outs |-> outs]
      BY <1>0, <2>2 DEF EndBond, BondTyped
    <2>6. bond.sats \in Nat /\ bond.staked = bond.sats
      BY <1>0, <2>3 DEF BondTyped, BondParts
    <2>7. outs[1].sats = half /\ outs[2].sats = bond.sats - half
      BY <2>3 DEF Pay, Data
    <2>8. half \in Nat /\ half + (bond.sats - half) = bond.sats /\ (bond.sats - half) - half \in 0..1
      <3>1. \A n \in Nat : n \div 2 \in Nat /\ n - 2 * (n \div 2) \in 0..1
        OBVIOUS
      <3>2. half \in Nat /\ bond.sats - 2 * half \in 0..1
        BY <2>6, <3>1
      <3> HIDE DEF half
      <3> QED
        BY <2>6, <3>2
    <2>9. sigs' = sigs
      BY <1>2 DEF Slash
    <2> HIDE DEF half
    <2> QED
      BY <2>4, <2>5, <2>6, <2>7, <2>8, <2>9 DEF BondTyped, BondParts
  <1>3. CASE Withdraw
    <2>1. PICK lt \in 1..tip, funding \in 0..Fee :
            \E outs \in BondSpend(build_arp_attestor_withdraw(bond.sats), withdraw(bond.sats, lt), funding) :
              EndBond("withdrawn", outs)
      BY <1>3 DEF Withdraw
    <2>2. PICK outs \in BondSpend(build_arp_attestor_withdraw(bond.sats), withdraw(bond.sats, lt), funding) :
            EndBond("withdrawn", outs)
      BY <2>1
    <2>3. /\ bond.status = "live" /\ outs[1] = Pay("operator", bond.sats)
          /\ build_arp_attestor_withdraw(bond.sats) \in withdraw(bond.sats, lt)
      BY BondOutputs DEF build_arp_attestor_withdraw
    <2>4. tip >= unbondNotBefore
      BY <1>0, <2>3, ArpConstants DEF withdraw
    <2>5. bond' = [status |-> "withdrawn", sats |-> bond.sats, staked |-> bond.staked, outs |-> outs]
      BY <1>0, <2>2 DEF EndBond, BondTyped
    <2>6. bond.sats \in Nat /\ bond.staked = bond.sats
      BY <1>0, <2>3 DEF BondTyped, BondParts
    <2>7. tip' = tip
      BY <1>3 DEF Withdraw
    <2> QED
      BY <2>3, <2>4, <2>5, <2>6, <2>7 DEF BondTyped, BondParts
  <1> QED
    BY <1>1, <1>2, <1>3

(* Mining puts heights on what has none.                                    *)
LEMMA MineGrows ==
  ASSUME ReleasesTypeOK, Mine
  PROVE  txs' \in Seq(Spends) /\ Len(txs') = Len(txs) /\ tip' \in Nat /\ Grown
  <1>1. /\ txs' = [i \in 1..Len(txs) |-> IF txs[i].height = 0 THEN [txs[i] EXCEPT !.height = tip + 1]
                                                              ELSE txs[i]]
        /\ txs \in Seq(Spends) /\ tip \in Nat /\ tip' = tip + 1 /\ sigs' = sigs
    BY DEF Mine, ReleasesTypeOK
  <1>2. ASSUME NEW i \in 1..Len(txs)
        PROVE  /\ txs'[i] \in Spends
               /\ txs'[i].op = txs[i].op /\ txs'[i].of = txs[i].of /\ txs'[i].lt = txs[i].lt
               /\ txs'[i].count = txs[i].count
               /\ txs[i].height > 0 => txs'[i].height = txs[i].height
    <2>1. txs[i] \in Spends
      BY <1>1
    <2>2. txs'[i] = IF txs[i].height = 0 THEN [txs[i] EXCEPT !.height = tip + 1] ELSE txs[i]
      BY <1>1
    <2>3. PICK r : r = [txs[i] EXCEPT !.height = tip + 1]
      OBVIOUS
    <2>4. /\ r \in Spends /\ r.op = txs[i].op /\ r.of = txs[i].of /\ r.lt = txs[i].lt
          /\ r.count = txs[i].count
      <3>1. PICK s \in Spends : s = txs[i]
        BY <2>1
      <3>2. tip + 1 \in Nat
        BY <1>1
      <3>3. r = [op |-> s.op, of |-> s.of, count |-> s.count, lt |-> s.lt, height |-> tip + 1]
        BY <2>3, <3>1 DEF Spends
      <3> QED
        BY <3>1, <3>2, <3>3 DEF Spends
    <2>5. CASE txs[i].height = 0
      BY <2>2, <2>3, <2>4, <2>5
    <2>6. CASE txs[i].height # 0
      BY <2>1, <2>2, <2>6
    <2> QED
      BY <2>5, <2>6
  <1>3. txs' \in Seq(Spends) /\ Len(txs') = Len(txs)
    BY <1>1, <1>2
  <1> QED
    BY <1>1, <1>2, <1>3 DEF Grown

(* The steps of the consumer's gate.                                        *)
GateStep == VerifyBegins \/ LookupAnnounce \/ LookupActivate \/ TipHeight \/ Attestations
            \/ RevocationCheck \/ Installed

(* Nothing else in the release part changes when the gate works.            *)
LEMMA GateLeaves == ASSUME GateStep PROVE GateUnchanged
  BY DEF GateStep, VerifyBegins, LookupAnnounce, LookupActivate, TipHeight, Attestations,
         RevocationCheck, Installed

(* The steps by who takes them.                                             *)
LEMMA ReleasesSteps ==
  ASSUME [ReleasesNext]_releasesVars
  PROVE  \/ ThreadStep \/ Mine \/ Attest \/ (Stake \/ Slash \/ Withdraw)
         \/ GateStep \/ UNCHANGED releasesVars
  BY DEF ReleasesNext, ThreadStep, GateStep

(* Types, the growth of the history and the account of the bond.            *)
LEMMA ReleasesGrow ==
  ASSUME ReleasesTypeOK, BondParts, [ReleasesNext]_releasesVars
  PROVE  ReleasesTypeOK' /\ Grown /\ BondParts'
  <1>0. BondTyped /\ (BondTyped' /\ tip' \in Nat /\ txs' \in Seq(Spends) /\ (Alive' => pub' \in PubStates)
                      /\ (\A s \in sigs' : s.by \in Attestors) => ReleasesTypeOK')
    BY DEF ReleasesTypeOK, BondTyped
  <1>1. ASSUME bond' = bond, Grown, tip' \in Nat PROVE BondTyped' /\ BondParts'
    <2>1. tip \in Nat /\ unbondNotBefore \in Nat /\ tip <= tip' /\ sigs \subseteq sigs'
      BY <1>1, ArpConstants DEF ReleasesTypeOK, Grown
    <2>2. tip >= unbondNotBefore => tip' >= unbondNotBefore
      BY <1>1, <2>1
    <2> QED
      BY <1>0, <1>1, <2>1, <2>2 DEF BondTyped, BondParts
  <1>2. ASSUME UNCHANGED <<tip, txs>>, sigs \subseteq sigs' PROVE Grown
    BY <1>2 DEF ReleasesTypeOK, Grown
  <1>3. CASE ThreadStep
    <2>1. PICK op \in SpendOps, of \in Hashes \cup Digests, lt \in Nat :
            Adds1(op, of, lt) /\ SpendsPub(op, of, lt)
      BY <1>3, ThreadSteps
    <2>2. Alive /\ Grown /\ txs' \in Seq(Spends) /\ UNCHANGED <<tip, sigs, bond>>
      BY <1>3, <2>1, ThreadSteps, SpendGrows DEF Adds1
    <2>3. pub \in PubStates
      BY <2>2 DEF ReleasesTypeOK
    <2>4. Alive' => pub' \in PubStates
      BY <2>1, <2>3 DEF SpendsPub, PubStates, Alive, Hashes
    <2> QED
      BY <1>0, <1>1, <2>2, <2>4 DEF ReleasesTypeOK
  <1>4. CASE Mine
    <2>1. txs' \in Seq(Spends) /\ tip' \in Nat /\ Grown /\ UNCHANGED <<pub, sigs, bond>>
      BY <1>4, MineGrows DEF Mine
    <2> QED
      BY <1>0, <1>1, <2>1 DEF ReleasesTypeOK, Alive
  <1>5. CASE Attest
    <2>1. UNCHANGED <<tip, txs, pub, bond>> /\ sigs \subseteq sigs' /\ \A s \in sigs' : s.by \in Attestors
      BY <1>5 DEF Attest, ReleasesTypeOK
    <2> QED
      BY <1>0, <1>1, <1>2, <2>1 DEF ReleasesTypeOK, Alive
  <1>6. CASE Stake \/ Slash \/ Withdraw
    <2>1. UNCHANGED <<tip, txs, pub, sigs>>
      BY <1>6 DEF Stake, Slash, Withdraw
    <2> QED
      BY <1>0, <1>2, <1>6, <2>1, BondSteps DEF ReleasesTypeOK, Alive
  <1>7. CASE GateStep \/ UNCHANGED releasesVars
    <2>1. UNCHANGED <<tip, txs, pub, sigs, bond>>
      BY <1>7, GateLeaves DEF GateUnchanged, releasesVars
    <2> QED
      BY <1>0, <1>1, <1>2, <2>1 DEF ReleasesTypeOK, Alive
  <1> QED
    BY <1>3, <1>4, <1>5, <1>6, <1>7, ReleasesSteps

(* The bond a behaviour starts with: none, or one that is live.             *)
LEMMA ReleasesStart == ReleasesInit => ReleasesTypeOK /\ BondParts
  <1> SUFFICES ASSUME ReleasesInit PROVE ReleasesTypeOK /\ BondParts
    OBVIOUS
  <1>1. tip \in Nat /\ txs \in Seq(Spends) /\ sigs = {}
    BY DEF ReleasesInit
  <1>2. Alive => pub \in PubStates
    BY DEF ReleasesInit, Alive, publisher_genesis, PubStates, Hashes
  <1>3. CASE bond = NoBond
    BY <1>1, <1>2, <1>3 DEF ReleasesTypeOK, BondParts, NoBond
  <1>4. CASE bond = [NoBond EXCEPT !.status = "live", !.sats = Value, !.staked = Value]
    <2>1. PICK y : y = [NoBond EXCEPT !.status = "live"]
      OBVIOUS
    <2>2. y = [status |-> "live", sats |-> 0, staked |-> 0, outs |-> <<>>]
      BY <2>1 DEF NoBond
    <2>3. PICK z : z = [y EXCEPT !.sats = Value]
      OBVIOUS
    <2>4. z = [status |-> "live", sats |-> Value, staked |-> 0, outs |-> <<>>]
      BY <2>2, <2>3
    <2>5. [z EXCEPT !.staked = Value] = [status |-> "live", sats |-> Value, staked |-> Value, outs |-> <<>>]
      BY <2>4
    <2>6. bond = [z EXCEPT !.staked = Value]
      BY <1>4, <2>1, <2>3, Zenon
    <2>7. bond = [status |-> "live", sats |-> Value, staked |-> Value, outs |-> <<>>]
      BY <2>5, <2>6
    <2> QED
      BY <1>1, <1>2, <2>7, ReleaseConstants DEF ReleasesTypeOK, BondParts
  <1> QED
    BY <1>3, <1>4 DEF ReleasesInit

(* The shape of the state, and the account of the bond in every state.      *)
LEMMA ReleasesShape == ReleasesSpec => [](ReleasesTypeOK /\ BondParts)
  <1>1. ReleasesTypeOK /\ BondParts /\ [ReleasesNext]_releasesVars => (ReleasesTypeOK /\ BondParts)'
    BY ReleasesGrow
  <1> QED
    BY ReleasesStart, <1>1, PTL DEF ReleasesSpec

(* In every state the thread gets into, what the contract would accept at   *)
(* some locktime the C builder makes, output and receipt alike.             *)
THEOREM ReleasesBuildersFit == ReleasesSpec => []BuildersFit
PROOF
<1>1. ReleasesTypeOK /\ BondParts => BuildersFit
  BY BuildersFitHere
<1> QED BY <1>1, ReleasesShape, PTL

(* The bond is paid out once and whole: top-ups included, to the operator   *)
(* after the unbonding floor, or halved between reporter and burn when its  *)
(* attestor signed two digests under one number.                            *)
THEOREM ReleasesBondIsAccounted == ReleasesSpec => []BondIsAccounted
PROOF
<1>1. ReleasesTypeOK /\ BondParts => BondIsAccounted
  BY BondPartsAre DEF ReleasesTypeOK, BondTyped
<1> QED BY <1>1, ReleasesShape, PTL

-----------------------------------------------------------------------------
(* What an honest attestor signed was announced.                            *)
HonestSigned == \A s \in sigs : s.by \in Honest => Announces(s.digest)

(* A call of the gate, and what it found out so far.                        *)
Deep == txs[gate.ann].height > 0 /\ tip - txs[gate.ann].height + 1 >= min_depth
Calls == [pc : {"announce", "activate", "tip", "attest", "revocation", "ok"}, ref : Artifacts, ann : Nat,
          end : Nat, unanswered : BOOLEAN, was_revoked : BOOLEAN]
CallSound ==
  /\ gate \in Calls /\ gate.ann \in 1..Len(txs)
  /\ gate.was_revoked => is_release_revoked(gate.ref)
  /\ gate.pc # "announce" => Deep
  /\ gate.pc \in {"revocation", "ok"} => Announces([artifact |-> gate.ref, ann |-> gate.ann])
  /\ gate.pc = "ok" /\ ~ gate.unanswered => ~ gate.was_revoked
GateSound == gate = Idle \/ CallSound

FewDishonest == Cardinality(Attestors \ Honest) < min_quorum

(* What was announced, invalidated or deep in the chain stays so.           *)
LEMMA GrownKeeps ==
  ASSUME ReleasesTypeOK, Grown, ReleasesTypeOK'
  PROVE  /\ \A d : Announces(d) => Announces(d)'
         /\ \A a : is_release_revoked(a) => is_release_revoked(a)'
         /\ \A t \in 1..Len(txs) : txs[t].height > 0 /\ tip - txs[t].height + 1 >= min_depth =>
              txs'[t].height > 0 /\ tip' - txs'[t].height + 1 >= min_depth
  <1>a. /\ txs \in Seq(Spends) /\ txs' \in Seq(Spends) /\ tip \in Nat /\ tip' \in Nat
        /\ min_depth \in Nat
    BY ReleaseConstants DEF ReleasesTypeOK
  <1>b. Len(txs) <= Len(txs') /\ tip <= tip' /\ Len(txs) \in Nat /\ Len(txs') \in Nat
    BY <1>a DEF Grown
  <1>c. ASSUME NEW t \in 1..Len(txs) PROVE txs[t].height \in Nat /\ t \in 1..Len(txs')
    <2>1. txs[t] \in Spends
      BY <1>a
    <2> QED
      BY <1>b, <2>1 DEF Spends
  <1>1. /\ Len(txs) \in Nat /\ Len(txs') \in Nat /\ Len(txs) <= Len(txs')
        /\ tip \in Nat /\ tip' \in Nat /\ tip <= tip' /\ min_depth \in Nat
        /\ \A t \in 1..Len(txs) : txs[t].height \in Nat /\ t \in 1..Len(txs')
    BY <1>a, <1>b, <1>c
  <1>2. \A i \in 1..Len(txs) : /\ txs'[i].op = txs[i].op /\ txs'[i].of = txs[i].of
                               /\ txs[i].height > 0 => txs'[i].height = txs[i].height
    BY DEF Grown
  <1>3. ASSUME NEW d, Announces(d) PROVE Announces(d)'
    BY <1>1, <1>2, <1>3 DEF Announces
  <1>4. ASSUME NEW a, is_release_revoked(a) PROVE is_release_revoked(a)'
    BY <1>1, <1>2, <1>4 DEF is_release_revoked
  <1> QED
    BY <1>1, <1>2, <1>3, <1>4

(* A quorum of distinct attestors has an honest one among them.             *)
LEMMA QuorumHasHonest ==
  ASSUME FewDishonest, HonestSigned, NEW n \in Nat, NEW atts \in [1..n -> Attestors \cup {Outsider}],
         NEW d, quorum_of(atts, d)
  PROVE  Announces(d)
  <1> SUFFICES ASSUME ~ Announces(d) PROVE FALSE
    OBVIOUS
  <1> DEFINE Rogues == Attestors \ Honest
  <1>1. DOMAIN atts = 1..n /\ Len(atts) = n
    OBVIOUS
  <1>2. \A i \in 1..n : atts[i] \in Attestors /\ Signed(atts[i], d)
    BY <1>1 DEF quorum_of
  <1>3. \A i \in 1..n : atts[i] \in Rogues
    BY <1>2 DEF Signed, HonestSigned
  <1>4. IsFiniteSet(Rogues)
    BY ArpConstants, FS_Subset
  <1>5. IsFiniteSet(1..n) /\ Cardinality(1..n) = n
    BY FS_Interval
  <1>6. n >= min_quorum /\ min_quorum \in Nat /\ Cardinality(Rogues) \in Nat
    BY <1>1, <1>4, FS_CardinalityType, ReleaseConstants DEF quorum_of
  <1>7. Cardinality(Rogues) < Cardinality(1..n)
    BY <1>5, <1>6 DEF FewDishonest
  <1>8. atts \in [1..n -> Rogues]
    BY <1>3
  <1> HIDE DEF Rogues
  <1>9. \E i, j \in 1..n : i # j /\ atts[i] = atts[j]
    BY <1>4, <1>5, <1>7, <1>8, FS_PigeonHole
  <1> QED
    BY <1>1, <1>9 DEF quorum_of

(* Only an attestor signs, and an honest one only what was announced.       *)
LEMMA HonestStep ==
  ASSUME ReleasesTypeOK, Grown, ReleasesTypeOK', HonestSigned, [ReleasesNext]_releasesVars
  PROVE  HonestSigned'
  <1>1. \A d : Announces(d) => Announces(d)'
    BY GrownKeeps
  <1>2. CASE Attest
    <2>1. PICK a \in Attestors, d \in Digests : \E seq \in 1..NextSeq(a) :
            /\ a \in Honest => Announces(d)
            /\ sigs' = sigs \cup {[by |-> a, seq |-> seq, digest |-> d]}
      BY <1>2 DEF Attest
    <2>2. PICK seq : sigs' = sigs \cup {[by |-> a, seq |-> seq, digest |-> d]}
      BY <2>1
    <2>3. UNCHANGED txs
      BY <1>2 DEF Attest
    <2> QED
      BY <1>1, <2>1, <2>2 DEF HonestSigned
  <1>3. CASE sigs' = sigs
    BY <1>1, <1>3 DEF HonestSigned
  <1>4. Attest \/ sigs' = sigs
    <2>1. ThreadStep => sigs' = sigs
      BY DEF ThreadStep, Announce, Activate, Cancel, Invalidate, Retire, Spend
    <2>2. Mine \/ Stake \/ Slash \/ Withdraw \/ UNCHANGED releasesVars => sigs' = sigs
      BY DEF Mine, Stake, Slash, Withdraw, releasesVars
    <2>3. GateStep => sigs' = sigs
      BY GateLeaves DEF GateUnchanged
    <2> QED
      BY <2>1, <2>2, <2>3, ReleasesSteps
  <1> QED
    BY <1>2, <1>3, <1>4

(* A call in its fields.                                                    *)
LEMMA CallForm ==
  ASSUME gate \in Calls
  PROVE  /\ gate = [pc |-> gate.pc, ref |-> gate.ref, ann |-> gate.ann, end |-> gate.end,
                    unanswered |-> gate.unanswered, was_revoked |-> gate.was_revoked]
         /\ \A p : [gate EXCEPT !.pc = p] =
              [pc |-> p, ref |-> gate.ref, ann |-> gate.ann, end |-> gate.end,
               unanswered |-> gate.unanswered, was_revoked |-> gate.was_revoked]
         /\ \A p : [gate EXCEPT !.pc = p, !.unanswered = TRUE] =
              [pc |-> p, ref |-> gate.ref, ann |-> gate.ann, end |-> gate.end,
               unanswered |-> TRUE, was_revoked |-> gate.was_revoked]
         /\ \A p, e : [gate EXCEPT !.pc = p, !.end = e] =
              [pc |-> p, ref |-> gate.ref, ann |-> gate.ann, end |-> e,
               unanswered |-> gate.unanswered, was_revoked |-> gate.was_revoked]
  <1>1. gate = [pc |-> gate.pc, ref |-> gate.ref, ann |-> gate.ann, end |-> gate.end,
                unanswered |-> gate.unanswered, was_revoked |-> gate.was_revoked]
    BY DEF Calls
  <1>2. ASSUME NEW p
        PROVE [gate EXCEPT !.pc = p] =
              [pc |-> p, ref |-> gate.ref, ann |-> gate.ann, end |-> gate.end,
               unanswered |-> gate.unanswered, was_revoked |-> gate.was_revoked]
    BY DEF Calls
  <1>3. ASSUME NEW p, NEW u
        PROVE [gate EXCEPT !.pc = p, !.unanswered = u] =
              [pc |-> p, ref |-> gate.ref, ann |-> gate.ann, end |-> gate.end,
               unanswered |-> u, was_revoked |-> gate.was_revoked]
    <2>1. PICK y : y = [gate EXCEPT !.pc = p]
      OBVIOUS
    <2>y. y = [pc |-> p, ref |-> gate.ref, ann |-> gate.ann, end |-> gate.end,
               unanswered |-> gate.unanswered, was_revoked |-> gate.was_revoked]
      BY <1>2, <2>1
    <2>2. [y EXCEPT !.unanswered = u] =
              [pc |-> p, ref |-> gate.ref, ann |-> gate.ann, end |-> gate.end,
               unanswered |-> u, was_revoked |-> gate.was_revoked]
      BY <2>y
    <2> QED
      BY <2>1, <2>2, Zenon
  <1>4. ASSUME NEW p, NEW e
        PROVE [gate EXCEPT !.pc = p, !.end = e] =
              [pc |-> p, ref |-> gate.ref, ann |-> gate.ann, end |-> e,
               unanswered |-> gate.unanswered, was_revoked |-> gate.was_revoked]
    <2>1. PICK y : y = [gate EXCEPT !.pc = p]
      OBVIOUS
    <2>y. y = [pc |-> p, ref |-> gate.ref, ann |-> gate.ann, end |-> gate.end,
               unanswered |-> gate.unanswered, was_revoked |-> gate.was_revoked]
      BY <1>2, <2>1
    <2>2. [y EXCEPT !.end = e] =
              [pc |-> p, ref |-> gate.ref, ann |-> gate.ann, end |-> e,
               unanswered |-> gate.unanswered, was_revoked |-> gate.was_revoked]
      BY <2>y
    <2> QED
      BY <2>1, <2>2, Zenon
  <1> QED
    BY <1>1, <1>2, <1>3, <1>4, Zenon

(* What the gate found out is not undone by what the others do.             *)
LEMMA CallKept ==
  ASSUME ReleasesTypeOK, Grown, ReleasesTypeOK', GateSound, gate' = gate
  PROVE  GateSound'
  <1>1. CASE gate = Idle
    BY <1>1 DEF GateSound, Idle
  <1>2. CASE CallSound
    <2>1. gate.ann \in 1..Len(txs) /\ Len(txs) <= Len(txs') /\ Len(txs) \in Nat /\ Len(txs') \in Nat
      BY <1>2 DEF CallSound, Grown, ReleasesTypeOK
    <2>2. gate'.ann \in 1..Len(txs')
      BY <2>1
    <2>3. Deep => Deep'
      BY <2>1, GrownKeeps DEF Deep
    <2>4. is_release_revoked(gate.ref) => is_release_revoked(gate.ref)'
      <3>1. PICK a : a = gate.ref
        OBVIOUS
      <3>2. is_release_revoked(a) => is_release_revoked(a)'
        BY GrownKeeps
      <3> QED
        BY <3>1, <3>2 DEF is_release_revoked
    <2>5. Announces([artifact |-> gate.ref, ann |-> gate.ann])
            => Announces([artifact |-> gate.ref, ann |-> gate.ann])'
      <3>1. PICK d : d = [artifact |-> gate.ref, ann |-> gate.ann]
        OBVIOUS
      <3>2. Announces(d) => Announces(d)'
        BY GrownKeeps
      <3> QED
        BY <3>1, <3>2 DEF Announces
    <2> QED
      BY <1>2, <2>2, <2>3, <2>4, <2>5 DEF GateSound, CallSound
  <1> QED
    BY <1>1, <1>2 DEF GateSound

(* One question of the gate after another: each answer that lets the call   *)
(* through establishes its part.                                            *)
LEMMA GateMoves ==
  ASSUME ReleasesTypeOK, FewDishonest, HonestSigned, GateSound, GateStep
  PROVE  GateSound'
  <1>0. UNCHANGED <<tip, txs, pub, sigs, bond>>
    BY GateLeaves DEF GateUnchanged
  <1>1. ASSUME Deny PROVE GateSound'
    BY <1>1 DEF Deny, GateSound, Idle
  <1>2. ASSUME gate.pc = "announce" \/ gate.pc = "activate" \/ gate.pc = "tip" \/ gate.pc = "attest"
               \/ gate.pc = "revocation"
        PROVE  CallSound
    BY <1>2 DEF GateSound, Idle
  <1>3. ASSUME CallSound, NEW p \in {"activate", "tip", "attest", "revocation", "ok"}, NEW e \in Nat,
               NEW u \in BOOLEAN, gate.pc # "announce" \/ Deep,
               gate' = [pc |-> p, ref |-> gate.ref, ann |-> gate.ann, end |-> e,
                        unanswered |-> u, was_revoked |-> gate.was_revoked],
               p \in {"revocation", "ok"} => Announces([artifact |-> gate.ref, ann |-> gate.ann]),
               p = "ok" /\ ~ u => ~ gate.was_revoked
        PROVE  GateSound'
    <2>1. gate' \in Calls /\ gate'.pc = p /\ gate'.ref = gate.ref /\ gate'.ann = gate.ann
          /\ gate'.unanswered = u /\ gate'.was_revoked = gate.was_revoked
      BY <1>3 DEF CallSound, Calls
    <2>2. gate'.ann \in 1..Len(txs') /\ Deep'
      BY <1>0, <1>3, <2>1 DEF CallSound, Deep
    <2>3. gate'.was_revoked => is_release_revoked(gate.ref)'
      BY <1>0, <1>3, <2>1 DEF CallSound, is_release_revoked
    <2>4. p \in {"revocation", "ok"} => Announces([artifact |-> gate.ref, ann |-> gate.ann])'
      BY <1>0, <1>3, <2>1 DEF Announces
    <2> QED
      BY <1>3, <2>1, <2>2, <2>3, <2>4 DEF GateSound, CallSound
  <1>4. ASSUME CallSound PROVE gate \in Calls /\ gate.end \in Nat /\ gate.unanswered \in BOOLEAN
    BY <1>4 DEF CallSound, Calls
  <1>5. CASE VerifyBegins
    <2>1. PICK ref \in Artifacts, ann \in 1..Len(txs) :
            gate' = [pc |-> "announce", ref |-> ref, ann |-> ann, end |-> 0,
                     unanswered |-> FALSE, was_revoked |-> is_release_revoked(ref)]
      BY <1>5 DEF VerifyBegins
    <2>2. is_release_revoked(ref) \in BOOLEAN /\ ann \in Nat
      BY DEF is_release_revoked, ReleasesTypeOK
    <2>3. gate' \in Calls /\ gate'.pc = "announce" /\ gate'.ref = ref /\ gate'.ann = ann
          /\ gate'.was_revoked = is_release_revoked(ref)
      BY <2>1, <2>2 DEF Calls
    <2>4. gate'.was_revoked => is_release_revoked(gate.ref)'
      BY <1>0, <2>3 DEF is_release_revoked
    <2> QED
      BY <1>0, <2>3, <2>4 DEF GateSound, CallSound
  <1>6. CASE LookupAnnounce
    <2>1. CASE depth(gate.ann) >= min_depth
               /\ gate' = [gate EXCEPT !.pc = "activate", !.end = txs[gate.ann].height + depth(gate.ann)]
      <3>1. CallSound /\ gate.pc = "announce"
        BY <1>2, <1>6 DEF LookupAnnounce
      <3>2. gate.ann \in 1..Len(txs) /\ txs \in Seq(Spends) /\ tip \in Nat /\ min_depth \in Nat \ {0}
        BY <3>1, ReleaseConstants DEF CallSound, ReleasesTypeOK
      <3>3. txs[gate.ann] \in Spends
        BY <3>2
      <3>4. txs[gate.ann].height \in Nat
        BY <3>3 DEF Spends
      <3>5. Deep /\ depth(gate.ann) \in Nat
        BY <2>1, <3>2, <3>4 DEF Deep, depth
      <3>6. txs[gate.ann].height + depth(gate.ann) \in Nat
        BY <3>4, <3>5
      <3>7. PICK e \in Nat : e = txs[gate.ann].height + depth(gate.ann)
        BY <3>6
      <3>8. gate' = [pc |-> "activate", ref |-> gate.ref, ann |-> gate.ann, end |-> e,
                     unanswered |-> gate.unanswered, was_revoked |-> gate.was_revoked]
        BY <1>4, <2>1, <3>1, <3>7, CallForm
      <3> QED
        BY <1>3, <1>4, <3>1, <3>5, <3>8
    <2> QED
      BY <1>1, <1>6, <2>1 DEF LookupAnnounce
  <1>7. ASSUME CallSound, NEW p \in {"tip", "attest"}, gate.pc \in {"activate", "tip"},
               gate' = [gate EXCEPT !.pc = p]
        PROVE  GateSound'
    <2>1. gate' = [pc |-> p, ref |-> gate.ref, ann |-> gate.ann, end |-> gate.end,
                   unanswered |-> gate.unanswered, was_revoked |-> gate.was_revoked]
      BY <1>4, <1>7, CallForm
    <2> QED
      BY <1>3, <1>4, <1>7, <2>1
  <1>8. CASE LookupActivate
    BY <1>1, <1>2, <1>7, <1>8 DEF LookupActivate
  <1>9. CASE TipHeight
    <2>1. CASE gate' = [gate EXCEPT !.pc = "attest", !.unanswered = TRUE]
      <3>1. CallSound /\ gate.pc = "tip"
        BY <1>2, <1>9 DEF TipHeight
      <3>2. gate' = [pc |-> "attest", ref |-> gate.ref, ann |-> gate.ann, end |-> gate.end,
                     unanswered |-> TRUE, was_revoked |-> gate.was_revoked]
        BY <1>4, <2>1, <3>1, CallForm
      <3> QED
        BY <1>3, <1>4, <3>1, <3>2
    <2> QED
      BY <1>1, <1>2, <1>7, <1>9, <2>1 DEF TipHeight, Unanswered
  <1>10. CASE Attestations
    <2>1. CASE Deny
      BY <1>1, <2>1
    <2>2. CASE \E n \in 0..3 : \E atts \in [1..n -> Attestors \cup {Outsider}] :
                 /\ quorum_of(atts, [artifact |-> gate.ref, ann |-> gate.ann])
                 /\ gate' = [gate EXCEPT !.pc = "revocation"]
      <3>1. PICK n \in 0..3 : \E atts \in [1..n -> Attestors \cup {Outsider}] :
              /\ quorum_of(atts, [artifact |-> gate.ref, ann |-> gate.ann])
              /\ gate' = [gate EXCEPT !.pc = "revocation"]
        BY <2>2
      <3>2. PICK atts \in [1..n -> Attestors \cup {Outsider}] :
              /\ quorum_of(atts, [artifact |-> gate.ref, ann |-> gate.ann])
              /\ gate' = [gate EXCEPT !.pc = "revocation"]
        BY <3>1
      <3>3. n \in Nat
        OBVIOUS
      <3>4. Announces([artifact |-> gate.ref, ann |-> gate.ann])
        BY <3>2, <3>3, QuorumHasHonest
      <3>5. CallSound /\ gate.pc = "attest"
        BY <1>2, <1>10 DEF Attestations
      <3>6. gate' = [pc |-> "revocation", ref |-> gate.ref, ann |-> gate.ann, end |-> gate.end,
                     unanswered |-> gate.unanswered, was_revoked |-> gate.was_revoked]
        BY <1>4, <3>2, <3>5, CallForm
      <3> QED
        BY <1>3, <1>4, <3>4, <3>5, <3>6
    <2> QED
      BY <1>10, <2>1, <2>2 DEF Attestations
  <1>11. CASE RevocationCheck
    <2>0. CallSound /\ gate.pc = "revocation"
      BY <1>2, <1>11 DEF RevocationCheck
    <2>1. Announces([artifact |-> gate.ref, ann |-> gate.ann])
      BY <2>0 DEF CallSound
    <2>2. CASE ~ is_release_revoked(gate.ref) /\ gate' = [gate EXCEPT !.pc = "ok"]
      <3>1. gate' = [pc |-> "ok", ref |-> gate.ref, ann |-> gate.ann, end |-> gate.end,
                     unanswered |-> gate.unanswered, was_revoked |-> gate.was_revoked]
        BY <1>4, <2>0, <2>2, CallForm
      <3>2. ~ gate.was_revoked
        BY <2>0, <2>2 DEF CallSound
      <3> QED
        BY <1>3, <1>4, <2>0, <2>1, <3>1, <3>2
    <2>3. CASE gate' = [gate EXCEPT !.pc = "ok", !.unanswered = TRUE]
      <3>1. gate' = [pc |-> "ok", ref |-> gate.ref, ann |-> gate.ann, end |-> gate.end,
                     unanswered |-> TRUE, was_revoked |-> gate.was_revoked]
        BY <1>4, <2>0, <2>3, CallForm
      <3> QED
        BY <1>3, <1>4, <2>0, <2>1, <3>1
    <2> QED
      BY <1>1, <1>11, <2>2, <2>3 DEF RevocationCheck, Unanswered
  <1>12. CASE Installed
    BY <1>1, <1>12 DEF Installed
  <1> QED
    BY <1>5, <1>6, <1>8, <1>9, <1>10, <1>11, <1>12 DEF GateStep

(* While fewer attestors than the quorum are dishonest, what passes the     *)
(* gate was announced by the publisher min_depth blocks ago, and had not    *)
(* been invalidated when the call began if the chain answered.              *)
THEOREM ReleasesGateMeansPublished == FewDishonest /\ ReleasesSpec => []GateMeansPublished
PROOF
<1> SUFFICES ASSUME FewDishonest PROVE ReleasesSpec => []GateMeansPublished
  OBVIOUS
<1> DEFINE IInv == ReleasesTypeOK /\ BondParts /\ HonestSigned /\ GateSound
<1>1. ReleasesInit => IInv
  BY ReleasesStart DEF ReleasesInit, HonestSigned, GateSound
<1>2. IInv /\ [ReleasesNext]_releasesVars => IInv'
  <2> SUFFICES ASSUME IInv, [ReleasesNext]_releasesVars PROVE IInv'
    OBVIOUS
  <2>1. ReleasesTypeOK' /\ Grown /\ BondParts'
    BY ReleasesGrow
  <2>2. HonestSigned'
    BY <2>1, HonestStep
  <2>3. gate' = gate \/ GateStep
    <3>1. ThreadStep => gate' = gate
      BY DEF ThreadStep, Announce, Activate, Cancel, Invalidate, Retire, Spend
    <3>2. Mine \/ Attest \/ Stake \/ Slash \/ Withdraw \/ UNCHANGED releasesVars => gate' = gate
      BY DEF Mine, Attest, Stake, Slash, Withdraw, releasesVars
    <3> QED BY <3>1, <3>2, ReleasesSteps
  <2>4. GateSound'
    BY <2>1, <2>3, CallKept, GateMoves
  <2> QED BY <2>1, <2>2, <2>4
<1>3. IInv => GateMeansPublished
  BY DEF GateSound, CallSound, Deep, Idle, GateMeansPublished
<1> HIDE DEF IInv
<1> QED BY <1>1, <1>2, <1>3, PTL DEF ReleasesSpec

-----------------------------------------------------------------------------
(* ActivationsAreAnnounced without the CHOOSE: the last of what came before *)
(* a spend, and for each spend what that has to be.                         *)
Activations(i) == {j \in 1..(i - 1) : txs[j].op = "activate"}
Signers(d) == {a \in Attestors : Signed(a, d)}
IsLast(j, i) == j \in Pending(i) /\ \A k \in Pending(i) : k <= j
HasLast(i) == Pending(i) = {} \/ \E j \in 1..Len(txs) : IsLast(j, i)
Ordered(i) ==
  /\ HasLast(i)
  /\ txs[i].op \in {"activate", "cancel"} =>
       \E j \in 1..Len(txs) : /\ IsLast(j, i) /\ txs[j].op = "announce"
                              /\ txs[i].op = "activate" => txs[i].lt >= txs[j].lt + delaySeconds
  /\ txs[i].op = "announce" =>
       txs[i].of \in Artifacts /\ \A j \in 1..Len(txs) : IsLast(j, i) => txs[j].op # "announce"
  /\ txs[i].op = "activate" =>
       Cardinality(Signers(txs[i].of)) >= quorum /\ txs[i].count = Cardinality(Activations(i))
PendingIs(bundle, root, time) ==
  pub.pendingBundleHash = bundle /\ pub.pendingFileSetRoot = root /\ pub.pendingAnnounceTime = time
Open(n) ==
  \E j \in 1..Len(txs) : /\ IsLast(j, n) /\ txs[j].op = "announce"
                         /\ PendingIs(txs[j].of, txs[j].of, txs[j].lt)
Closed(n) ==
  /\ \A j \in 1..Len(txs) : IsLast(j, n) => txs[j].op # "announce"
  /\ PendingIs(ZERO, ZERO, 0)
StateHolds(n) ==
  HasLast(n) /\ pub.releaseCount = Cardinality(Activations(n)) /\ (Open(n) \/ Closed(n))
ThreadSound ==
  /\ \A i \in 1..Len(txs) : Ordered(i)
  /\ \A n \in Nat : n = Len(txs) + 1 /\ Alive => StateHolds(n)

(* The last is the one CHOOSE finds.                                        *)
LEMMA LastIsChosen ==
  ASSUME NEW i \in Nat, NEW j, IsLast(j, i)
  PROVE  LastOf(Pending(i)) = j /\ Pending(i) # {}
  <1>1. j \in Pending(i) /\ \A k \in Pending(i) : k <= j
    BY DEF IsLast
  <1>2. Pending(i) \subseteq Int
    BY DEF Pending
  <1>3. \A m \in Pending(i) : (\A k \in Pending(i) : k <= m) => m = j
    BY <1>1, <1>2
  <1> QED
    BY <1>1, <1>3, Zenon DEF LastOf

(* So the property follows.                                                 *)
LEMMA SoundIsAnnounced ==
  ASSUME ReleasesTypeOK, ThreadSound
  PROVE  ActivationsAreAnnounced
  <1>0. Len(txs) \in Nat
    BY DEF ReleasesTypeOK
  <1>1. ASSUME NEW i \in 1..Len(txs)
        PROVE  /\ txs[i].op \in {"activate", "cancel"} =>
                    Pending(i) # {} /\ txs[LastOf(Pending(i))].op = "announce"
               /\ txs[i].op = "announce" => Pending(i) = {} \/ txs[LastOf(Pending(i))].op # "announce"
               /\ txs[i].op = "activate" =>
                    /\ txs[i].lt >= txs[LastOf(Pending(i))].lt + delaySeconds
                    /\ Cardinality({a \in Attestors : Signed(a, txs[i].of)}) >= quorum
                    /\ txs[i].count = Cardinality({j \in 1..(i - 1) : txs[j].op = "activate"})
    <2>1. Ordered(i) /\ i \in Nat
      BY <1>0 DEF ThreadSound
    <2>2. \A j : IsLast(j, i) => LastOf(Pending(i)) = j /\ Pending(i) # {}
      BY <2>1, LastIsChosen
    <2> QED
      BY <2>1, <2>2 DEF Ordered, HasLast, Signers, Activations
  <1>2. ASSUME Alive, NEW n \in Nat, n = Len(txs) + 1
        PROVE  <<pub.pendingBundleHash, pub.pendingFileSetRoot, pub.pendingAnnounceTime>>
                 = IF Pending(n) # {} /\ txs[LastOf(Pending(n))].op = "announce"
                   THEN <<txs[LastOf(Pending(n))].of, txs[LastOf(Pending(n))].of, txs[LastOf(Pending(n))].lt>>
                   ELSE <<ZERO, ZERO, 0>>
    <2>1. HasLast(n) /\ (Open(n) \/ Closed(n))
      BY <1>2 DEF ThreadSound, StateHolds
    <2>2. \A j : IsLast(j, n) => LastOf(Pending(n)) = j /\ Pending(n) # {}
      BY LastIsChosen
    <2> QED
      BY <2>1, <2>2 DEF HasLast, Open, Closed, PendingIs
  <1>3. Alive => LET all == Pending(Len(txs) + 1)
                     open == all # {} /\ txs[LastOf(all)].op = "announce" IN
       <<pub.pendingBundleHash, pub.pendingFileSetRoot, pub.pendingAnnounceTime>>
         = IF open THEN <<txs[LastOf(all)].of, txs[LastOf(all)].of, txs[LastOf(all)].lt>>
           ELSE <<ZERO, ZERO, 0>>
    <2>1. PICK n \in Nat : n = Len(txs) + 1
      BY <1>0
    <2> QED
      BY <1>2, <2>1
  <1> QED
    BY <1>1, <1>3 DEF ActivationsAreAnnounced

(* A history that only grows keeps what is said of its spends.              *)
LEMMA HistoryKept ==
  ASSUME ReleasesTypeOK, Grown, ReleasesTypeOK'
  PROVE  /\ \A i \in 1..(Len(txs) + 1) : Pending(i)' = Pending(i) /\ Activations(i)' = Activations(i)
         /\ \A i \in 1..(Len(txs) + 1) : \A j : IsLast(j, i)' <=> IsLast(j, i)
         /\ \A i \in 1..(Len(txs) + 1) : HasLast(i) => HasLast(i)'
         /\ \A i \in 1..Len(txs) : Ordered(i) => Ordered(i)'
  <1>0. Len(txs) \in Nat /\ Len(txs') \in Nat /\ Len(txs) <= Len(txs')
    BY DEF ReleasesTypeOK, Grown
  <1>a. \A i \in 1..Len(txs) : /\ txs'[i].op = txs[i].op /\ txs'[i].of = txs[i].of
                               /\ txs'[i].lt = txs[i].lt /\ txs'[i].count = txs[i].count
    BY DEF Grown
  <1>1. ASSUME NEW i \in 1..(Len(txs) + 1)
        PROVE  Pending(i)' = Pending(i) /\ Activations(i)' = Activations(i)
    <2>1. 1..(i - 1) \subseteq 1..Len(txs)
      BY <1>0
    <2> QED
      BY <1>a, <2>1 DEF Pending, Activations
  <1>2. ASSUME NEW i \in 1..(Len(txs) + 1), NEW j PROVE IsLast(j, i)' <=> IsLast(j, i)
    BY <1>1 DEF IsLast
  <1>3. \A j \in 1..Len(txs) : j \in 1..Len(txs')
    BY <1>0
  <1>4. ASSUME NEW i \in 1..(Len(txs) + 1), HasLast(i) PROVE HasLast(i)'
    BY <1>1, <1>2, <1>3, <1>4 DEF HasLast
  <1>5. \A d : Cardinality(Signers(d)) >= quorum => Cardinality(Signers(d)') >= quorum
    <2> SUFFICES ASSUME NEW d, Cardinality(Signers(d)) >= quorum
                 PROVE  Cardinality(Signers(d)') >= quorum
      OBVIOUS
    <2>1. Signers(d) \subseteq Signers(d)' /\ Signers(d)' \subseteq Attestors
      BY DEF Signers, Signed, Grown
    <2>2. IsFiniteSet(Signers(d)')
      BY <2>1, ArpConstants, FS_Subset
    <2>3. IsFiniteSet(Signers(d)) /\ Cardinality(Signers(d)) <= Cardinality(Signers(d)')
      BY <2>1, <2>2, FS_Subset
    <2>4. quorum \in Int /\ Cardinality(Signers(d)) \in Int /\ Cardinality(Signers(d)') \in Int
      BY <2>2, <2>3, ArpConstants, FS_CardinalityType
    <2> QED
      BY <2>3, <2>4
  <1>6. ASSUME NEW i \in 1..Len(txs), Ordered(i) PROVE Ordered(i)'
    <2>0. i \in 1..(Len(txs) + 1)
      BY <1>0
    <2>1. HasLast(i)'
      BY <1>4, <1>6, <2>0 DEF Ordered
    <2>2. \A j \in 1..Len(txs') : IsLast(j, i)' => IsLast(j, i) /\ j \in 1..Len(txs)
      <3>1. \A j : IsLast(j, i) => j \in 1..(i - 1)
        BY DEF IsLast, Pending
      <3> QED
        BY <1>0, <1>2, <2>0, <3>1
    <2>3. \A j \in 1..Len(txs) : IsLast(j, i) => IsLast(j, i)' /\ j \in 1..Len(txs')
      BY <1>2, <1>3, <2>0
    <2>4. txs'[i].op \in {"activate", "cancel"} =>
            \E j \in 1..Len(txs') : /\ IsLast(j, i)' /\ txs'[j].op = "announce"
                                    /\ txs'[i].op = "activate" => txs'[i].lt >= txs'[j].lt + delaySeconds
      BY <1>6, <1>a, <2>3 DEF Ordered
    <2>5. txs'[i].op = "announce" =>
            txs'[i].of \in Artifacts /\ \A j \in 1..Len(txs') : IsLast(j, i)' => txs'[j].op # "announce"
      BY <1>6, <1>a, <2>2 DEF Ordered
    <2>6. txs'[i].op = "activate" => txs'[i].count = Cardinality(Activations(i)')
      BY <1>6, <1>a, <1>1, <2>0 DEF Ordered
    <2>7. txs'[i].op = "activate" => Cardinality(Signers(txs[i].of)') >= quorum
      <3>1. PICK d : d = txs[i].of
        OBVIOUS
      <3>2. Cardinality(Signers(d)) >= quorum => Cardinality(Signers(d)') >= quorum
        BY <1>5
      <3> QED
        BY <1>6, <1>a, <3>1, <3>2 DEF Ordered, Signers, Signed
    <2> QED
      BY <1>a, <2>1, <2>4, <2>5, <2>6, <2>7 DEF Ordered, Signers, Signed
  <1> QED
    BY <1>1, <1>2, <1>4, <1>6

(* Where the thread is not spent, nothing of this changes.                  *)
LEMMA ThreadKept ==
  ASSUME ReleasesTypeOK, Grown, ReleasesTypeOK', ThreadSound, Len(txs') = Len(txs), pub' = pub
  PROVE  ThreadSound'
  <1>1. \A i \in 1..Len(txs') : Ordered(i)'
    BY HistoryKept DEF ThreadSound
  <1>2. ASSUME NEW n \in Nat, n = Len(txs') + 1, Alive' PROVE StateHolds(n)'
    <2>1. Len(txs) \in Nat /\ n \in 1..(Len(txs) + 1)
      BY <1>2 DEF ReleasesTypeOK
    <2>2. StateHolds(n)
      BY <1>2 DEF ThreadSound, Alive
    <2>3. HasLast(n)' /\ Activations(n)' = Activations(n) /\ \A j : IsLast(j, n)' <=> IsLast(j, n)
      BY <2>1, <2>2, HistoryKept DEF StateHolds
    <2>4. \A j \in 1..Len(txs) : /\ txs'[j].op = txs[j].op /\ txs'[j].of = txs[j].of
                                 /\ txs'[j].lt = txs[j].lt
      BY DEF Grown
    <2>5. Open(n) => Open(n)'
      BY <2>3, <2>4 DEF Open, PendingIs
    <2>6. Closed(n) => Closed(n)'
      BY <2>3, <2>4 DEF Closed, PendingIs
    <2> QED
      BY <2>2, <2>3, <2>5, <2>6 DEF StateHolds
  <1> QED
    BY <1>1, <1>2 DEF ThreadSound

(* Behind a spend that announces or ends something, that spend is the last; *)
(* behind any other, what was the last before.                              *)
LEMMA LastAfter ==
  ASSUME ReleasesTypeOK, Grown, ReleasesTypeOK', NEW n \in Nat, n = Len(txs) + 1, Len(txs') = n
  PROVE  /\ txs'[n].op \in {"announce", "activate", "cancel"} => \A j : IsLast(j, n + 1)' <=> j = n
         /\ txs'[n].op \notin {"announce", "activate", "cancel"} =>
              Pending(n + 1)' = Pending(n) /\ \A j : IsLast(j, n + 1)' <=> IsLast(j, n)
         /\ txs'[n].op = "activate" => Cardinality(Activations(n + 1)') = Cardinality(Activations(n)) + 1
         /\ txs'[n].op # "activate" => Activations(n + 1)' = Activations(n)
         /\ Cardinality(Activations(n)) \in Nat
  <1>0. Len(txs) \in Nat /\ n \in 1..(Len(txs) + 1)
    BY DEF ReleasesTypeOK
  <1>1. Pending(n)' = Pending(n) /\ Activations(n)' = Activations(n)
    BY <1>0, HistoryKept
  <1>2. \A j : j \in 1..((n + 1) - 1) <=> j \in 1..(n - 1) \/ j = n
    BY <1>0
  <1>3. Pending(n + 1)' = IF txs'[n].op \in {"announce", "activate", "cancel"} THEN Pending(n)' \cup {n}
                          ELSE Pending(n)'
    BY <1>2 DEF Pending
  <1>4. Activations(n + 1)' = IF txs'[n].op = "activate" THEN Activations(n)' \cup {n} ELSE Activations(n)'
    BY <1>2 DEF Activations
  <1>5. Pending(n) \subseteq 1..(n - 1) /\ Activations(n) \subseteq 1..(n - 1) /\ n \notin 1..(n - 1)
        /\ \A j \in 1..(n - 1) : j \in Int /\ j < n
    BY <1>0 DEF Pending, Activations
  <1>6. IsFiniteSet(Activations(n)) /\ Cardinality(Activations(n)) \in Nat
    <2>1. IsFiniteSet(1..(n - 1))
      BY FS_Interval
    <2>2. IsFiniteSet(Activations(n))
      BY <1>5, <2>1, FS_Subset
    <2> QED
      BY <2>2, FS_CardinalityType
  <1>7. Cardinality(Activations(n) \cup {n}) = Cardinality(Activations(n)) + 1
    BY <1>5, <1>6, FS_AddElement
  <1>8. ASSUME txs'[n].op \in {"announce", "activate", "cancel"}
        PROVE  \A j : IsLast(j, n + 1)' <=> j = n
    <2>1. Pending(n + 1)' = Pending(n) \cup {n}
      BY <1>1, <1>3, <1>8
    <2>2. \A j : IsLast(j, n + 1)' <=> j \in Pending(n) \cup {n} /\ \A k \in Pending(n) \cup {n} : k <= j
      BY <2>1 DEF IsLast
    <2> QED
      BY <1>5, <2>2
  <1>9. ASSUME txs'[n].op \notin {"announce", "activate", "cancel"}
        PROVE  Pending(n + 1)' = Pending(n) /\ \A j : IsLast(j, n + 1)' <=> IsLast(j, n)
    <2>1. Pending(n + 1)' = Pending(n)
      BY <1>1, <1>3, <1>9
    <2> QED
      BY <2>1 DEF IsLast
  <1> QED
    BY <1>1, <1>4, <1>6, <1>7, <1>8, <1>9

(* A spend finds what it needs in the state, which is what the history      *)
(* makes of it, and leaves what the longer history makes of it.             *)
LEMMA ThreadMoves ==
  ASSUME ReleasesTypeOK, Grown, ReleasesTypeOK', ThreadSound, ThreadStep
  PROVE  ThreadSound'
  <1>1. PICK op \in SpendOps, of \in Hashes \cup Digests, lt \in Nat :
          Adds1(op, of, lt) /\ SpendsPub(op, of, lt)
    BY ThreadSteps
  <1>2. Alive /\ pub \in PubStates /\ Len(txs) \in Nat
    BY ThreadSteps DEF ReleasesTypeOK
  <1>3. PICK n \in Nat : n = Len(txs) + 1
    BY <1>2
  <1>4. /\ Len(txs') = n /\ txs'[n].op = op /\ txs'[n].of = of /\ txs'[n].lt = lt
        /\ txs'[n].count = pub.releaseCount
        /\ \A i \in 1..Len(txs) : txs'[i] = txs[i]
    BY <1>1, <1>2, <1>3, SpendGrows
  <1>5. n \in 1..(Len(txs) + 1) /\ (\A i \in 1..Len(txs') : i \in 1..Len(txs) \/ i = n)
        /\ n \in 1..Len(txs') /\ \A j \in 1..Len(txs) : j \in 1..Len(txs')
    BY <1>2, <1>3, <1>4
  <1>6. HasLast(n) /\ pub.releaseCount = Cardinality(Activations(n)) /\ (Open(n) \/ Closed(n))
    BY <1>2, <1>3 DEF ThreadSound, StateHolds
  <1>7. /\ Activations(n)' = Activations(n) /\ HasLast(n)'
        /\ \A j : IsLast(j, n)' <=> IsLast(j, n)
    BY <1>5, <1>6, HistoryKept
  <1>8. \A j : IsLast(j, n) => j \in 1..Len(txs)
    BY <1>2, <1>3 DEF IsLast, Pending
  <1>9. Open(n) => pub.pendingBundleHash \in Artifacts
    <2>1. ASSUME NEW j \in 1..Len(txs), txs[j].op = "announce" PROVE txs[j].of \in Artifacts
      BY <2>1 DEF ThreadSound, Ordered
    <2> QED
      BY <2>1 DEF Open, PendingIs
  <1>10. pub.pendingBundleHash = ZERO => Closed(n)
    BY <1>6, <1>9, ReleaseConstants
  <1>11. pub.pendingBundleHash # ZERO => Open(n)
    BY <1>6 DEF Closed, PendingIs
  <1>12. Ordered(n)'
    <2>1. ASSUME op \in {"activate", "cancel"}
          PROVE  \E j \in 1..Len(txs') : /\ IsLast(j, n)' /\ txs'[j].op = "announce"
                                         /\ op = "activate" => lt >= txs'[j].lt + delaySeconds
      <3>1. Open(n)
        BY <1>1, <1>11, <2>1 DEF SpendsPub
      <3>2. PICK j \in 1..Len(txs) : IsLast(j, n) /\ txs[j].op = "announce"
                                     /\ txs[j].lt = pub.pendingAnnounceTime
        BY <3>1 DEF Open, PendingIs
      <3>3. IsLast(j, n)' /\ txs'[j].op = "announce" /\ txs'[j].lt = pub.pendingAnnounceTime
        BY <1>4, <1>7, <3>2
      <3>4. op = "activate" => lt >= pub.pendingAnnounceTime + delaySeconds
        BY <1>1 DEF SpendsPub
      <3> QED
        BY <1>5, <3>3, <3>4
    <2>2. ASSUME op = "announce"
          PROVE  of \in Artifacts /\ \A j \in 1..Len(txs') : IsLast(j, n)' => txs'[j].op # "announce"
      <3>1. of \in Artifacts /\ Closed(n)
        BY <1>1, <1>10, <2>2 DEF SpendsPub
      <3> QED
        BY <1>4, <1>7, <1>8, <3>1 DEF Closed
    <2>3. ASSUME op = "activate" PROVE Cardinality(Signers(of)) >= quorum
      <3>1. PICK used \in SUBSET Attestors : (\A a \in used : Signed(a, of)) /\ Cardinality(used) >= quorum
        BY <1>1, <2>3 DEF SpendsPub
      <3>2. used \subseteq Signers(of) /\ Signers(of) \subseteq Attestors
        BY <3>1 DEF Signers
      <3>3. IsFiniteSet(Signers(of))
        BY <3>2, ArpConstants, FS_Subset
      <3>4. IsFiniteSet(used) /\ Cardinality(used) <= Cardinality(Signers(of))
        BY <3>2, <3>3, FS_Subset
      <3>5. quorum \in Int /\ Cardinality(used) \in Int /\ Cardinality(Signers(of)) \in Int
        BY <3>3, <3>4, ArpConstants, FS_CardinalityType
      <3> QED
        BY <3>1, <3>4, <3>5
    <2>4. Signers(txs[n].of)' = Signers(of)
      BY <1>1, <1>4 DEF Signers, Signed, Adds1
    <2> QED
      BY <1>4, <1>6, <1>7, <2>1, <2>2, <2>3, <2>4 DEF Ordered
  <1>13. \A i \in 1..Len(txs') : Ordered(i)'
    <2>1. \A i \in 1..Len(txs) : Ordered(i)'
      BY HistoryKept DEF ThreadSound
    <2> QED
      BY <1>5, <1>12, <2>1
  <1>14. ASSUME Alive' PROVE StateHolds(n + 1)'
    <2>0. n + 1 \in Nat
      OBVIOUS
    <2>1. /\ op \in {"announce", "activate", "cancel"} => \A j : IsLast(j, n + 1)' <=> j = n
          /\ op \notin {"announce", "activate", "cancel"} =>
               Pending(n + 1)' = Pending(n) /\ \A j : IsLast(j, n + 1)' <=> IsLast(j, n)
          /\ op = "activate" => Cardinality(Activations(n + 1)') = Cardinality(Activations(n)) + 1
          /\ op # "activate" => Activations(n + 1)' = Activations(n)
      BY <1>3, <1>4, LastAfter
    <2>2. op # "retire"
      BY <1>1, <1>14 DEF SpendsPub, Alive
    <2>3. CASE op = "announce"
      <3>1. PendingIs(of, of, lt)' /\ pub'.releaseCount = pub.releaseCount
        BY <1>1, <2>3 DEF SpendsPub, PendingIs
      <3>2. Open(n + 1)' /\ HasLast(n + 1)'
        <4>1. IsLast(n, n + 1)'
          BY <2>1, <2>3
        <4> QED
          BY <1>4, <1>5, <2>3, <3>1, <4>1 DEF Open, HasLast, PendingIs
      <3> QED
        BY <1>6, <2>1, <2>3, <3>1, <3>2 DEF StateHolds
    <2>4. CASE op \in {"activate", "cancel"}
      <3>1. PendingIs(ZERO, ZERO, 0)'
        BY <1>1, <2>4 DEF SpendsPub, PendingIs
      <3>2. pub'.releaseCount = IF op = "activate" THEN pub.releaseCount + 1 ELSE pub.releaseCount
        BY <1>1, <2>4 DEF SpendsPub
      <3>3. Closed(n + 1)' /\ HasLast(n + 1)'
        BY <1>4, <1>5, <2>1, <2>4, <3>1 DEF Closed, HasLast
      <3> QED
        BY <1>6, <2>1, <2>4, <3>2, <3>3 DEF StateHolds
    <2>5. CASE op = "invalidate"
      <3>1. pub' = pub
        BY <1>1, <2>5 DEF SpendsPub
      <3>2. Pending(n + 1)' = Pending(n) /\ \A j : IsLast(j, n + 1)' <=> IsLast(j, n)
        BY <2>1, <2>5
      <3>3. HasLast(n + 1)'
        BY <1>5, <1>6, <3>2 DEF HasLast
      <3>4. Open(n) => Open(n + 1)'
        BY <1>4, <1>5, <3>1, <3>2 DEF Open, PendingIs
      <3>5. Closed(n) => Closed(n + 1)'
        BY <1>4, <1>8, <3>1, <3>2 DEF Closed, PendingIs
      <3> QED
        BY <1>6, <2>1, <2>5, <3>1, <3>3, <3>4, <3>5 DEF StateHolds
    <2> QED
      BY <2>2, <2>3, <2>4, <2>5 DEF SpendOps
  <1>15. \A m \in Nat : m = Len(txs') + 1 /\ Alive' => StateHolds(m)'
    <2>1. \A m \in Nat : m = Len(txs') + 1 => m = n + 1
      BY <1>4
    <2> SUFFICES ASSUME NEW m \in Nat, m = n + 1, Alive' PROVE StateHolds(m)'
      BY <2>1
    <2> QED
      BY <1>14
  <1> QED
    BY <1>13, <1>15 DEF ThreadSound

(* "One-pending-release invariant ... in-script nLocktime delay floor ...   *)
(* K-of-3 quorum on activate": announcements alternate with what ends them, *)
(* an activation has its announcement the delay before it and a quorum      *)
(* behind it and carries the next number; the state holds what is pending.  *)
THEOREM ReleasesActivationsAnnounced == ReleasesSpec => []ActivationsAreAnnounced
PROOF
<1> DEFINE IInv == ReleasesTypeOK /\ BondParts /\ ThreadSound
<1>1. ReleasesInit => IInv
  <2> SUFFICES ASSUME ReleasesInit PROVE ThreadSound
    BY ReleasesStart
  <2>1. Len(txs) = 0 /\ txs = <<>>
    BY DEF ReleasesInit
  <2>2. \A i \in 1..Len(txs) : Ordered(i)
    BY <2>1
  <2>3. ASSUME NEW n \in Nat, n = Len(txs) + 1, Alive PROVE StateHolds(n)
    <3>1. Pending(n) = {} /\ Activations(n) = {} /\ 1..Len(txs) = {}
      BY <2>1, <2>3 DEF Pending, Activations
    <3>2. PendingIs(ZERO, ZERO, 0) /\ pub.releaseCount = 0
      BY <2>3 DEF ReleasesInit, Alive, publisher_genesis, PendingIs
    <3>3. Cardinality(Activations(n)) = 0
      BY <3>1, FS_EmptySet
    <3> QED BY <3>1, <3>2, <3>3 DEF StateHolds, HasLast, Closed, IsLast
  <2> QED BY <2>2, <2>3 DEF ThreadSound
<1>2. IInv /\ [ReleasesNext]_releasesVars => IInv'
  <2> SUFFICES ASSUME IInv, [ReleasesNext]_releasesVars PROVE IInv'
    OBVIOUS
  <2>1. ReleasesTypeOK' /\ Grown /\ BondParts'
    BY ReleasesGrow
  <2>2. ThreadStep \/ (Len(txs') = Len(txs) /\ pub' = pub)
    <3>1. Mine => Len(txs') = Len(txs) /\ pub' = pub
      BY MineGrows DEF Mine
    <3>2. Attest \/ Stake \/ Slash \/ Withdraw \/ UNCHANGED releasesVars => txs' = txs /\ pub' = pub
      BY DEF Attest, Stake, Slash, Withdraw, releasesVars
    <3>3. GateStep => txs' = txs /\ pub' = pub
      BY GateLeaves DEF GateUnchanged
    <3> QED BY <3>1, <3>2, <3>3, ReleasesSteps
  <2>3. ThreadSound'
    BY <2>1, <2>2, ThreadKept, ThreadMoves
  <2> QED BY <2>1, <2>3
<1>3. IInv => ActivationsAreAnnounced
  BY SoundIsAnnounced
<1> HIDE DEF IInv
<1> QED BY <1>1, <1>2, <1>3, PTL DEF ReleasesSpec
=============================================================================
