----------------------------- MODULE Releases -----------------------------
(***************************************************************************)
(* A publisher's thread of PublisherTea spends, its attestors and one of   *)
(* their bonds, and the consumer's gate in front of an installation        *)
(* (verifier/release_anchor_verifier.c over verifier/rabin_attestor.c).    *)
(* Time is counted in blocks.  A locktime may lie in the past: the node    *)
(* only refuses one that has not come yet.                                 *)
(***************************************************************************)
EXTENDS ArpContracts

CONSTANTS Artifacts,        \* releases: a bundle with its file set and version
          Honest,           \* attestors that sign only what was announced
          MaxSigs, MaxTxs, MaxTip,    \* bounds: signatures, spends of the thread, blocks
          min_depth, min_quorum, max_staleness,    \* trusted_publisher_t
          Value, Adds, Fee, \* satoshis of the bond, top-ups, and the fee
          Outsider, Retired

ASSUME ReleaseConstants ==
  /\ Honest \subseteq Attestors /\ Outsider \notin Attestors /\ ZERO \notin Artifacts
  /\ min_depth \in Nat \ {0} /\ min_quorum \in Nat /\ max_staleness \in Nat
  /\ Value \in Nat /\ Adds \subseteq Nat /\ Fee \in Nat

VARIABLES tip,      \* height of the best block
          txs,      \* spends of the publisher's thread, in order
          pub,      \* the unspent state of the thread, or Retired
          sigs,     \* attestations made so far
          bond,     \* the bond of one attestor, and what was put into it
          gate      \* one call of release_anchor_verifier_verify at a time

releasesVars == <<tip, txs, pub, sigs, bond, gate>>

Digests == [artifact : Artifacts, ann : 1..MaxTxs]
Announces(d) == d.ann \in 1..Len(txs) /\ txs[d.ann].op = "announce" /\ txs[d.ann].of = d.artifact
Signed(a, digest) == \E s \in sigs : s.by = a /\ s.digest = digest

-----------------------------------------------------------------------------
(* The publisher.  The C builders make the transaction; the contract has    *)
(* the last word.                                                           *)
Spend(op, of, lt, built, demanded) ==
  /\ Len(txs) < MaxTxs
  /\ built \in demanded
  /\ txs' = Append(txs, [op |-> op, of |-> of, count |-> pub.releaseCount, lt |-> lt, height |-> 0])
  /\ pub' = IF built[1].type = "state" THEN built[1].state ELSE Retired
  /\ UNCHANGED <<tip, sigs, bond, gate>>

Alive == pub # Retired
Announce == Alive /\ \E a \in Artifacts, lt \in 1..tip :
  Spend("announce", a, lt, build_arp_announce(pub, 1, a, a, lt), announceRelease(pub, 1, a, a, lt))
Activate == Alive /\ \E d \in Digests, used \in SUBSET Attestors, lt \in 1..tip :
  Spend("activate", d, lt, build_arp_activate(staged(pub, lt), 1, d),
        activateRelease(pub, 1, d, used, {a \in Attestors : Signed(a, d)}, lt))
Cancel == Alive /\ \E lt \in 1..tip :
  Spend("cancel", pub.pendingBundleHash, lt, build_arp_cancel(staged(pub, lt), 1), cancelPending(pub, 1, lt))
(* By whatever tool has the cancel key: see InvalidateFits for ours.        *)
Invalidate == Alive /\ \E d \in Digests, lt \in 1..tip :
  /\ \E i \in 1..Len(txs) : txs[i].op = "activate" /\ txs[i].of = d
  /\ \E outs \in invalidateRelease(pub, 1, d, lt) :
       Spend("invalidate", d, lt, outs, invalidateRelease(pub, 1, d, lt))
Retire == Alive /\ Spend("retire", ZERO, 0, build_arp_retire(1), retire(1))

Mine == /\ tip < MaxTip /\ tip' = tip + 1
        /\ txs' = [i \in 1..Len(txs) |-> IF txs[i].height = 0 THEN [txs[i] EXCEPT !.height = tip + 1] ELSE txs[i]]
        /\ UNCHANGED <<pub, sigs, bond, gate>>

(* rabin_attestor_sign_digest, at the attestor's discretion: an honest one  *)
(* signs what it finds announced and never uses a number twice.             *)
NextSeq(a) == 1 + Cardinality({s \in sigs : s.by = a})
Attest == \E a \in Attestors, d \in Digests : \E seq \in 1..NextSeq(a) :
  /\ Cardinality(sigs) < MaxSigs /\ ~ Signed(a, d) /\ d.ann <= Len(txs) + 1
  /\ a \in Honest => Announces(d) /\ seq = NextSeq(a)
  /\ sigs' = sigs \cup {[by |-> a, seq |-> seq, digest |-> d]}
  /\ UNCHANGED <<tip, txs, pub, bond, gate>>

-----------------------------------------------------------------------------
(* The bond: anyone tops it up, anyone with two signatures slashes it, the  *)
(* operator withdraws it.  Funding of a spend is what it needs, or more.    *)
EndBond(status, outs) == bond' = [bond EXCEPT !.status = status, !.outs = outs]
BondSpend(base, demanded, funding) ==
  {outs \in update_change_output(base, funding + bond.sats, Fee) : bond.status = "live" /\ base \in demanded}

Stake == \E add \in Adds, extra \in 0..1 :
  /\ \E outs \in BondSpend(build_arp_attestor_stake(bond.sats, add), attestor_stake(bond.sats, add), add + Fee + extra) :
       bond' = [bond EXCEPT !.sats = outs[1].sats, !.staked = @ + add]
  /\ bond.staked = Value    \* bound: one top-up
  /\ UNCHANGED <<tip, txs, pub, sigs, gate>>
Slash == \E a, b \in sigs, funding \in 0..Fee :
  /\ a.by \notin Honest     \* the bond modelled is that of a dishonest attestor
  /\ \E outs \in BondSpend(build_arp_attestor_slash(bond.sats, "reporter"),
                           slashEquivocation(a, b, bond.sats, "reporter"), funding) :
       EndBond("slashed", outs)
  /\ UNCHANGED <<tip, txs, pub, sigs, gate>>
Withdraw == \E lt \in 1..tip, funding \in 0..Fee :
  /\ \E outs \in BondSpend(build_arp_attestor_withdraw(bond.sats), withdraw(bond.sats, lt), funding) :
       EndBond("withdrawn", outs)
  /\ UNCHANGED <<tip, txs, pub, sigs, gate>>

-----------------------------------------------------------------------------
(* release_anchor_verifier_verify, one callback at a time; a denial ends    *)
(* the call.                                                                *)
is_release_revoked(artifact) ==
  \E i \in 1..Len(txs) : txs[i].op = "invalidate" /\ txs[i].height > 0 /\ txs[i].of.artifact = artifact

Idle == [pc |-> "idle"]
Deny == gate' = Idle
GateUnchanged == UNCHANGED <<tip, txs, pub, sigs, bond>>

(* Trust set, namespace, bytes in hand and digest binding come first: a      *)
(* reference that fails one of them is denied without a question.           *)
VerifyBegins ==
  /\ gate = Idle
  /\ \E ref \in Artifacts, ann \in 1..Len(txs) :
       gate' = [pc |-> "announce", ref |-> ref, ann |-> ann, end |-> 0,
                unanswered |-> FALSE, was_revoked |-> is_release_revoked(ref)]
  /\ GateUnchanged

(* No answer from the chain: denied under fail_closed, let through without. *)
Unanswered(pc) == Deny \/ gate' = [gate EXCEPT !.pc = pc, !.unanswered = TRUE]

depth(t) == IF txs[t].height = 0 THEN 0 ELSE tip - txs[t].height + 1
LookupAnnounce ==
  /\ gate.pc = "announce"
  /\ \/ Deny                      \* an error, an unknown txid, no Merkle proof
     \/ depth(gate.ann) >= min_depth
        /\ gate' = [gate EXCEPT !.pc = "activate", !.end = txs[gate.ann].height + depth(gate.ann)]
  /\ GateUnchanged
LookupActivate ==
  /\ gate.pc = "activate"
  /\ \/ Deny
     \/ (\E act \in 1..Len(txs) : depth(act) >= 1) /\ gate' = [gate EXCEPT !.pc = "tip"]
  /\ GateUnchanged
TipHeight ==
  /\ gate.pc = "tip"
  /\ \/ tip - gate.end <= max_staleness /\ gate' = [gate EXCEPT !.pc = "attest"]
     \/ tip - gate.end > max_staleness /\ Deny
     \/ Unanswered("attest")
  /\ GateUnchanged

(* One duplicate, stranger or bad signature refuses them all.               *)
(* (Mutant: an attestor presented twice counts twice.)                      *)
quorum_of_repeated(atts, digest) ==
  /\ \A i \in 1..Len(atts) : atts[i] \in Attestors /\ Signed(atts[i], digest)
  /\ Len(atts) >= min_quorum
quorum_of(atts, digest) ==
  /\ \A i, j \in 1..Len(atts) : i # j => atts[i] # atts[j]
  /\ \A i \in 1..Len(atts) : atts[i] \in Attestors /\ Signed(atts[i], digest)
  /\ Len(atts) >= min_quorum
Attestations ==
  /\ gate.pc = "attest"
  /\ \/ \E n \in 0..3 : \E atts \in [1..n -> Attestors \cup {Outsider}] :
          /\ quorum_of(atts, [artifact |-> gate.ref, ann |-> gate.ann])
          /\ gate' = [gate EXCEPT !.pc = "revocation"]
     \/ Deny
  /\ GateUnchanged
RevocationCheck ==
  /\ gate.pc = "revocation"
  /\ \/ IF is_release_revoked(gate.ref) THEN Deny ELSE gate' = [gate EXCEPT !.pc = "ok"]
     \/ Unanswered("ok")
  /\ GateUnchanged
Installed == gate.pc = "ok" /\ Deny /\ GateUnchanged

-----------------------------------------------------------------------------
(* The bond outlives the thread; the two meet in the signatures only, so    *)
(* a behaviour is about one of them.                                        *)
NoBond == [status |-> "none", sats |-> 0, staked |-> 0, outs |-> <<>>]
ReleasesInit ==
  /\ tip = 1 /\ txs = <<>> /\ sigs = {}
  /\ \/ pub = publisher_genesis /\ bond = NoBond
     \/ pub = Retired /\ bond = [NoBond EXCEPT !.status = "live", !.sats = Value, !.staked = Value]
  /\ gate = Idle

ReleasesNext ==
  \/ Announce \/ Activate \/ Cancel \/ Invalidate \/ Retire \/ Mine \/ Attest
  \/ Stake \/ Slash \/ Withdraw
  \/ VerifyBegins \/ LookupAnnounce \/ LookupActivate \/ TipHeight \/ Attestations
  \/ RevocationCheck \/ Installed

ReleasesSpec == ReleasesInit /\ [][ReleasesNext]_releasesVars

-----------------------------------------------------------------------------
(* "One-pending-release invariant ... in-script nLocktime delay floor ...   *)
(* K-of-3 quorum on activate" (publisher_tea.h), read off the history:      *)
(* announcements alternate with what ends them, an activation comes the     *)
(* delay after its announcement by their locktimes, has a quorum behind it  *)
(* and carries the next number; the state holds what is pending.            *)
Pending(i) == {j \in 1..(i - 1) : txs[j].op \in {"announce", "activate", "cancel"}}
LastOf(S) == CHOOSE j \in S : \A k \in S : k <= j
ActivationsAreAnnounced ==
  /\ \A i \in 1..Len(txs) :
       /\ txs[i].op \in {"activate", "cancel"} =>
            Pending(i) # {} /\ txs[LastOf(Pending(i))].op = "announce"
       /\ txs[i].op = "announce" => Pending(i) = {} \/ txs[LastOf(Pending(i))].op # "announce"
       /\ txs[i].op = "activate" =>
            /\ txs[i].lt >= txs[LastOf(Pending(i))].lt + delaySeconds
            /\ Cardinality({a \in Attestors : Signed(a, txs[i].of)}) >= quorum
            /\ txs[i].count = Cardinality({j \in 1..(i - 1) : txs[j].op = "activate"})
  /\ Alive => LET all == Pending(Len(txs) + 1)
                  open == all # {} /\ txs[LastOf(all)].op = "announce" IN
       <<pub.pendingBundleHash, pub.pendingFileSetRoot, pub.pendingAnnounceTime>>
         = IF open THEN <<txs[LastOf(all)].of, txs[LastOf(all)].of, txs[LastOf(all)].lt>>
           ELSE <<ZERO, ZERO, 0>>

(* "install requires an SPV-verified, aged, threshold-attested, un-revoked  *)
(* release anchor or it fails closed" (release_anchor_verifier.h): while    *)
(* fewer attestors than the quorum are dishonest, what passes the gate was  *)
(* announced by the publisher min_depth blocks ago, whatever locktime it    *)
(* claims, and had not been invalidated when the call began.                *)
GateMeansPublished ==
  gate.pc = "ok" =>
    /\ Announces([artifact |-> gate.ref, ann |-> gate.ann])
    /\ txs[gate.ann].height > 0 /\ tip - txs[gate.ann].height + 1 >= min_depth
    /\ ~ gate.unanswered => ~ gate.was_revoked

(* The bond is paid out once and whole: top-ups included, to the operator   *)
(* after the unbonding floor, or half to the reporter and the odd satoshi   *)
(* burnt when its attestor signed two digests under one number.             *)
BondIsAccounted ==
  CASE bond.status \in {"none", "live"} -> bond.sats = bond.staked
    [] bond.status = "withdrawn" -> bond.outs[1] = Pay("operator", bond.staked) /\ tip >= unbondNotBefore
    [] OTHER ->
         /\ bond.outs[1].sats + bond.outs[2].sats = bond.staked
         /\ bond.outs[2].sats - bond.outs[1].sats \in 0..1
         /\ \E a, b \in sigs : a # b /\ a.by = b.by /\ a.seq = b.seq

(* "recompute the domain-tagged sha256 receipts identically to the          *)
(* contracts" (arp_tx_builder.h): in every state the thread gets into, what *)
(* the contract would accept at some locktime the builder makes, outputs    *)
(* and receipt alike, once the locktime is staged.                          *)
BuildersFit ==
  Alive => \A lt \in 1..tip, a \in Artifacts, d \in {txs[i].of : i \in {j \in 1..Len(txs) : txs[j].op = "activate"}} \cup {ZERO} :
    /\ announceRelease(pub, 1, a, a, lt) \subseteq {build_arp_announce(pub, 1, a, a, lt)}
    /\ activateRelease(pub, 1, d, Attestors, Attestors, lt) \subseteq {build_arp_activate(staged(pub, lt), 1, d)}
    /\ cancelPending(pub, 1, lt) \subseteq {build_arp_cancel(staged(pub, lt), 1)}

(* The same of invalidateRelease, the emergency stop after an activation.   *)
InvalidateFits ==
  Alive => \A i \in 1..Len(txs), lt \in 1..tip :
    txs[i].op = "activate" =>
      invalidateRelease(pub, 1, txs[i].of, lt)
        \subseteq {build_arp_invalidate(c, 1, txs[i].of) : c \in {pub, staged(pub, lt)}}
=============================================================================
