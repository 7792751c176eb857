--------------------------- MODULE ArpContracts ---------------------------
(***************************************************************************)
(* The ARP-1 contracts and the C code that spends them.  PublisherTea is   *)
(* announce, delay, activate for one pending release at a time; AttestorTea *)
(* is an attestor's bond.  For every method there is what the contract     *)
(* demands of the outputs (artifacts/src/contracts-next/*.scrypt) and what *)
(* the builder appends (contracts_next/*.c, txbuilders/arp_tx_builder.c).  *)
(* Hashes are the tuples they commit to; change comes after these outputs. *)
(***************************************************************************)
EXTENDS Integers, Sequences, FiniteSets

CONSTANTS ZERO,            \* the 32 zero bytes
          Attestors,       \* attestorPubKeys of the charter
          quorum, delaySeconds, unbondNotBefore

ASSUME ArpConstants ==
  /\ IsFiniteSet(Attestors) /\ quorum \in 1..Cardinality(Attestors)
  /\ delaySeconds \in Nat /\ unbondNotBefore \in Nat

State(s, sats) == [type |-> "state", state |-> s, sats |-> sats]
Pay(who, sats) == [type |-> "p2pkh", to |-> who, sats |-> sats]
Data(d, sats) == [type |-> "opreturn", data |-> d, sats |-> sats]

publisher_genesis == [pendingBundleHash |-> ZERO, pendingFileSetRoot |-> ZERO,
                      pendingAnnounceTime |-> 0, releaseCount |-> 0]
announced(s, bundle, root, now) ==
  [s EXCEPT !.pendingBundleHash = bundle, !.pendingFileSetRoot = root, !.pendingAnnounceTime = now]
cleared(s) == announced(s, ZERO, ZERO, 0)
activated(s) == [cleared(s) EXCEPT !.releaseCount = @ + 1]

-----------------------------------------------------------------------------
(* PublisherTea: the outputs a method demands, none when it refuses.        *)
(* (Mutant: a second announcement replaces a pending one.)                  *)
announceRelease_replacing(s, sats, bundle, root, now) ==
  {outs \in {<<State(announced(s, bundle, root, now), sats),
               Data(<<"ANNOUNCE", bundle, root, s.releaseCount, now>>, 0)>>} :
     bundle # ZERO}
announceRelease(s, sats, bundle, root, now) ==
  {outs \in {<<State(announced(s, bundle, root, now), sats),
               Data(<<"ANNOUNCE", bundle, root, s.releaseCount, now>>, 0)>>} :
     s.pendingBundleHash = ZERO /\ bundle # ZERO}

(* signed: the attestors with a valid signature over the digest.            *)
check_quorum(used, signed) == used \subseteq signed /\ Cardinality(used) >= quorum
activateRelease(s, sats, digest, used, signed, now) ==
  {outs \in {<<State(activated(s), sats),
               Data(<<"ACTRCPT", digest, s.releaseCount, now>>, 0)>>} :
     /\ s.pendingBundleHash # ZERO
     /\ now >= s.pendingAnnounceTime + delaySeconds
     /\ check_quorum(used, signed)}

cancelPending(s, sats, now) ==
  {outs \in {<<State(cleared(s), sats), Data(<<"CANCEL", s.pendingBundleHash, now>>, 0)>>} :
     s.pendingBundleHash # ZERO}

invalidateRelease(s, sats, digest, now) ==
  {<<State(s, sats), Data(<<"INVALIDATE", digest, now>>, 0)>>}

retire(sats) == {<<Pay("publisher", sats)>>}

-----------------------------------------------------------------------------
(* AttestorTea.                                                             *)
(* (Mutant: the same message twice is taken for two.)                       *)
check_equivocation_any(a, b) == a.by = b.by /\ a.seq = b.seq
check_equivocation(a, b) == a.by = b.by /\ a.seq = b.seq /\ a.digest # b.digest
slashEquivocation(a, b, sats, reporter) ==
  {outs \in {<<Pay(reporter, sats \div 2), Data("SLASHED", sats - sats \div 2)>>} :
     check_equivocation(a, b)}
attestor_stake(sats, addAmount) == {outs \in {<<State("bond", sats + addAmount)>>} : addAmount > 0}
withdraw(sats, now) == {outs \in {<<Pay("operator", sats)>>} : now >= unbondNotBefore}

-----------------------------------------------------------------------------
(* The C side.  c is the caller's copy of the state; the receipts of        *)
(* activate, cancel and invalidate take the locktime from its               *)
(* pendingAnnounceTime, where the caller has to put it first.               *)
staged(c, now) == [c EXCEPT !.pendingAnnounceTime = now]

announce_receipt(c, bundle, root, now) == <<"ANNOUNCE", bundle, root, c.releaseCount, now>>
(* (Mutant: the count after the increment.)                                 *)
activate_receipt_counted(c, digest) == <<"ACTRCPT", digest, c.releaseCount + 1, c.pendingAnnounceTime>>
activate_receipt(c, digest) == <<"ACTRCPT", digest, c.releaseCount, c.pendingAnnounceTime>>
cancel_receipt(c) == <<"CANCEL", c.pendingBundleHash, c.pendingAnnounceTime>>
invalidate_receipt(c, digest) == <<"INVALIDATE", digest, c.pendingAnnounceTime>>

state_and_receipt_tx(next, sats, receipt) == <<State(next, sats), Data(receipt, 0)>>
build_arp_announce(c, sats, bundle, root, now) ==
  state_and_receipt_tx(announced(c, bundle, root, now), sats, announce_receipt(c, bundle, root, now))
build_arp_activate(c, sats, digest) ==
  state_and_receipt_tx(activated(c), sats, activate_receipt(c, digest))
build_arp_cancel(c, sats) == state_and_receipt_tx(cleared(c), sats, cancel_receipt(c))
build_arp_invalidate(c, sats, digest) == state_and_receipt_tx(c, sats, invalidate_receipt(c, digest))
build_arp_retire(sats) == <<Pay("publisher", sats)>>
build_arp_attestor_slash(sats, reporter) ==
  <<Pay(reporter, sats \div 2), Data("SLASHED", sats - sats \div 2)>>
build_arp_attestor_stake(sats, addAmount) == <<State("bond", sats + addAmount)>>
build_arp_attestor_withdraw(sats) == <<Pay("operator", sats)>>

SumOf(outs) == LET f[i \in 0..Len(outs)] == IF i = 0 THEN 0 ELSE f[i - 1] + outs[i].sats IN f[Len(outs)]
(* update_change_output on top: a seed that does not cover the outputs and  *)
(* the fee is refused, dust is left to the fee.  The result is a set.       *)
DUST_AMOUNT == 1
update_change_output(outs, seed, fee) ==
  LET left == seed - SumOf(outs) - fee IN
  IF left < 0 THEN {} ELSE {IF left >= DUST_AMOUNT THEN Append(outs, Pay("change", left)) ELSE outs}
=============================================================================
