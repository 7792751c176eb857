-------------------------- MODULE KeyBrokerProofs --------------------------
(***************************************************************************)
(* Proofs about the revocation oracle and the key broker on top of it: for *)
(* any identities, hop limit and threads of any length, any keys, scopes   *)
(* and caps, and for restarts at any point.                                *)
(***************************************************************************)
EXTENDS KeyBroker, SumTheorems, SequenceTheorems

(***************************************************************************)
(* The revocation oracle.                                                  *)
(***************************************************************************)
(* What a step of the chain does to a thread: it only gets longer.          *)
LEMMA SpendExtends ==
  ASSUME OracleTypeOK, NEW id \in Ids, NEW kind \in Kinds, Spend(id, kind)
  PROVE  /\ thread' \in [Ids -> Seq(Kinds)]
         /\ \A j \in Ids :
              /\ Len(thread[j]) \in Nat /\ Len(thread'[j]) \in Nat
              /\ Len(thread[j]) <= Len(thread'[j])
              /\ \A i \in 1..Len(thread[j]) : thread'[j][i] = thread[j][i]
PROOF
<1>1. thread[id] \in Seq(Kinds)
  BY DEF OracleTypeOK
<1>2. /\ Append(thread[id], kind) \in Seq(Kinds)
      /\ Len(Append(thread[id], kind)) = Len(thread[id]) + 1
      /\ \A i \in 1..Len(thread[id]) : Append(thread[id], kind)[i] = thread[id][i]
  BY <1>1, AppendProperties
<1>3. thread' = [thread EXCEPT ![id] = Append(@, kind)]
  BY DEF Spend
<1>4. thread' \in [Ids -> Seq(Kinds)]
  BY <1>2, <1>3 DEF OracleTypeOK
<1>5. ASSUME NEW j \in Ids
      PROVE  /\ Len(thread[j]) \in Nat /\ Len(thread'[j]) \in Nat
             /\ Len(thread[j]) <= Len(thread'[j])
             /\ \A i \in 1..Len(thread[j]) : thread'[j][i] = thread[j][i]
  <2>1. CASE j = id
    BY <1>1, <1>2, <1>3, <2>1 DEF OracleTypeOK
  <2>2. CASE j # id
    BY <1>3, <2>2 DEF OracleTypeOK
  <2> QED BY <2>1, <2>2
<1> QED BY <1>4, <1>5

(* The fault counter stays within its bound.                                *)
LEMMA FaultInRange ==
  ASSUME faults \in 0..MaxFaults, Fault PROVE faults' \in 0..MaxFaults
  BY OracleConstants DEF Fault

(* The fields of a walk after one more hop.                                 *)
LEMMA HopFields ==
  ASSUME NEW w \in Walk
  PROVE  /\ hop(w) \in Walk
         /\ hop(w).id = w.id /\ hop(w).at = w.at + 1
         /\ hop(w).ended = w.ended /\ hop(w).lagged = w.lagged
         /\ hop(w).phase \in {"spending", "error"}
PROOF
<1> DEFINE next == IF w.hops + 1 < MaxHops THEN "spending" ELSE "error"
<1>1. next \in {"spending", "error"}
  OBVIOUS
<1>2. hop(w) = [w EXCEPT !.at = w.at + 1, !.hops = w.hops + 1, !.phase = next]
  BY DEF hop
<1>3. /\ w.at + 1 \in Nat /\ w.hops + 1 \in Nat
  BY DEF Walk
<1> HIDE DEF next
<1> QED BY <1>1, <1>2, <1>3 DEF Walk, Phases

(* Types are preserved by every step of the oracle and of the chain.        *)
LEMMA OracleTypeStep == OracleTypeOK /\ [OracleNext]_oracleVars => OracleTypeOK'
PROOF
<1> SUFFICES ASSUME OracleTypeOK, [OracleNext]_oracleVars PROVE OracleTypeOK'
  OBVIOUS
<1>1. ASSUME NEW id \in Ids, Ask(id) PROVE OracleTypeOK'
  BY <1>1, OracleConstants
     DEF Ask, is_revoked, start_walk, Ended, OracleTypeOK, Walk, Phases
<1>2. ASSUME NEW id \in Ids, NEW kind \in Kinds, Spend(id, kind) PROVE OracleTypeOK'
  BY <1>2, SpendExtends DEF Spend, OracleTypeOK
<1>3. CASE SpenderFound
  BY <1>3 DEF SpenderFound, OracleTypeOK, Walk, Phases
<1>4. CASE Unspent
  <2>1. walk' \in Walk
    BY <1>4 DEF Unspent, OracleTypeOK, Walk, Phases
  <2>2. live_tips' \in [Ids -> Nat]
    BY <1>4 DEF Unspent, live_tip_set, OracleTypeOK, Walk
  <2>3. faults' \in 0..MaxFaults
    BY <1>4, FaultInRange DEF Unspent, OracleTypeOK
  <2> QED BY <1>4, <2>1, <2>2, <2>3 DEF Unspent, OracleTypeOK
<1>5. CASE TerminalFound
  BY <1>5 DEF TerminalFound, live_tip_set, OracleTypeOK, Walk, Phases
<1>6. CASE Hop
  BY <1>6, HopFields DEF Hop, OracleTypeOK
<1>7. CASE GarbledHop
  BY <1>7, HopFields, FaultInRange DEF GarbledHop, OracleTypeOK, Walk
<1>8. CASE RequestFails
  BY <1>8, FaultInRange DEF RequestFails, OracleTypeOK, Walk, Phases
<1>9. CASE UNCHANGED oracleVars
  BY <1>9 DEF oracleVars, OracleTypeOK
<1> QED BY <1>1, <1>2, <1>3, <1>4, <1>5, <1>6, <1>7, <1>8, <1>9 DEF OracleNext, WalkStep

(* The oracle and the chain keep their types, for any bounds.               *)
THEOREM OracleTypeCorrect == OracleSpec => []OracleTypeOK
PROOF
<1>1. OracleInit => OracleTypeOK
  BY OracleConstants DEF OracleInit, OracleTypeOK, Walk, Phases, Kinds
<1> QED BY <1>1, OracleTypeStep, PTL DEF OracleSpec

-----------------------------------------------------------------------------
(* The inductive invariant.  CachesAreSound alone is not inductive: the     *)
(* walk in progress is about to become a cached tip, so it must be on the   *)
(* identity too, and its identity must not be in the permanent cache yet.   *)
Walking == walk.phase \in {"spending", "raw"}

ThreadStarts == \A id \in Ids : Len(thread[id]) >= 1 /\ thread[id][1] = "state"
TipsInThread == \A id \in Ids : live_tips[id] <= Len(thread[id])
WalkSound ==
  /\ Walking => walk.id \notin revoked /\ walk.at <= Len(thread[walk.id])
  /\ walk.phase = "raw" => walk.at < Len(thread[walk.id])
  /\ Walking /\ walk.id \notin garbled => OnIdentity(walk.id, walk.at)
  /\ walk.ended => Ended(walk.id)

OracleInv ==
  /\ OracleTypeOK /\ ThreadStarts /\ TipsInThread
  /\ CachesAreSound /\ WalkSound /\ LiveIsCurrent

(* An identity of which every transaction recreates the state has not       *)
(* ended.                                                                   *)
LEMMA WholeThreadOnIdentity ==
  ASSUME OracleTypeOK, NEW id \in Ids, OnIdentity(id, Len(thread[id]))
  PROVE  ~ Ended(id)
  BY DEF OnIdentity, Ended, Kinds

(* The next call: it resumes on the identity.                               *)
LEMMA AskKeepsInv ==
  ASSUME OracleInv, OracleTypeOK', NEW id \in Ids, Ask(id)
  PROVE  OracleInv'
PROOF
<1> USE DEF OracleInv
<1>1. /\ walk' = start_walk(id)
      /\ UNCHANGED <<thread, revoked, live_tips, garbled, faults>>
  BY DEF Ask, is_revoked
<1>2. /\ walk'.id = id /\ walk'.ended = Ended(id)
      /\ walk'.at = IF live_tips[id] = 0 THEN 1 ELSE live_tips[id]
      /\ walk'.phase \in {"revoked", "error", "spending"}
      /\ walk'.phase = "spending" => id \notin revoked
  BY <1>1 DEF start_walk
<1>3. Ended(id)' = Ended(id)
  BY <1>1 DEF Ended
<1>4. walk'.at <= Len(thread[id])
  BY <1>2 DEF ThreadStarts, TipsInThread, OracleTypeOK
<1>5. id \notin garbled => OnIdentity(id, walk'.at)
  BY <1>2, <1>4 DEF CachesAreSound, OnIdentity, ThreadStarts, OracleTypeOK
<1>6. WalkSound'
  BY <1>1, <1>2, <1>3, <1>4, <1>5 DEF WalkSound, Walking, OnIdentity
<1>7. ThreadStarts' /\ TipsInThread' /\ CachesAreSound'
  BY <1>1 DEF ThreadStarts, TipsInThread, CachesAreSound, OnIdentity, Ended
<1>8. LiveIsCurrent'
  BY <1>2 DEF LiveIsCurrent
<1> QED BY <1>6, <1>7, <1>8

(* The chain grows under the walk: nothing it has established is undone.    *)
LEMMA SpendKeepsInv ==
  ASSUME OracleInv, OracleTypeOK', NEW id \in Ids, NEW kind \in Kinds, Spend(id, kind)
  PROVE  OracleInv'
PROOF
<1> USE DEF OracleInv
<1>1. UNCHANGED <<revoked, live_tips, walk, garbled, faults>>
  BY DEF Spend
<1>2. \A j \in Ids :
        /\ Len(thread[j]) \in Nat /\ Len(thread'[j]) \in Nat
        /\ Len(thread[j]) <= Len(thread'[j])
        /\ \A i \in 1..Len(thread[j]) : thread'[j][i] = thread[j][i]
  BY SpendExtends
<1>3. \A j \in Ids : Ended(j) => Ended(j)'
  BY <1>2 DEF Ended
<1>4. \A j \in Ids, n \in Nat : OnIdentity(j, n) => OnIdentity(j, n)'
  BY <1>2 DEF OnIdentity
<1>5. walk.id \in Ids /\ walk.at \in Nat /\ live_tips \in [Ids -> Nat]
  BY DEF OracleTypeOK, Walk
<1>6. ThreadStarts'
  BY <1>2 DEF ThreadStarts
<1>7. TipsInThread'
  BY <1>1, <1>2, <1>5 DEF TipsInThread
<1>8. CachesAreSound'
  BY <1>1, <1>3, <1>4, <1>5 DEF CachesAreSound
<1>9. WalkSound'
  BY <1>1, <1>2, <1>3, <1>4, <1>5 DEF WalkSound, Walking
<1>10. LiveIsCurrent'
  BY <1>1 DEF LiveIsCurrent
<1> QED BY <1>6, <1>7, <1>8, <1>9, <1>10

(* The answers of the explorer.                                             *)
LEMMA WalkKeepsInv ==
  ASSUME OracleInv, OracleTypeOK', WalkStep
  PROVE  OracleInv'
PROOF
<1> USE DEF OracleInv
<1>1. walk \in Walk /\ walk.id \in Ids /\ walk.at \in Nat /\ Len(thread[walk.id]) \in Nat
      /\ live_tips \in [Ids -> Nat]
  BY DEF OracleTypeOK, Walk
<1>2. thread' = thread
  BY DEF WalkStep, SpenderFound, Unspent, TerminalFound, Hop, GarbledHop, RequestFails
<1>3. ThreadStarts'
  BY <1>2 DEF ThreadStarts
<1>4. \A j \in Ids : Ended(j)' = Ended(j)
  BY <1>2 DEF Ended
<1>5. \A j \in Ids, n \in Nat : OnIdentity(j, n)' = OnIdentity(j, n)
  BY <1>2 DEF OnIdentity
<1>6. CASE SpenderFound
  <2>1. /\ walk' = [walk EXCEPT !.phase = "raw"] /\ walk.phase = "spending"
        /\ walk.at < Len(thread[walk.id])
        /\ UNCHANGED <<revoked, live_tips, garbled, faults>>
    BY <1>6 DEF SpenderFound
  <2>2. /\ walk'.phase = "raw" /\ walk'.id = walk.id /\ walk'.at = walk.at
        /\ walk'.ended = walk.ended
    BY <1>1, <2>1 DEF Walk
  <2>3. TipsInThread' /\ CachesAreSound'
    BY <1>1, <1>2, <1>4, <1>5, <2>1 DEF TipsInThread, CachesAreSound
  <2>4. WalkSound'
    BY <1>1, <1>2, <1>4, <1>5, <2>1, <2>2 DEF WalkSound, Walking
  <2> QED BY <1>3, <2>2, <2>3, <2>4 DEF LiveIsCurrent
<1>7. CASE Unspent
  <2>1. /\ live_tips' = [live_tips EXCEPT ![walk.id] = walk.at]
        /\ walk' = [walk EXCEPT !.phase = "live", !.lagged = @ \/ walk.at < Len(thread[walk.id])]
        /\ walk.phase = "spending"
        /\ UNCHANGED <<revoked, garbled>>
    BY <1>7 DEF Unspent, live_tip_set
  <2>2. /\ walk'.phase = "live" /\ walk'.id = walk.id /\ walk'.ended = walk.ended
        /\ walk'.lagged = (walk.lagged \/ walk.at < Len(thread[walk.id]))
    BY <1>1, <2>1 DEF Walk
  <2>3. TipsInThread'
    BY <1>1, <1>2, <2>1 DEF TipsInThread, WalkSound, Walking
  <2>4. CachesAreSound'
    <3> SUFFICES ASSUME NEW j \in Ids
                 PROVE  /\ j \in revoked' => Ended(j) /\ live_tips'[j] = 0
                        /\ j \notin garbled' => OnIdentity(j, live_tips'[j])
      BY <1>2 DEF CachesAreSound, OnIdentity, Ended
    <3>1. CASE j = walk.id
      BY <1>1, <1>4, <1>5, <2>1, <3>1 DEF WalkSound, Walking
    <3>2. CASE j # walk.id
      BY <1>1, <1>4, <1>5, <2>1, <3>2 DEF CachesAreSound
    <3> QED BY <3>1, <3>2
  <2>5. WalkSound'
    BY <1>1, <1>4, <2>2 DEF WalkSound, Walking
  <2>6. LiveIsCurrent'
    <3> SUFFICES ASSUME walk.ended, ~ walk'.lagged, walk.id \notin garbled PROVE FALSE
      BY <2>1, <2>2 DEF LiveIsCurrent
    <3>1. ~ (walk.at < Len(thread[walk.id])) /\ walk.at <= Len(thread[walk.id])
      BY <2>1, <2>2 DEF WalkSound, Walking
    <3>2. walk.at = Len(thread[walk.id])
      BY <1>1, <3>1
    <3>3. OnIdentity(walk.id, Len(thread[walk.id]))
      BY <2>1, <3>2 DEF WalkSound, Walking
    <3> QED BY <1>1, <3>3, WholeThreadOnIdentity DEF WalkSound
  <2> QED BY <1>3, <2>3, <2>4, <2>5, <2>6
<1>8. CASE TerminalFound
  <2>1. /\ walk.phase = "raw" /\ thread[walk.id][walk.at + 1] = "payout"
        /\ revoked' = revoked \cup {walk.id}
        /\ live_tips' = [live_tips EXCEPT ![walk.id] = 0]
        /\ walk' = [walk EXCEPT !.phase = "revoked"]
        /\ UNCHANGED garbled
    BY <1>8 DEF TerminalFound, is_terminal_spend, live_tip_set
  <2>2. walk'.phase = "revoked" /\ walk'.id = walk.id /\ walk'.ended = walk.ended
    BY <1>1, <2>1 DEF Walk
  <2>3. Ended(walk.id)
    BY <1>1, <2>1 DEF Ended, WalkSound
  <2>4. TipsInThread'
    BY <1>1, <1>2, <2>1 DEF TipsInThread
  <2>5. CachesAreSound'
    <3> SUFFICES ASSUME NEW j \in Ids
                 PROVE  /\ j \in revoked' => Ended(j) /\ live_tips'[j] = 0
                        /\ j \notin garbled' => OnIdentity(j, live_tips'[j])
      BY <1>2 DEF CachesAreSound, OnIdentity, Ended
    <3>1. CASE j = walk.id
      <4>1. OnIdentity(j, 0)
        BY <1>1, <3>1 DEF OnIdentity
      <4> QED BY <1>1, <1>4, <1>5, <2>1, <2>3, <3>1, <4>1
    <3>2. CASE j # walk.id
      BY <1>1, <1>4, <1>5, <2>1, <3>2 DEF CachesAreSound
    <3> QED BY <3>1, <3>2
  <2>6. WalkSound'
    BY <1>1, <1>4, <2>2, <2>3 DEF WalkSound, Walking
  <2> QED BY <1>3, <2>2, <2>4, <2>5, <2>6 DEF LiveIsCurrent
<1>9. CASE Hop
  <2>1. /\ walk.phase = "raw" /\ thread[walk.id][walk.at + 1] # "payout"
        /\ walk' = hop(walk)
        /\ UNCHANGED <<revoked, live_tips, garbled>>
    BY <1>9 DEF Hop, is_terminal_spend
  <2>2. /\ walk'.id = walk.id /\ walk'.at = walk.at + 1 /\ walk'.ended = walk.ended
        /\ walk'.phase \in {"spending", "error"}
    BY <1>1, <2>1, HopFields
  <2>3. walk.at + 1 \in 1..Len(thread[walk.id])
    BY <1>1, <2>1 DEF WalkSound
  <2>4. thread[walk.id][walk.at + 1] = "state"
    BY <1>1, <2>1, <2>3 DEF OracleTypeOK, Kinds
  <2>5. walk.id \notin garbled => OnIdentity(walk.id, walk.at + 1)
    BY <1>1, <2>1, <2>3, <2>4 DEF WalkSound, Walking, OnIdentity
  <2>6. TipsInThread' /\ CachesAreSound'
    BY <1>1, <1>2, <1>4, <1>5, <2>1 DEF TipsInThread, CachesAreSound
  <2>7. WalkSound'
    BY <1>1, <1>2, <1>4, <1>5, <2>1, <2>2, <2>3, <2>5 DEF WalkSound, Walking
  <2> QED BY <1>3, <2>2, <2>6, <2>7 DEF LiveIsCurrent
<1>10. CASE GarbledHop
  <2>1. /\ walk.phase = "raw" /\ walk' = hop(walk)
        /\ garbled' = garbled \cup {walk.id}
        /\ UNCHANGED <<revoked, live_tips>>
    BY <1>10 DEF GarbledHop
  <2>2. /\ walk'.id = walk.id /\ walk'.at = walk.at + 1 /\ walk'.ended = walk.ended
        /\ walk'.phase \in {"spending", "error"}
    BY <1>1, <2>1, HopFields
  <2>3. TipsInThread' /\ CachesAreSound'
    BY <1>1, <1>2, <1>4, <1>5, <2>1 DEF TipsInThread, CachesAreSound
  <2>4. WalkSound'
    BY <1>1, <1>2, <1>4, <2>1, <2>2 DEF WalkSound, Walking
  <2> QED BY <1>3, <2>2, <2>3, <2>4 DEF LiveIsCurrent
<1>11. CASE RequestFails
  <2>1. /\ walk' = [walk EXCEPT !.phase = "error"]
        /\ UNCHANGED <<revoked, live_tips, garbled>>
    BY <1>11 DEF RequestFails
  <2>2. walk'.phase = "error" /\ walk'.id = walk.id /\ walk'.ended = walk.ended
    BY <1>1, <2>1 DEF Walk
  <2>3. TipsInThread' /\ CachesAreSound'
    BY <1>1, <1>2, <1>4, <1>5, <2>1 DEF TipsInThread, CachesAreSound
  <2>4. WalkSound'
    BY <1>1, <1>4, <2>2 DEF WalkSound, Walking
  <2> QED BY <1>3, <2>2, <2>3, <2>4 DEF LiveIsCurrent
<1> QED BY <1>6, <1>7, <1>8, <1>9, <1>10, <1>11 DEF WalkStep

(* The invariant holds at the start and is kept by every step.              *)
LEMMA OracleInvInit == OracleInit => OracleInv
PROOF
<1> SUFFICES ASSUME OracleInit PROVE OracleInv
  OBVIOUS
<1>1. OracleTypeOK
  BY OracleConstants DEF OracleInit, OracleTypeOK, Walk, Phases, Kinds
<1>2. \A id \in Ids : thread[id] = <<"state">> /\ live_tips[id] = 0
  BY DEF OracleInit
<1>3. walk.phase = "idle" /\ ~ walk.ended
  BY DEF OracleInit
<1>4. ThreadStarts /\ TipsInThread
  BY <1>2 DEF ThreadStarts, TipsInThread
<1>5. CachesAreSound
  <2>1. ASSUME NEW id \in Ids PROVE OnIdentity(id, 0)
    <3>1. Len(thread[id]) \in Nat
      BY <1>1 DEF OracleTypeOK
    <3> QED BY <3>1 DEF OnIdentity
  <2>2. revoked = {}
    BY DEF OracleInit
  <2> QED BY <1>2, <2>1, <2>2 DEF CachesAreSound
<1> QED BY <1>1, <1>3, <1>4, <1>5 DEF OracleInv, WalkSound, Walking, LiveIsCurrent

(* The step of the induction, used by the broker's proofs as well.          *)
LEMMA OracleInvStep == OracleInv /\ [OracleNext]_oracleVars => OracleInv'
PROOF
<1> SUFFICES ASSUME OracleInv, [OracleNext]_oracleVars PROVE OracleInv'
  OBVIOUS
<1>1. OracleTypeOK'
  BY OracleTypeStep DEF OracleInv
<1>2. CASE UNCHANGED oracleVars
  BY <1>2 DEF oracleVars, OracleInv, OracleTypeOK, ThreadStarts, TipsInThread, CachesAreSound,
              OnIdentity, Ended, WalkSound, Walking, LiveIsCurrent
<1> QED BY <1>1, <1>2, AskKeepsInv, SpendKeepsInv, WalkKeepsInv DEF OracleNext

(* The invariant holds in every reachable state.                            *)
LEMMA OracleInvariant == OracleSpec => []OracleInv
  BY OracleInvInit, OracleInvStep, PTL DEF OracleSpec

(* For any number of identities, threads of any length, any hop limit and   *)
(* any pattern of late and failing answers, the permanent cache and the     *)
(* live-tip cache hold no lie; garbled answers about the identity excepted. *)
THEOREM OracleCachesSound == OracleSpec => []CachesAreSound
PROOF
<1>1. OracleInv => CachesAreSound
  BY DEF OracleInv
<1> QED BY <1>1, OracleInvariant, PTL

(* An answer "live" of is_revoked was true when the call began, unless an   *)
(* answer during the call hid a spend or one ever garbled it.               *)
THEOREM OracleLiveIsCurrent == OracleSpec => []LiveIsCurrent
PROOF
<1>1. OracleInv => LiveIsCurrent
  BY DEF OracleInv
<1> QED BY <1>1, OracleInvariant, PTL

(* A revocation once seen is never forgotten or contradicted.               *)
THEOREM RevocationStays == OracleSpec => RevocationIsPermanent
PROOF
<1> DEFINE Stays == /\ revoked \subseteq revoked'
                    /\ walk' # walk /\ walk'.id \in revoked => walk'.phase = "revoked"
<1>1. ASSUME OracleInv, OracleNext PROVE Stays
  <2>1. walk \in Walk
    BY <1>1 DEF OracleInv, OracleTypeOK
  <2>2. ASSUME NEW id \in Ids, Ask(id) PROVE Stays
    BY <2>2 DEF Ask, is_revoked, start_walk
  <2>3. ASSUME NEW id \in Ids, NEW kind \in Kinds, Spend(id, kind) PROVE Stays
    BY <2>3 DEF Spend
  <2>4. CASE WalkStep
    <3>1. walk.id \notin revoked
      BY <1>1, <2>4 DEF WalkStep, SpenderFound, Unspent, TerminalFound, Hop, GarbledHop,
                        RequestFails, OracleInv, WalkSound, Walking
    <3>2. walk'.id = walk.id
      BY <2>1, <2>4, HopFields
         DEF WalkStep, SpenderFound, Unspent, TerminalFound, Hop, GarbledHop, RequestFails, Walk
    <3>3. revoked \subseteq revoked'
      BY <2>4 DEF WalkStep, SpenderFound, Unspent, TerminalFound, Hop, GarbledHop, RequestFails
    <3> QED BY <3>1, <3>2, <3>3
  <2> QED BY <1>1, <2>2, <2>3, <2>4 DEF OracleNext
<1>2. OracleInv /\ [OracleNext]_oracleVars => [Stays]_oracleVars
  BY <1>1
<1> QED BY <1>2, OracleInvariant, PTL DEF OracleSpec, RevocationIsPermanent

(***************************************************************************)
(* The key broker.                                                         *)
(***************************************************************************)
(* A grant as the history keeps it.                                         *)
Grant == [n : Nat, amount : Nat, at : Nat, ended : BOOLEAN, lagged : BOOLEAN]

(* The calls in progress.                                                   *)
IssueCall == [op : {"verify", "mint"}, key : KeyIds, id : Ids, scopes : SUBSET Scopes]
AuthorizeCall == [op : {"authorize"}, key : KeyIds, scope : Scopes, amount : Requests]

BrokerTypeOK ==
  /\ keys \in [KeyIds -> Key \cup {NoKey}]
  /\ call \in {NoCall} \cup IssueCall \cup AuthorizeCall
  /\ now \in Nat
  /\ granted \in [KeyIds -> SUBSET Grant]

(* The inductive invariant.  What the broker decides on when the oracle     *)
(* returns was read before the walk: the key it looked up is still there,   *)
(* is not latched and is the key of the identity that was asked about; and  *)
(* an answer "live" is not about an identity in the permanent cache.        *)
CallSound ==
  /\ Walking => call.op \in {"mint", "authorize"}
  /\ call.op = "authorize" =>
       /\ keys[call.key] # NoKey
       /\ ~ keys[call.key].revoked_locally
       /\ walk.id = keys[call.key].id
       /\ walk.phase = "live" => walk.id \notin revoked
NoKeyNoGrant == \A k \in KeyIds : keys[k] = NoKey => granted[k] = {}
GrantsNumbered ==
  \A k \in KeyIds : IsFiniteSet(granted[k])
                    /\ \A g \in granted[k] : g.n \in 1..Cardinality(granted[k])

BrokerInv ==
  /\ OracleInv /\ BrokerTypeOK /\ CallSound
  /\ NoKeyNoGrant /\ GrantsNumbered /\ GrantMeansLive

(* A charge keeps the accountant well formed.                               *)
LEMMA ChargeType ==
  ASSUME NEW acc \in Accountant, NEW amount \in Int, NEW t \in Nat
  PROVE  charge(acc, amount, t) \in Accountant
PROOF
<1>1. CASE charge_allowed(acc, amount, t)
  <2>1. amount \in Nat
    BY <1>1 DEF charge_allowed
  <2>2. Base(acc, t) + amount \in Nat
    BY <2>1 DEF Base, Accountant
  <2>3. (IF RolledOver(acc, t) THEN t ELSE acc.start) \in Int
    BY DEF Accountant
  <2>4. charge(acc, amount, t) = charge_commit(acc, amount, t)
    BY <1>1 DEF charge
  <2> QED BY <2>2, <2>3, <2>4 DEF charge_commit, Accountant
<1>2. CASE ~ charge_allowed(acc, amount, t)
  BY <1>2 DEF charge
<1> QED BY <1>1, <1>2

(* A step of the walk stays with its identity, and ends or goes on.         *)
LEMMA WalkStepShape ==
  ASSUME OracleInv, WalkStep
  PROVE  /\ Walking /\ walk'.id = walk.id /\ thread' = thread
         /\ walk'.phase = "live" => walk.id \notin revoked'
         /\ garbled \subseteq garbled'
PROOF
<1>1. walk \in Walk
  BY DEF OracleInv, OracleTypeOK
<1>2. Walking
  BY DEF WalkStep, SpenderFound, Unspent, TerminalFound, Hop, GarbledHop, RequestFails, Walking
<1>3. walk'.id = walk.id
  BY <1>1, HopFields
     DEF WalkStep, SpenderFound, Unspent, TerminalFound, Hop, GarbledHop, RequestFails, Walk
<1>4. thread' = thread /\ garbled \subseteq garbled'
  BY DEF WalkStep, SpenderFound, Unspent, TerminalFound, Hop, GarbledHop, RequestFails
<1>5. walk'.phase = "live" => revoked' = revoked
  BY <1>1 DEF WalkStep, SpenderFound, Unspent, TerminalFound, Hop, GarbledHop, RequestFails, Walk
<1>6. walk.id \notin revoked
  BY <1>2 DEF OracleInv, WalkSound
<1> QED BY <1>2, <1>3, <1>4, <1>5, <1>6

(* A new walk may only begin where the last one is over.                    *)
LEMMA BeginIsAsk ==
  ASSUME OracleInv, CallSound, call.op \in {"none", "verify"}, NEW id, is_revoked(id)
  PROVE  Ask(id)
PROOF
<1>1. walk.phase \in Phases
  BY DEF OracleInv, OracleTypeOK, Walk
<1> QED BY <1>1 DEF CallSound, Walking, Ask, Answered, Phases

(* A restart forgets both caches and the call; what is left is sound.       *)
LEMMA RestartKeepsOracle ==
  ASSUME OracleInv, Restart PROVE OracleInv'
PROOF
<1> USE DEF OracleInv
<1>1. /\ revoked' = {} /\ live_tips' = [id \in Ids |-> 0]
      /\ walk' = [walk EXCEPT !.phase = "idle"]
      /\ thread' = thread /\ garbled' = garbled
      /\ faults' \in 0..MaxFaults
  BY FaultInRange DEF Restart, OracleTypeOK
<1>2. /\ walk' \in Walk /\ walk'.phase = "idle" /\ walk'.id = walk.id
      /\ walk'.ended = walk.ended
  BY <1>1 DEF OracleTypeOK, Walk, Phases
<1>3. OracleTypeOK'
  BY <1>1, <1>2 DEF OracleTypeOK
<1>4. ThreadStarts'
  BY <1>1 DEF ThreadStarts
<1>5. \A id \in Ids : Len(thread'[id]) \in Nat
  BY <1>3 DEF OracleTypeOK
<1>6. TipsInThread'
  BY <1>1, <1>5 DEF TipsInThread
<1>7. CachesAreSound'
  BY <1>1, <1>5 DEF CachesAreSound, OnIdentity
<1>8. WalkSound'
  BY <1>1, <1>2 DEF WalkSound, Walking, Ended
<1>9. LiveIsCurrent'
  BY <1>2 DEF LiveIsCurrent
<1> QED BY <1>3, <1>4, <1>6, <1>7, <1>8, <1>9

(* The invariant holds at the start.                                        *)
LEMMA BrokerInvInit == Init => BrokerInv
PROOF
<1> SUFFICES ASSUME Init PROVE BrokerInv
  OBVIOUS
<1>1. OracleInv
  BY OracleInvInit DEF Init
<1>2. BrokerTypeOK
  BY DEF Init, BrokerTypeOK
<1>3. walk.phase = "idle" /\ call.op = "none"
  BY DEF Init, OracleInit, NoCall
<1>4. CallSound
  BY <1>3 DEF CallSound, Walking
<1>5. NoKeyNoGrant /\ GrantsNumbered /\ GrantMeansLive
  BY FS_EmptySet DEF Init, NoKeyNoGrant, GrantsNumbered, GrantMeansLive
<1> QED BY <1>1, <1>2, <1>4, <1>5 DEF BrokerInv

(* Grants survive as long as their keys keep their identity.                *)
LEMMA GrantsKept ==
  ASSUME BrokerInv, granted' = granted, garbled \subseteq garbled',
         \A k \in KeyIds : \/ keys'[k] = keys[k]
                           \/ keys[k] = NoKey
                           \/ keys'[k] # NoKey /\ keys'[k].id = keys[k].id
  PROVE  NoKeyNoGrant' /\ GrantsNumbered' /\ GrantMeansLive'
PROOF
<1>1. NoKeyNoGrant' /\ GrantMeansLive'
  BY DEF BrokerInv, NoKeyNoGrant, GrantMeansLive
<1>2. GrantsNumbered'
  BY DEF BrokerInv, GrantsNumbered
<1> QED BY <1>1, <1>2

(* Fields of a stored key after it is latched.                              *)
LEMMA KeyLatched ==
  ASSUME NEW k \in KeyIds, keys \in [KeyIds -> Key \cup {NoKey}], keys[k] # NoKey,
         keys' = [keys EXCEPT ![k].revoked_locally = TRUE]
  PROVE  /\ keys' \in [KeyIds -> Key \cup {NoKey}]
         /\ keys'[k] # NoKey /\ keys'[k].id = keys[k].id /\ keys'[k].revoked_locally
         /\ keys'[k].accountant = keys[k].accountant
         /\ \A j \in KeyIds \ {k} : keys'[j] = keys[j]
PROOF
<1>1. keys[k] \in Key
  OBVIOUS
<1>2. keys'[k] = [keys[k] EXCEPT !.revoked_locally = TRUE]
  OBVIOUS
<1>3. /\ keys'[k] \in Key /\ keys'[k].id = keys[k].id /\ keys'[k].revoked_locally
      /\ keys'[k].accountant = keys[k].accountant
  BY <1>1, <1>2 DEF Key
<1> QED BY <1>3, BrokerConstants

(* And after its accountant is charged.                                     *)
LEMMA KeyCharged ==
  ASSUME NEW k \in KeyIds, keys \in [KeyIds -> Key \cup {NoKey}], keys[k] # NoKey,
         NEW acc \in Accountant, keys' = [keys EXCEPT ![k].accountant = acc]
  PROVE  /\ keys' \in [KeyIds -> Key \cup {NoKey}]
         /\ keys'[k] # NoKey /\ keys'[k].id = keys[k].id
         /\ keys'[k].revoked_locally = keys[k].revoked_locally
         /\ keys'[k].accountant = acc
         /\ \A j \in KeyIds \ {k} : keys'[j] = keys[j]
PROOF
<1>1. keys[k] \in Key
  OBVIOUS
<1>2. keys'[k] = [keys[k] EXCEPT !.accountant = acc]
  OBVIOUS
<1>3. /\ keys'[k] \in Key /\ keys'[k].id = keys[k].id
      /\ keys'[k].revoked_locally = keys[k].revoked_locally
      /\ keys'[k].accountant = acc
  BY <1>1, <1>2 DEF Key
<1> QED BY <1>3, BrokerConstants

(* A key that is minted was not there.                                      *)
LEMMA KeyIssued ==
  ASSUME NEW k \in KeyIds, NEW id \in Ids, NEW scopes \in SUBSET Scopes,
         keys \in [KeyIds -> Key \cup {NoKey}], issue(k, id, scopes)
  PROVE  /\ keys' \in [KeyIds -> Key \cup {NoKey}] /\ keys[k] = NoKey
         /\ keys'[k].accountant = window_accountant_init
         /\ \A j \in KeyIds \ {k} : keys'[j] = keys[j]
PROOF
<1>1. stored_key(id, scopes) \in Key
  BY DEF stored_key, Key, window_accountant_init, Accountant
<1>2. keys' = [keys EXCEPT ![k] = stored_key(id, scopes)] /\ keys[k] = NoKey
  BY DEF issue
<1>3. stored_key(id, scopes).accountant = window_accountant_init
  BY DEF stored_key
<1> QED BY <1>1, <1>2, <1>3

(* Steps that end or leave the call alone and touch neither the oracle nor  *)
(* the keys nor the grants.                                                 *)
LEMMA QuietKeepsInv ==
  ASSUME BrokerInv, UNCHANGED <<oracleVars, keys, granted>>, now' \in Nat,
         \/ call' = call
         \/ call' = NoCall /\ ~ Walking
         \/ call' \in IssueCall /\ call'.op = "verify" /\ ~ Walking
  PROVE  BrokerInv'
PROOF
<1>1. OracleInv'
  BY OracleInvStep DEF BrokerInv
<1>2. BrokerTypeOK'
  BY DEF BrokerInv, BrokerTypeOK
<1>3. CallSound'
  BY DEF BrokerInv, CallSound, Walking, NoCall, oracleVars
<1>4. NoKeyNoGrant' /\ GrantsNumbered' /\ GrantMeansLive'
  BY GrantsKept DEF oracleVars
<1> QED BY <1>1, <1>2, <1>3, <1>4 DEF BrokerInv

(* Steps of the explorer and of the chain.                                  *)
LEMMA OracleStepKeepsInv ==
  ASSUME BrokerInv, UNCHANGED brokerVars,
         WalkStep \/ \E id \in Ids, kind \in Kinds : Spend(id, kind)
  PROVE  BrokerInv'
PROOF
<1>1. OracleInv'
  BY OracleInvStep DEF BrokerInv, OracleNext
<1>2. BrokerTypeOK'
  BY DEF BrokerInv, BrokerTypeOK, brokerVars
<1>3. CASE WalkStep
  <2>1. /\ Walking /\ walk'.id = walk.id
        /\ walk'.phase = "live" => walk.id \notin revoked'
        /\ garbled \subseteq garbled'
    BY <1>3, WalkStepShape DEF BrokerInv
  <2>2. CallSound'
    BY <2>1 DEF BrokerInv, CallSound, brokerVars
  <2> QED BY <1>1, <1>2, <2>1, <2>2, GrantsKept DEF BrokerInv, brokerVars
<1>4. CASE \E id \in Ids, kind \in Kinds : Spend(id, kind)
  <2>1. UNCHANGED <<walk, revoked, garbled>>
    BY <1>4 DEF Spend
  <2>2. CallSound'
    BY <2>1 DEF BrokerInv, CallSound, Walking, brokerVars
  <2> QED BY <1>1, <1>2, <2>1, <2>2, GrantsKept DEF BrokerInv, brokerVars
<1> QED BY <1>3, <1>4

(* The oracle is asked: by an authorisation, or to mint a key.              *)
LEMMA BeginKeepsInv ==
  ASSUME BrokerInv, UNCHANGED <<keys, now, granted>>,
         NEW id \in Ids, is_revoked(id), call.op \in {"none", "verify"},
         \/ call' \in IssueCall /\ call'.op = "mint"
         \/ /\ call' \in AuthorizeCall /\ keys[call'.key] # NoKey
            /\ ~ keys[call'.key].revoked_locally /\ keys[call'.key].id = id
  PROVE  BrokerInv'
PROOF
<1>1. Ask(id)
  BY BeginIsAsk DEF BrokerInv
<1>2. OracleInv'
  BY <1>1, OracleInvStep DEF BrokerInv, OracleNext
<1>3. BrokerTypeOK'
  BY DEF BrokerInv, BrokerTypeOK
<1>4. walk'.id = id /\ walk'.phase # "live" /\ garbled' = garbled
  BY DEF is_revoked, start_walk
<1>5. CallSound'
  BY <1>4 DEF CallSound, AuthorizeCall, IssueCall
<1> QED BY <1>2, <1>3, <1>4, <1>5, GrantsKept DEF BrokerInv

(* The set of a key's grants after Allow, and the new member.               *)
NewGrant(k) == [n |-> Cardinality(granted[k]) + 1, amount |-> call.amount, at |-> now,
                ended |-> walk.ended, lagged |-> walk.lagged]

(* What Allow does, field by field.                                         *)
LEMMA AllowShape ==
  ASSUME BrokerInv, Allow
  PROVE  /\ call.key \in KeyIds /\ keys[call.key] # NoKey
         /\ keys[call.key].accountant \in Accountant
         /\ charge_allowed(keys[call.key].accountant, call.amount, now)
         /\ call.amount \in Nat \ {0} /\ NewGrant(call.key) \in Grant
         /\ keys' \in [KeyIds -> Key \cup {NoKey}]
         /\ keys'[call.key] # NoKey /\ keys'[call.key].id = keys[call.key].id
         /\ keys'[call.key].revoked_locally = keys[call.key].revoked_locally
         /\ keys'[call.key].accountant = charge_commit(keys[call.key].accountant, call.amount, now)
         /\ granted'[call.key] = granted[call.key] \cup {NewGrant(call.key)}
         /\ \A j \in KeyIds \ {call.key} : keys'[j] = keys[j] /\ granted'[j] = granted[j]
         /\ granted' \in [KeyIds -> SUBSET Grant]
         /\ UNCHANGED <<oracleVars, now>> /\ call' = NoCall
PROOF
<1> DEFINE k == call.key
           acc == charge(keys[k].accountant, call.amount, now)
<1>1. call.op = "authorize" /\ walk.phase = "live" /\ Allowed(k)
  BY DEF Allow
<1>2. call \in AuthorizeCall
  BY <1>1 DEF BrokerInv, BrokerTypeOK, IssueCall, NoCall
<1>3. k \in KeyIds /\ call.amount \in Int
  BY <1>2, EnvelopeConstants DEF AuthorizeCall, Requests
<1>4. keys[k] # NoKey /\ keys[k] \in Key
  BY <1>1, <1>3 DEF BrokerInv, CallSound, BrokerTypeOK
<1>5. keys[k].accountant \in Accountant
  BY <1>4 DEF Key
<1>6. charge_allowed(keys[k].accountant, call.amount, now)
  BY <1>1 DEF Allowed
<1>7. call.amount \in Nat \ {0}
  BY <1>3, <1>6 DEF charge_allowed
<1>8. now \in Nat
  BY DEF BrokerInv, BrokerTypeOK
<1>9. acc \in Accountant
  BY <1>3, <1>5, <1>8, ChargeType
<1>10. acc = charge_commit(keys[k].accountant, call.amount, now)
  BY <1>6 DEF charge
<1>11. keys' = [keys EXCEPT ![k].accountant = acc]
  BY DEF Allow
<1>12. granted' = [granted EXCEPT ![k] = granted[k] \cup {NewGrant(k)}]
  BY <1>3 DEF Allow, NewGrant, BrokerInv, BrokerTypeOK
<1>13. UNCHANGED <<oracleVars, now>> /\ call' = NoCall
  BY DEF Allow, Return
<1>14. NewGrant(k) \in Grant
  <2>1. Cardinality(granted[k]) \in Nat
    BY <1>3, FS_CardinalityType DEF BrokerInv, GrantsNumbered
  <2>2. walk.ended \in BOOLEAN /\ walk.lagged \in BOOLEAN
    BY DEF BrokerInv, OracleInv, OracleTypeOK, Walk
  <2> QED BY <1>7, <1>8, <2>1, <2>2 DEF NewGrant, Grant
<1>15. keys \in [KeyIds -> Key \cup {NoKey}]
  BY DEF BrokerInv, BrokerTypeOK
<1> HIDE DEF acc, k
<1>16. /\ keys' \in [KeyIds -> Key \cup {NoKey}]
       /\ keys'[k] # NoKey /\ keys'[k].id = keys[k].id
       /\ keys'[k].revoked_locally = keys[k].revoked_locally
       /\ keys'[k].accountant = acc
       /\ \A j \in KeyIds \ {k} : keys'[j] = keys[j]
  BY <1>3, <1>4, <1>9, <1>11, <1>15, KeyCharged
<1>17. /\ granted'[k] = granted[k] \cup {NewGrant(k)}
       /\ \A j \in KeyIds \ {k} : granted'[j] = granted[j]
       /\ granted' \in [KeyIds -> SUBSET Grant]
  BY <1>3, <1>12, <1>14 DEF BrokerInv, BrokerTypeOK
<1> USE DEF k
<1> QED BY <1>3, <1>4, <1>5, <1>6, <1>7, <1>10, <1>13, <1>14, <1>16, <1>17

(* A grant: "live" was true of the key's own identity when the call began.  *)
LEMMA AllowKeepsInv ==
  ASSUME BrokerInv, Allow PROVE BrokerInv'
PROOF
<1>1. OracleInv'
  BY AllowShape, OracleInvStep DEF BrokerInv
<1>2. BrokerTypeOK'
  BY AllowShape DEF BrokerInv, BrokerTypeOK, NoCall
<1>3. CallSound'
  <2>1. call'.op = "none" /\ ~ Walking
    BY AllowShape DEF NoCall, Allow, Walking
  <2> QED BY <2>1, AllowShape DEF CallSound, Walking, oracleVars
<1>4. NoKeyNoGrant'
  BY AllowShape DEF BrokerInv, NoKeyNoGrant
<1>5. GrantsNumbered'
  <2> SUFFICES ASSUME NEW j \in KeyIds
               PROVE  /\ IsFiniteSet(granted'[j])
                      /\ \A g \in granted'[j] : g.n \in 1..Cardinality(granted'[j])
    BY DEF GrantsNumbered
  <2>1. IsFiniteSet(granted[j]) /\ \A g \in granted[j] : g.n \in 1..Cardinality(granted[j])
    BY DEF BrokerInv, GrantsNumbered
  <2>2. CASE j # call.key
    BY <2>1, <2>2, AllowShape
  <2>3. CASE j = call.key
    <3>1. Cardinality(granted[j]) \in Nat
      BY <2>1, FS_CardinalityType
    <3>2. NewGrant(j).n = Cardinality(granted[j]) + 1
      BY DEF NewGrant
    <3>3. NewGrant(j) \notin granted[j]
      BY <2>1, <3>1, <3>2
    <3>4. granted'[j] = granted[j] \cup {NewGrant(j)}
      BY <2>3, AllowShape
    <3>5. IsFiniteSet(granted'[j]) /\ Cardinality(granted'[j]) = Cardinality(granted[j]) + 1
      BY <2>1, <3>3, <3>4, FS_AddElement
    <3> QED BY <2>1, <3>1, <3>2, <3>4, <3>5
  <2> QED BY <2>2, <2>3
<1>6. GrantMeansLive'
  <2> SUFFICES ASSUME NEW j \in KeyIds, NEW g \in granted'[j],
                      g.ended, keys'[j].id \notin garbled'
               PROVE  g.lagged
    BY DEF GrantMeansLive
  <2>1. garbled' = garbled /\ keys'[j].id = keys[j].id
    BY AllowShape DEF oracleVars
  <2>2. CASE g \in granted[j]
    BY <2>1, <2>2 DEF BrokerInv, GrantMeansLive
  <2>3. CASE g \notin granted[j]
    <3>1. j = call.key /\ g = NewGrant(j)
      BY <2>3, AllowShape
    <3>2. g.ended = walk.ended /\ g.lagged = walk.lagged
      BY <3>1 DEF NewGrant
    <3>3. walk.id = keys[j].id /\ walk.phase = "live"
      BY <3>1 DEF BrokerInv, CallSound, Allow
    <3> QED BY <2>1, <3>2, <3>3 DEF BrokerInv, OracleInv, LiveIsCurrent
  <2> QED BY <2>2, <2>3
<1> QED BY <1>1, <1>2, <1>3, <1>4, <1>5, <1>6 DEF BrokerInv

(* A key is minted, from the chain or without looking at it.                *)
LEMMA IssueKeepsInv ==
  ASSUME BrokerInv, NEW k \in KeyIds, NEW id \in Ids, NEW scopes \in SUBSET Scopes,
         issue(k, id, scopes), UNCHANGED <<oracleVars, now, granted>>,
         call' = NoCall, ~ Walking
  PROVE  BrokerInv'
PROOF
<1>1. OracleInv'
  BY OracleInvStep DEF BrokerInv
<1>2. /\ keys' \in [KeyIds -> Key \cup {NoKey}] /\ keys[k] = NoKey
      /\ \A j \in KeyIds \ {k} : keys'[j] = keys[j]
  BY KeyIssued DEF BrokerInv, BrokerTypeOK
<1>3. BrokerTypeOK'
  BY <1>2 DEF BrokerInv, BrokerTypeOK
<1>4. CallSound'
  BY DEF CallSound, Walking, NoCall, oracleVars
<1> QED BY <1>1, <1>2, <1>3, <1>4, GrantsKept DEF BrokerInv, oracleVars

(* A key is latched, by the oracle's answer or by hand.                     *)
LEMMA LatchKeepsInv ==
  ASSUME BrokerInv, NEW k \in KeyIds, keys[k] # NoKey,
         keys' = [keys EXCEPT ![k].revoked_locally = TRUE],
         UNCHANGED <<oracleVars, now, granted>>, call' = NoCall, ~ Walking
  PROVE  BrokerInv'
PROOF
<1>1. OracleInv'
  BY OracleInvStep DEF BrokerInv
<1>2. /\ keys' \in [KeyIds -> Key \cup {NoKey}]
      /\ keys'[k] # NoKey /\ keys'[k].id = keys[k].id
      /\ \A j \in KeyIds \ {k} : keys'[j] = keys[j]
  BY KeyLatched DEF BrokerInv, BrokerTypeOK
<1>3. BrokerTypeOK'
  BY <1>2 DEF BrokerInv, BrokerTypeOK
<1>4. CallSound'
  BY DEF CallSound, Walking, NoCall, oracleVars
<1> QED BY <1>1, <1>2, <1>3, <1>4, GrantsKept DEF BrokerInv, oracleVars

(* A restart forgets the keys and with them their grants.                   *)
LEMMA RestartKeepsInv ==
  ASSUME BrokerInv, Restart PROVE BrokerInv'
PROOF
<1>1. OracleInv'
  BY RestartKeepsOracle DEF BrokerInv
<1>2. /\ keys' = [k \in KeyIds |-> NoKey] /\ granted' = [k \in KeyIds |-> {}]
      /\ call' = NoCall /\ now' = now
  BY DEF Restart, Return
<1>3. BrokerTypeOK'
  BY <1>2 DEF BrokerInv, BrokerTypeOK
<1>4. walk'.phase = "idle"
  BY DEF Restart, BrokerInv, OracleInv, OracleTypeOK, Walk
<1>5. CallSound'
  BY <1>2, <1>4 DEF CallSound, Walking, NoCall
<1>6. NoKeyNoGrant' /\ GrantsNumbered' /\ GrantMeansLive'
  BY <1>2, FS_EmptySet DEF NoKeyNoGrant, GrantsNumbered, GrantMeansLive
<1> QED BY <1>1, <1>3, <1>5, <1>6 DEF BrokerInv

(* The invariant is kept by every step.                                     *)
LEMMA BrokerInvStep == BrokerInv /\ [Next]_vars => BrokerInv'
PROOF
<1> SUFFICES ASSUME BrokerInv, [Next]_vars PROVE BrokerInv'
  OBVIOUS
<1>1. now \in Nat /\ (call = NoCall => ~ Walking)
  BY DEF BrokerInv, BrokerTypeOK, CallSound, NoCall
<1>2. call.op = "authorize" => call.key \in KeyIds /\ keys[call.key] # NoKey
  BY DEF BrokerInv, BrokerTypeOK, CallSound, IssueCall, AuthorizeCall, NoCall
<1>3. call.op \in {"verify", "mint"} => call \in IssueCall
  BY DEF BrokerInv, BrokerTypeOK, AuthorizeCall, NoCall
<1>4. ASSUME NEW k \in KeyIds, NEW id \in Ids, NEW scopes \in SUBSET Scopes,
             Issue(k, id, scopes)
      PROVE  BrokerInv'
  BY <1>1, <1>4, IssueKeepsInv DEF Issue
<1>5. ASSUME NEW k \in KeyIds, NEW id \in Ids, NEW scopes \in SUBSET Scopes,
             IssueFromChain(k, id, scopes)
      PROVE  BrokerInv'
  BY <1>1, <1>5, QuietKeepsInv DEF IssueFromChain, IssueCall
<1>6. ASSUME NEW k \in KeyIds, revoke_locally(k) PROVE BrokerInv'
  BY <1>1, <1>6, LatchKeepsInv DEF revoke_locally
<1>7. ASSUME NEW k \in KeyIds, NEW s \in Scopes, NEW a \in Requests, Authorize(k, s, a)
      PROVE  BrokerInv'
  <2>1. call' \in AuthorizeCall /\ call'.key = k /\ call.op = "none"
    BY <1>7 DEF Authorize, AuthorizeCall, NoCall
  <2>2. keys[k].id \in Ids
    BY <1>7 DEF Authorize, BrokerInv, BrokerTypeOK, Key
  <2> QED BY <1>7, <2>1, <2>2, BeginKeepsInv DEF Authorize
<1>8. CASE VerifyOk
  <2>1. call \in IssueCall /\ call.op = "verify"
    BY <1>3, <1>8 DEF VerifyOk
  <2>2. call' \in IssueCall /\ call'.op = "mint" /\ call.id \in Ids
    BY <1>8, <2>1 DEF VerifyOk, IssueCall
  <2> QED BY <1>8, <2>1, <2>2, BeginKeepsInv DEF VerifyOk
<1>9. CASE VerifyRefused
  <2>1. ~ Walking
    BY <1>9 DEF VerifyRefused, BrokerInv, CallSound
  <2> QED BY <1>1, <1>9, <2>1, QuietKeepsInv DEF VerifyRefused, Return
<1>10. CASE Mint
  <2>1. ~ Walking /\ call \in IssueCall
    BY <1>3, <1>10 DEF Mint, Answered, Walking
  <2>2. CASE walk.phase = "live"
    <3>1. /\ issue(call.key, call.id, call.scopes) /\ call' = NoCall
          /\ UNCHANGED <<oracleVars, now, granted>>
      BY <1>10, <2>2 DEF Mint, Return
    <3>2. call.key \in KeyIds /\ call.id \in Ids /\ call.scopes \in SUBSET Scopes
      BY <2>1 DEF IssueCall
    <3> QED BY <2>1, <3>1, <3>2, IssueKeepsInv
  <2>3. CASE walk.phase # "live"
    BY <1>1, <1>10, <2>1, <2>3, QuietKeepsInv DEF Mint, Return
  <2> QED BY <2>2, <2>3
<1>11. CASE DenyUnavailable
  BY <1>1, <1>11, QuietKeepsInv DEF DenyUnavailable, Return, Walking
<1>12. CASE DenyRevoked
  BY <1>2, <1>12, LatchKeepsInv DEF DenyRevoked, Return, Walking
<1>13. CASE DenyRequest
  BY <1>1, <1>13, QuietKeepsInv DEF DenyRequest, Return, Walking
<1>14. CASE Allow
  BY <1>14, AllowKeepsInv
<1>15. CASE (WalkStep \/ \E id \in Ids, kind \in Kinds : Spend(id, kind)) /\ UNCHANGED brokerVars
  BY <1>15, OracleStepKeepsInv
<1>16. CASE SetClock
  <2>1. now' \in Nat /\ UNCHANGED <<oracleVars, keys, call, granted>>
    BY <1>16, BrokerConstants DEF SetClock
  <2> QED BY <2>1, QuietKeepsInv
<1>17. CASE Restart
  BY <1>17, RestartKeepsInv
<1>18. CASE UNCHANGED vars
  BY <1>1, <1>18, QuietKeepsInv DEF vars, brokerVars
<1> QED
  BY <1>4, <1>5, <1>6, <1>7, <1>8, <1>9, <1>10, <1>11, <1>12, <1>13, <1>14, <1>15, <1>16, <1>17,
     <1>18 DEF Next, Decide

(* The invariant holds in every reachable state.                            *)
LEMMA BrokerInvariant == Spec => []BrokerInv
  BY BrokerInvInit, BrokerInvStep, PTL DEF Spec

(* No grant under an identity that had ended when the call began, unless    *)
(* the explorer hid the spend during that call or ever garbled an answer    *)
(* about it: for any number of keys and identities, threads of any length,  *)
(* any caps, and a restart between any two steps.                           *)
THEOREM BrokerGrantMeansLive == Spec => []GrantMeansLive
PROOF
<1>1. BrokerInv => GrantMeansLive
  BY DEF BrokerInv
<1> QED BY <1>1, BrokerInvariant, PTL

(* Beside the broker the oracle still keeps its promises, although the      *)
(* broker may restart it and begins walks of its own.                       *)
THEOREM BrokerOracleSound == Spec => [](CachesAreSound /\ LiveIsCurrent)
PROOF
<1>1. BrokerInv => CachesAreSound /\ LiveIsCurrent
  BY DEF BrokerInv, OracleInv
<1> QED BY <1>1, BrokerInvariant, PTL

(* A latched key stays latched and gets no grant; once the revocation is    *)
(* cached every key of the identity is dead, also those whose authorisation *)
(* was already waiting for the explorer.                                    *)
THEOREM BrokerKillSwitch == Spec => KillSwitchHolds
PROOF
<1> DEFINE Holds == \A k \in KeyIds : keys[k] # NoKey /\ keys'[k] # NoKey =>
       /\ keys[k].revoked_locally => keys'[k].revoked_locally
       /\ granted'[k] # granted[k] => ~ keys[k].revoked_locally /\ keys[k].id \notin revoked
<1>1. ASSUME BrokerInv, Next PROVE Holds
  <2>1. CASE Allow
    <3>1. call.op = "authorize" /\ walk.phase = "live"
      BY <2>1 DEF Allow
    <3>2. ~ keys[call.key].revoked_locally /\ keys[call.key].id \notin revoked
      BY <1>1, <3>1 DEF BrokerInv, CallSound
    <3> QED BY <1>1, <2>1, <3>2, AllowShape
  <2>2. CASE Restart
    BY <2>2 DEF Restart
  <2>3. ASSUME NEW k \in KeyIds, NEW id \in Ids, NEW scopes \in SUBSET Scopes,
               issue(k, id, scopes), granted' = granted
        PROVE  Holds
    BY <1>1, <2>3, KeyIssued DEF BrokerInv, BrokerTypeOK
  <2>4. ASSUME NEW k \in KeyIds, keys[k] # NoKey,
               keys' = [keys EXCEPT ![k].revoked_locally = TRUE], granted' = granted
        PROVE  Holds
    BY <1>1, <2>4, KeyLatched DEF BrokerInv, BrokerTypeOK
  <2>5. CASE keys' = keys /\ granted' = granted
    BY <2>5
  <2>6. CASE Mint
    <3>1. call \in IssueCall /\ granted' = granted
      BY <1>1, <2>6 DEF Mint, BrokerInv, BrokerTypeOK, AuthorizeCall, NoCall
    <3>2. call.key \in KeyIds /\ call.id \in Ids /\ call.scopes \in SUBSET Scopes
      BY <3>1 DEF IssueCall
    <3>3. issue(call.key, call.id, call.scopes) \/ keys' = keys
      BY <2>6 DEF Mint
    <3> QED BY <2>3, <2>5, <3>1, <3>2, <3>3
  <2>7. CASE DenyRevoked
    <3>1. call.key \in KeyIds /\ keys[call.key] # NoKey
      BY <1>1, <2>7 DEF DenyRevoked, BrokerInv, BrokerTypeOK, CallSound, IssueCall, AuthorizeCall,
                        NoCall
    <3> QED BY <2>4, <2>7, <3>1 DEF DenyRevoked
  <2> HIDE DEF Holds
  <2> QED
    BY <1>1, <2>1, <2>2, <2>3, <2>4, <2>5, <2>6, <2>7
       DEF Next, Decide, Issue, IssueFromChain, revoke_locally, Authorize, VerifyOk, VerifyRefused,
           DenyUnavailable, DenyRequest, SetClock, brokerVars
<1>2. BrokerInv /\ [Next]_vars => [Holds]_vars
  BY <1>1
<1> QED BY <1>2, BrokerInvariant, PTL DEF Spec, KillSwitchHolds

-----------------------------------------------------------------------------
(* The accountants.                                                         *)
AmountOf(S) == [g \in S |-> g.amount]

(* The sum of a set of grants, as the sum of a function.                    *)
LEMMA SumOfIs ==
  ASSUME NEW S PROVE SumOf(S) = SumFunctionOnSet(AmountOf(S), S)
PROOF
<1> DEFINE R(F) == [s \in SUBSET S |-> IF s = {} THEN 0 ELSE First(s).amount + F[s \ {First(s)}]]
           Q(F) == [s \in SUBSET S |-> IF s = {} THEN 0 ELSE AmountOf(S)[First(s)] + F[s \ {First(s)}]]
<1>1. \A s \in SUBSET S : s # {} => AmountOf(S)[First(s)] = First(s).amount
  BY FirstIn DEF AmountOf
<1>2. \A F : R(F) = Q(F)
  BY <1>1
<1>3. SumOf(S) = (CHOOSE F : F = R(F))[S]
  BY DEF SumOf, MapThenSumSet, MapThenFoldSet, First
<1>4. SumFunctionOnSet(AmountOf(S), S) = (CHOOSE F : F = Q(F))[S]
  BY SumIsIter DEF Iter, IsIter
<1> HIDE DEF R, Q
<1>5. (CHOOSE F : F = R(F)) = (CHOOSE F : F = Q(F))
  BY <1>2, Zenon
<1> QED BY <1>3, <1>4, <1>5

(* One more grant: its amount is added.                                     *)
LEMMA SumOfInsert ==
  ASSUME NEW S, IsFiniteSet(S), S \subseteq Grant, NEW g \in Grant, g \notin S
  PROVE  SumOf(S \cup {g}) = SumOf(S) + g.amount /\ SumOf(S) \in Int
PROOF
<1> DEFINE U == S \cup {g}
           w == AmountOf(U)
<1>1. \A x \in U : w[x] = x.amount /\ w[x] \in Int
  BY DEF AmountOf, Grant
<1>2. SumFunctionOnSet(w, S) = SumFunctionOnSet(AmountOf(S), S)
  BY <1>1, SumSameWeights DEF AmountOf
<1> HIDE DEF w
<1>3. SumFunctionOnSet(w, S) \in Int
  BY <1>1, SumInt
<1>4. SumFunctionOnSet(w, U) = w[g] + SumFunctionOnSet(w, S)
  BY <1>1, SumInsert
<1>5. SumOf(U) = SumFunctionOnSet(w, U) /\ SumOf(S) = SumFunctionOnSet(w, S)
  BY <1>2, SumOfIs DEF w
<1>6. w[g] = g.amount /\ w[g] \in Int
  BY <1>1
<1> QED BY <1>3, <1>4, <1>5, <1>6

(* The sum of one grant.                                                    *)
LEMMA SumOfSingle == ASSUME NEW g \in Grant PROVE SumOf({g}) = g.amount
PROOF
<1> DEFINE w == AmountOf({g})
<1>1. w[g] = g.amount /\ w[g] \in Int
  BY DEF AmountOf, Grant
<1>2. SumOf({g}) = SumFunctionOnSet(w, {g})
  BY SumOfIs
<1> HIDE DEF w
<1> QED BY <1>1, <1>2, SumSingle

(* An accountant agrees with a set of grants; MeterMatchesGrants says so of *)
(* every key and its own grants.                                            *)
Matches(acc, G) ==
  /\ acc.started <=> G # {}
  /\ acc.started => \E o \in G : /\ o.at = acc.start
                                 /\ acc.spent = SumOf({g \in G : g.n >= o.n})
                                 /\ acc.spent <= PerWindow

(* A grant that is charged: in a new window it stands alone, in the old one *)
(* it joins the grants since the last roll.                                 *)
LEMMA AllowMatches ==
  ASSUME NEW G, IsFiniteSet(G), G \subseteq Grant, NEW new \in Grant,
         \A g \in G : g.n < new.n,
         NEW acc \in Accountant, Matches(acc, G), charge_allowed(acc, new.amount, new.at)
  PROVE  Matches(charge_commit(acc, new.amount, new.at), G \cup {new})
PROOF
<1> DEFINE next == charge_commit(acc, new.amount, new.at)
           H == G \cup {new}
           Since(o) == {g \in G : g.n >= o.n}
           SinceH(o) == {g \in H : g.n >= o.n}
<1>1. /\ next.spent = Base(acc, new.at) + new.amount /\ next.started = TRUE
      /\ next.start = IF RolledOver(acc, new.at) THEN new.at ELSE acc.start
  BY DEF charge_commit
<1>2. next.spent <= PerWindow
  BY <1>1 DEF charge_allowed
<1>3. \A g \in H : g.n \in Nat /\ g.amount \in Nat
  BY DEF Grant
<1>4. CASE RolledOver(acc, new.at)
  <2>1. SinceH(new) = {new}
    BY <1>3
  <2>2. SumOf(SinceH(new)) = new.amount
    BY <2>1, SumOfSingle
  <2>3. next.spent = new.amount /\ next.start = new.at
    BY <1>1, <1>3, <1>4 DEF Base
  <2> QED BY <1>1, <1>2, <2>2, <2>3 DEF Matches
<1>5. CASE ~ RolledOver(acc, new.at)
  <2>1. acc.started
    BY <1>5 DEF RolledOver, Accountant
  <2>2. PICK o \in G : o.at = acc.start /\ acc.spent = SumOf(Since(o))
    BY <2>1 DEF Matches
  <2>3. SinceH(o) = Since(o) \cup {new} /\ new \notin Since(o)
    BY <1>3
  <2>4. IsFiniteSet(Since(o)) /\ Since(o) \subseteq Grant
    BY FS_Subset
  <2> HIDE DEF Since
  <2>5. SumOf(SinceH(o)) = SumOf(Since(o)) + new.amount
    BY <2>3, <2>4, SumOfInsert
  <2>6. next.spent = SumOf(SinceH(o)) /\ next.start = o.at
    BY <1>1, <1>5, <2>2, <2>5 DEF Base
  <2>7. o \in H
    OBVIOUS
  <2> HIDE DEF next
  <2>8. Matches(next, H)
    BY <1>1, <1>2, <2>6, <2>7 DEF Matches
  <2> QED BY <2>8 DEF next
<1> QED BY <1>4, <1>5

(* Every step keeps every accountant in agreement with its grants.          *)
LEMMA MeterStep ==
  BrokerInv /\ MeterMatchesGrants /\ [Next]_vars => MeterMatchesGrants'
PROOF
<1> SUFFICES ASSUME BrokerInv, MeterMatchesGrants, [Next]_vars, NEW k \in KeyIds,
                    keys'[k] # NoKey
             PROVE  Matches(keys'[k].accountant, granted'[k])
  BY DEF MeterMatchesGrants, Matches
<1>1. keys[k] # NoKey => Matches(keys[k].accountant, granted[k])
  BY DEF MeterMatchesGrants, Matches
<1>2. CASE /\ granted'[k] = granted[k]
           /\ keys[k] # NoKey /\ keys'[k].accountant = keys[k].accountant
  BY <1>1, <1>2
<1>3. CASE keys' = keys /\ granted' = granted
  BY <1>1, <1>3
<1>4. CASE Allow
  <2>1. CASE k # call.key
    BY <1>1, <1>4, <2>1, AllowShape
  <2>2. CASE k = call.key
    <3>1. IsFiniteSet(granted[k]) /\ granted[k] \subseteq Grant
      BY DEF BrokerInv, BrokerTypeOK, GrantsNumbered
    <3>2. \A g \in granted[k] : g.n < NewGrant(k).n
      <4>1. Cardinality(granted[k]) \in Nat
        BY <3>1, FS_CardinalityType
      <4> QED BY <4>1 DEF BrokerInv, GrantsNumbered, NewGrant
    <3>3. NewGrant(k).amount = call.amount /\ NewGrant(k).at = now
      BY DEF NewGrant
    <3>4. Matches(charge_commit(keys[k].accountant, NewGrant(k).amount, NewGrant(k).at),
                  granted[k] \cup {NewGrant(k)})
      <4>1. /\ NewGrant(k) \in Grant /\ keys[k].accountant \in Accountant
            /\ Matches(keys[k].accountant, granted[k])
            /\ charge_allowed(keys[k].accountant, NewGrant(k).amount, NewGrant(k).at)
        BY <1>1, <1>4, <2>2, <3>3, AllowShape
      <4> HIDE DEF Matches
      <4> QED BY <3>1, <3>2, <4>1, AllowMatches
    <3> QED BY <1>4, <2>2, <3>3, <3>4, AllowShape
  <2> QED BY <2>1, <2>2
<1>5. CASE Restart
  BY <1>5 DEF Restart
<1>6. ASSUME NEW j \in KeyIds, NEW id \in Ids, NEW scopes \in SUBSET Scopes,
             issue(j, id, scopes), granted' = granted
      PROVE  Matches(keys'[k].accountant, granted'[k])
  <2>1. /\ keys[j] = NoKey /\ keys'[j].accountant = window_accountant_init
        /\ \A i \in KeyIds \ {j} : keys'[i] = keys[i]
    BY <1>6, KeyIssued DEF BrokerInv, BrokerTypeOK
  <2>2. CASE k = j
    <3>1. granted'[k] = {}
      BY <1>6, <2>1, <2>2 DEF BrokerInv, NoKeyNoGrant
    <3> QED BY <2>1, <2>2, <3>1 DEF Matches, window_accountant_init
  <2>3. CASE k # j
    BY <1>1, <1>6, <2>1, <2>3
  <2> QED BY <2>2, <2>3
<1>7. ASSUME NEW j \in KeyIds, keys[j] # NoKey,
             keys' = [keys EXCEPT ![j].revoked_locally = TRUE], granted' = granted
      PROVE  Matches(keys'[k].accountant, granted'[k])
  BY <1>1, <1>7, KeyLatched DEF BrokerInv, BrokerTypeOK
<1>8. CASE Mint
  <2>1. call \in IssueCall /\ granted' = granted
    BY <1>8 DEF Mint, BrokerInv, BrokerTypeOK, AuthorizeCall, NoCall
  <2>2. call.key \in KeyIds /\ call.id \in Ids /\ call.scopes \in SUBSET Scopes
    BY <2>1 DEF IssueCall
  <2>3. issue(call.key, call.id, call.scopes) \/ keys' = keys
    BY <1>8 DEF Mint
  <2> QED BY <1>3, <1>6, <2>1, <2>2, <2>3
<1>9. CASE DenyRevoked
  <2>1. call.key \in KeyIds /\ keys[call.key] # NoKey
    BY <1>9 DEF DenyRevoked, BrokerInv, BrokerTypeOK, CallSound, IssueCall, AuthorizeCall, NoCall
  <2> QED BY <1>7, <1>9, <2>1 DEF DenyRevoked
<1> QED
  BY <1>3, <1>4, <1>5, <1>6, <1>7, <1>8, <1>9
     DEF Next, Decide, Issue, IssueFromChain, revoke_locally, Authorize, VerifyOk, VerifyRefused,
         DenyUnavailable, DenyRequest, SetClock, brokerVars, vars

(* A key's accountant counts exactly the grants since its window last       *)
(* rolled, and they never exceed perWindow: for any caps and any window     *)
(* length, with clocks that jump back and forth.                            *)
THEOREM BrokerMeterMatchesGrants == Spec => []MeterMatchesGrants
PROOF
<1>1. Init => MeterMatchesGrants
  BY DEF Init, MeterMatchesGrants
<1> QED BY <1>1, BrokerInvariant, MeterStep, PTL DEF Spec
=============================================================================
