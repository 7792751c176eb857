-------------------------- MODULE RevocationOracle --------------------------
(***************************************************************************)
(* The chain-backed revocation oracle (broker/chain_revocation_oracle.c)   *)
(* over a public block explorer (chainSources/whats_on_chain.c).           *)
(*                                                                         *)
(* The chain is seen as the oracle sees it: for every identity the thread  *)
(* of transactions that starts at its genesis and follows output 0.  A     *)
(* transaction of the thread either recreates the contract at output 0     *)
(* ("state") or pays a P2PKH there ("payout").  The first payout is the    *)
(* terminal spend; the money it paid may move on, into a payout or into    *)
(* another contract.  A walk asks two questions per hop, and the chain     *)
(* grows between any two of them.                                          *)
(***************************************************************************)
EXTENDS Integers, Sequences

CONSTANTS Ids,         \* identities, named by their genesis txid
          MaxHops,     \* opts.max_hops
          MaxLen,      \* bound: length of a thread
          MaxFaults    \* bound: errors, late and garbled answers

ASSUME OracleConstants ==
  /\ MaxHops \in Nat /\ MaxLen \in Nat \ {0} /\ MaxFaults \in Nat

VARIABLES thread,      \* the chain: thread[id][1] is the genesis transaction
          revoked,     \* the permanent cache
          live_tips,   \* last live tip per identity, a position; 0 = no entry
          walk,        \* the is_revoked call in progress
          garbled,     \* history: identities about which the explorer ever answered garbage
          faults       \* counts the faults, for MaxFaults

oracleVars == <<thread, revoked, live_tips, walk, garbled, faults>>

Kinds == {"state", "payout"}
Phases == {"idle", "spending", "raw", "live", "revoked", "error"}

(* ended, lagged: had the identity ended when the call began; did the       *)
(* explorer hide a spend during the call?                                   *)
Walk == [phase : Phases, id : Ids, at : Nat, hops : Nat,
         ended : BOOLEAN, lagged : BOOLEAN]

Ended(id) == \E i \in 1..Len(thread[id]) : thread[id][i] = "payout"
Fault == faults < MaxFaults /\ faults' = faults + 1

(* The holder of output 0 spends it.                                        *)
Spend(id, kind) ==
  /\ Len(thread[id]) < MaxLen
  /\ thread' = [thread EXCEPT ![id] = Append(@, kind)]
  /\ UNCHANGED <<revoked, live_tips, walk, garbled, faults>>

(* is_revoked up to the first request: a cached revocation answers at once, *)
(* else the walk resumes at the cached tip or starts at genesis.            *)
(* Mutant: a cached tip answers too.                                        *)
start_walk_trusts_tip(id) ==
  [phase |-> IF id \in revoked THEN "revoked" ELSE IF live_tips[id] # 0 THEN "live" ELSE "spending",
   id |-> id, at |-> IF live_tips[id] = 0 THEN 1 ELSE live_tips[id], hops |-> 0,
   ended |-> Ended(id), lagged |-> FALSE]

start_walk(id) ==
  [phase |-> IF id \in revoked THEN "revoked" ELSE IF MaxHops = 0 THEN "error" ELSE "spending",
   id |-> id, at |-> IF live_tips[id] = 0 THEN 1 ELSE live_tips[id], hops |-> 0,
   ended |-> Ended(id), lagged |-> FALSE]

is_revoked(id) == walk' = start_walk(id) /\ UNCHANGED <<thread, revoked, live_tips, garbled, faults>>

(* get_spending_txid: the explorer names the spender.                       *)
SpenderFound ==
  /\ walk.phase = "spending"
  /\ walk.at < Len(thread[walk.id])
  /\ walk' = [walk EXCEPT !.phase = "raw"]
  /\ UNCHANGED <<thread, revoked, live_tips, garbled, faults>>

live_tip_set(id, at) == live_tips' = [live_tips EXCEPT ![id] = at]

(* 404, or a body without a txid: unspent as far as the explorer knows.     *)
(* (Mutant: the tip is cached one too far.)                                 *)
Unspent_skips_one ==
  /\ walk.phase = "spending"
  /\ \/ walk.at = Len(thread[walk.id]) /\ UNCHANGED faults
     \/ walk.at < Len(thread[walk.id]) /\ Fault
  /\ live_tip_set(walk.id, walk.at + 1)
  /\ walk' = [walk EXCEPT !.phase = "live", !.lagged = @ \/ walk.at < Len(thread[walk.id])]
  /\ UNCHANGED <<thread, revoked, garbled>>

Unspent ==
  /\ walk.phase = "spending"
  /\ \/ walk.at = Len(thread[walk.id]) /\ UNCHANGED faults
     \/ walk.at < Len(thread[walk.id]) /\ Fault
  /\ live_tip_set(walk.id, walk.at)
  /\ walk' = [walk EXCEPT !.phase = "live", !.lagged = @ \/ walk.at < Len(thread[walk.id])]
  /\ UNCHANGED <<thread, revoked, garbled>>

is_terminal_spend(kind) == kind = "payout"

(* get_raw_tx of a terminal spend: cached for good, the tip entry dropped.  *)

TerminalFound ==
  /\ walk.phase = "raw"
  /\ is_terminal_spend(thread[walk.id][walk.at + 1])
  /\ revoked' = revoked \cup {walk.id}
  /\ live_tip_set(walk.id, 0)
  /\ walk' = [walk EXCEPT !.phase = "revoked"]
  /\ UNCHANGED <<thread, garbled, faults>>

(* The next hop, unless it is one too many: then the call ends in           *)
(* BNS_EHOPLIMIT.  (Mutant: one hop is given away.)                         *)
hop_early(w) == [w EXCEPT !.at = @ + 1, !.hops = @ + 1,
                          !.phase = IF w.hops + 2 < MaxHops THEN "spending" ELSE "error"]

hop(w) == [w EXCEPT !.at = @ + 1, !.hops = @ + 1,
                    !.phase = IF w.hops + 1 < MaxHops THEN "spending" ELSE "error"]

(* get_raw_tx of a spend that recreates the state at output 0.              *)
Hop ==
  /\ walk.phase = "raw"
  /\ ~ is_terminal_spend(thread[walk.id][walk.at + 1])
  /\ walk' = hop(walk)
  /\ UNCHANGED <<thread, revoked, live_tips, garbled, faults>>

(* The body does not deserialize.  is_terminal_spend says "not terminal",   *)
(* so the walk goes on behind the spend as if it had recreated the state.   *)
GarbledHop ==
  /\ walk.phase = "raw" /\ Fault
  /\ walk' = hop(walk)
  /\ garbled' = garbled \cup {walk.id}
  /\ UNCHANGED <<thread, revoked, live_tips>>

(* A request fails (or memory runs out): the call returns the error.        *)
RequestFails ==
  /\ walk.phase \in {"spending", "raw"} /\ Fault
  /\ walk' = [walk EXCEPT !.phase = "error"]
  /\ UNCHANGED <<thread, revoked, live_tips, garbled>>

WalkStep == SpenderFound \/ Unspent \/ TerminalFound \/ Hop \/ GarbledHop \/ RequestFails

Answered == walk.phase \in {"live", "revoked", "error"}
Ask(id) == (walk.phase = "idle" \/ Answered) /\ is_revoked(id)

OracleInit ==
  /\ thread = [id \in Ids |-> <<"state">>]
  /\ revoked = {} /\ live_tips = [id \in Ids |-> 0]
  /\ garbled = {} /\ faults = 0
  /\ \E id \in Ids : walk = [phase |-> "idle", id |-> id, at |-> 1, hops |-> 0, ended |-> FALSE,
                             lagged |-> FALSE]

OracleNext ==
  \/ \E id \in Ids : Ask(id) \/ \E kind \in Kinds : Spend(id, kind)
  \/ WalkStep

OracleSpec == OracleInit /\ [][OracleNext]_oracleVars

-----------------------------------------------------------------------------
(* Types of the thread, the caches and the call in progress.                *)
OracleTypeOK ==
  /\ thread \in [Ids -> Seq(Kinds)]
  /\ revoked \subseteq Ids /\ live_tips \in [Ids -> Nat]
  /\ walk \in Walk /\ garbled \subseteq Ids /\ faults \in 0..MaxFaults

(* Both caches tell the truth, however late or unreliable the explorer: a   *)
(* cached revocation is one on the chain and has no tip entry, and a cached *)
(* tip is an output of the identity itself, so that a walk resumed there    *)
(* cannot have left the terminal spend behind (garbled answers excepted).   *)
OnIdentity(id, n) == n <= Len(thread[id]) /\ \A i \in 1..n : thread[id][i] = "state"
CachesAreSound ==
  \A id \in Ids :
    /\ id \in revoked => Ended(id) /\ live_tips[id] = 0
    /\ id \notin garbled => OnIdentity(id, live_tips[id])

(* "Live" is an answer about the moment the call began: unless the explorer *)
(* hid a spend during this very call (or ever garbled one), the identity    *)
(* had not ended by then, however late earlier answers were and wherever    *)
(* the walk resumed.                                                        *)
LiveIsCurrent ==
  walk.phase = "live" /\ walk.ended => walk.lagged \/ walk.id \in garbled

(* A revocation once reported is reported ever after, without a request.    *)
RevocationIsPermanent ==
  [][ /\ revoked \subseteq revoked'
      /\ walk' # walk /\ walk'.id \in revoked => walk'.phase = "revoked"]_oracleVars

(* chain_revocation_oracle.h: "FAIL-CLOSED: any HTTP/hop-limit error MUST   *)
(* propagate (non-BNS_OK) so the KeyBroker treats unknown as deny; never    *)
(* swallow errors".  A body that is no transaction must then not make the   *)
(* oracle call an ended identity live.                                      *)
GarbageIsNotLive ==
  walk.phase = "live" /\ walk.ended => walk.lagged
=============================================================================
