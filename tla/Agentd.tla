------------------------------- MODULE Agentd -------------------------------
(***************************************************************************)
(* The agentd command line tool (scripts/agentd_lib.c) and the files it    *)
(* keeps: STATE_FILE, its broadcast journal and the opt-in recovery-key    *)
(* store.  Each process runs one command: read STATE_FILE, ask the         *)
(* provider whether the tip is still unspent, build and sign the spend,    *)
(* broadcast it, journal the txid, replace STATE_FILE.  Processes share    *)
(* nothing but the files and the chain, and take no lock across a command. *)
(*                                                                         *)
(* A process may be killed between any two steps, the machine may lose     *)
(* power, the provider's answers may be late, lost or errors, and every    *)
(* write may fail.  A command run without CONFIRM_MAINNET_BROADCAST=yes    *)
(* and "status" change nothing and are stutters.                           *)
(***************************************************************************)
EXTENDS IdentityChain

CONSTANTS Procs,        \* agentd processes that may overlap
          MaxBackdate,  \* bound of AGENTD_LOCKTIME_BACKDATE, clock units
          MaxForeign,   \* bound: spends by other parties come before that many are unrecorded
          MaxFaults,    \* bound: failed writes, lost answers, kills, power losses
          NoFile        \* STATE_FILE does not exist / nothing read yet

Statuses == {"deployed", "actioned", "revoked"}

(* STATE_FILE.  The raw transaction it also stores is determined by the     *)
(* tip's txid, so reading the state part of the tip out of it is reading    *)
(* chain[tip].                                                              *)
StateFile == [genesis : 1..MaxTx, agent : Keys, m : Meters, tip : 1..MaxTx,
              status : Statuses, history : Seq(1..MaxTx)]

ASSUME AgentdConstants ==
  /\ NoFile \notin StateFile
  /\ MaxBackdate \in Nat /\ MaxBackdate <= WindowDuration /\ MaxFaults \in Nat
  /\ MaxForeign \in Nat
  /\ StartClock - MaxBackdate >= WindowDuration

VARIABLES
  file,        \* STATE_FILE as a reader sees it (the directory entry)
  durable,     \* STATE_FILE as a power loss would leave it
  journal,     \* txids in STATE_FILE.broadcasts, fsynced
  store,       \* identity whose keys STATE_FILE.recovery_keys holds, or 0
  pc, cmd, st, tx, txid,   \* per process: step, command, copy of the file,
                           \* signed transaction, txid once accepted
  unrecorded,  \* history: accepted spends STATE_FILE was never told of
  unjournaled, \* history: accepted spends whose journal append failed
  faults       \* counts the faults, for MaxFaults

disk  == <<file, durable, journal, store>>
procs == <<pc, cmd, st, tx, txid>>
ghost == <<unrecorded, unjournaled, faults>>
vars  == <<chainVars, disk, procs, ghost>>

NoTx == Unsigned("stake", 0, NoOut)   \* placeholder before a transaction is built
Commands == {"deploy", "action", "recover", "revoke"}   \* "none" when idle

Fault == faults < MaxFaults /\ faults' = faults + 1

Goto(p, s) == pc' = [pc EXCEPT ![p] = s]

(* The process is gone and its memory with it.                              *)
Exit(p) ==
  /\ pc'   = [pc   EXCEPT ![p] = "idle"]
  /\ st'   = [st   EXCEPT ![p] = NoFile]
  /\ tx'   = [tx   EXCEPT ![p] = NoTx]
  /\ txid' = [txid EXCEPT ![p] = 0]
  /\ cmd'  = [cmd  EXCEPT ![p] = "none"]

-----------------------------------------------------------------------------
(* agentd_run: deploy starts from nothing (an existing STATE_FILE is not    *)
(* looked at); the others read and parse STATE_FILE first.                  *)
Invoke(p, c) ==
  /\ pc[p] = "idle"
  /\ c # "deploy" => file # NoFile
  /\ cmd' = [cmd EXCEPT ![p] = c]
  /\ st' = [st EXCEPT ![p] = IF c = "deploy" THEN NoFile ELSE file]
  /\ Goto(p, IF c = "deploy" THEN "build" ELSE "preflight")
  /\ UNCHANGED <<chainVars, disk, tx, txid, ghost>>

(* is_output_spent on the persisted tip.  "Unspent" is also what a lagging  *)
(* index answers for a spent output; a provider error or "spent" stops the  *)
(* command.                                                                 *)
PreflightUnspent(p) ==
  /\ pc[p] = "preflight"
  /\ Goto(p, "build")
  /\ UNCHANGED <<chainVars, disk, cmd, st, tx, txid, ghost>>

(* Any early exit before the broadcast: spent or unverifiable tip, missing  *)
(* key or artifact, not enough funding, signing failure.                    *)
GiveUp(p) ==
  /\ pc[p] \in {"preflight", "build"}
  /\ Exit(p)
  /\ UNCHANGED <<chainVars, disk, ghost>>

(* instance_at_tip: meters and @state agent decoded from the tip's script;  *)
(* the decoded agent is also put where the constructor agent belongs.       *)
instance_at_tip(f) == [agent |-> chain[f.tip].out.agent, m |-> chain[f.tip].out.m]

build_deploy ==
  {Unsigned("deploy", 0, locking_script(k, genesis_state)) : k \in Keys}

(* build_agent_tea_action, signed with the configured agent key; the        *)
(* validator attestation is always the dummy one.                           *)
build_action(f) ==
  LET inst == instance_at_tip(f) IN
  {[Unsigned("action", f.tip, locking_script(inst.agent, apply_action(inst.m, a, clock - back)))
    EXCEPT !.signer = k, !.amount = a, !.now = clock - back] :
     a \in Amounts, k \in Keys, back \in 0..MaxBackdate}

(* The guardian signatures recover presents: its own from the recovery-key  *)
(* store, if that is this identity's; where the store is missing, or cannot *)
(* be read or parsed, those of RECOVER_SIGS_FILE, which may date from an    *)
(* earlier recovery.                                                        *)
custodial_sigs(f, k) ==
  {[by |-> g, gen |-> f.genesis, msg |-> recoveryMsg(k, chain[f.tip].out.m.recoveryCount)] :
     g \in Guardians}
recover_sigs(f, k) ==
  {s \in {custodial_sigs(f, k)} : store = f.genesis} \cup
  {s \in SUBSET {a \in approvals : a.msg.newAgent = k} :
     Cardinality({a.by : a \in s}) = Cardinality(s)}

build_recover(f) ==
  LET inst == instance_at_tip(f)
      next == [inst.m EXCEPT !.recoveryCount = @ + 1] IN
  UNION {{[Unsigned("recover", f.tip, locking_script_ex(inst.agent, k, next)) EXCEPT !.sigs = s] :
            s \in {x \in recover_sigs(f, k) : Cardinality(x) >= RecoveryThreshold}} : k \in Keys}

build_revoke(f) ==
  {[Unsigned("revoke", f.tip, NoOut) EXCEPT !.signer = k] : k \in Keys}

Builds(p) ==
  CASE cmd[p] = "deploy"  -> build_deploy
    [] cmd[p] = "action"  -> build_action(st[p])
    [] cmd[p] = "recover" -> build_recover(st[p])
    [] cmd[p] = "revoke"  -> build_revoke(st[p])

Build(p) ==
  /\ pc[p] = "build"
  /\ \E t \in Builds(p) : /\ tx' = [tx EXCEPT ![p] = t]
                          /\ approvals' = approvals \cup t.sigs
  /\ Goto(p, "broadcast")
  /\ UNCHANGED <<chain, clock, disk, cmd, st, txid, ghost>>

-----------------------------------------------------------------------------
(* chain_broadcast_send.  The txid is computed from the signed bytes, so an *)
(* acknowledged broadcast is recorded under the right id.  (Mutant: the     *)
(* journal is skipped.)                                                     *)
BroadcastAccepted_unjournaled(p) ==
  /\ pc[p] = "broadcast"
  /\ Accept(tx[p])
  /\ txid' = [txid EXCEPT ![p] = Len(chain) + 1]
  /\ Goto(p, "rename")
  /\ UNCHANGED <<clock, approvals, disk, cmd, st, tx, ghost>>

BroadcastAccepted(p) ==
  /\ pc[p] = "broadcast"
  /\ Accept(tx[p])
  /\ txid' = [txid EXCEPT ![p] = Len(chain) + 1]
  /\ Goto(p, "journal")
  /\ UNCHANGED <<clock, approvals, disk, cmd, st, tx, ghost>>

(* The node took the transaction but the answer never arrived: the command  *)
(* fails as if it had been refused.                                         *)
BroadcastAnswerLost(p) ==
  /\ pc[p] = "broadcast"
  /\ Accept(tx[p])
  /\ unrecorded' = unrecorded \cup {Len(chain) + 1}
  /\ Exit(p) /\ Fault
  /\ UNCHANGED <<clock, approvals, disk, unjournaled>>

(* Contract or double-spend rejection, a non-final locktime, or a request   *)
(* that was never delivered.  (Mutant: a refused revocation is recorded.)   *)
BroadcastRefused_revoked(p) ==
  /\ pc[p] = "broadcast"
  /\ \/ cmd[p] # "revoke" /\ Exit(p)
     \/ /\ cmd[p] = "revoke"
        /\ txid' = [txid EXCEPT ![p] = Len(chain) + 1]
        /\ Goto(p, "journal") /\ UNCHANGED <<cmd, st, tx>>
  /\ UNCHANGED <<chainVars, disk, ghost>>

BroadcastRefused(p) ==
  /\ pc[p] = "broadcast"
  /\ Exit(p)
  /\ UNCHANGED <<chainVars, disk, ghost>>

(* agentd_journal_broadcast, fsynced before it returns, with the directory  *)
(* of the journal, which is that of STATE_FILE unless overridden; a failure *)
(* only warns.                                                              *)
Journal(p) ==
  /\ pc[p] = "journal"
  /\ \/ /\ journal' = journal \cup {txid[p]} /\ durable' \in {durable, file}
        /\ UNCHANGED <<unjournaled, faults>>
     \/ unjournaled' = unjournaled \cup {txid[p]} /\ Fault /\ UNCHANGED <<journal, durable>>
  /\ Goto(p, "rename")
  /\ UNCHANGED <<chainVars, file, store, cmd, st, tx, txid, unrecorded>>

-----------------------------------------------------------------------------
(* cmd_action's own copy of the meter arithmetic, on the JSON numbers.      *)
(* (Mutant: the window never rolls.)                                        *)
advance_json_never_rolls(m, amount, now) ==
  [m EXCEPT !.txCount = @ + 1, !.spentInWindow = @ + amount,
            !.tier = IF m.txCount + 1 >= GraduationThreshold THEN 2 ELSE @]

advance_json(m, amount, now) ==
  LET elapsed == now - m.windowStart >= WindowDuration
      count   == m.txCount + 1 IN
  [txCount       |-> count,
   spentInWindow |-> (IF elapsed THEN 0 ELSE m.spentInWindow) + amount,
   windowStart   |-> IF elapsed THEN now ELSE m.windowStart,
   tier          |-> IF count >= GraduationThreshold /\ m.tier < 2 THEN 2 ELSE m.tier,
   recoveryCount |-> m.recoveryCount]

(* The record each command writes.  (Mutants: the history or the status not *)
(* brought up to date.)                                                     *)
recovered_state_no_history(f, t, id) ==
  [f EXCEPT !.agent = t.out.agent, !.m.recoveryCount = @ + 1, !.tip = id]
revoked_state_no_status(f, id) == [f EXCEPT !.history = Append(@, id)]

deployed_state(t, id) ==
  [genesis |-> id, agent |-> t.out.agent, m |-> genesis_state, tip |-> id,
   status |-> "deployed", history |-> <<id>>]

actioned_state(f, t, id) ==
  [f EXCEPT !.m = advance_json(@, t.amount, t.now), !.status = "actioned",
            !.tip = id, !.history = Append(@, id)]

recovered_state(f, t, id) ==
  [f EXCEPT !.agent = t.out.agent, !.m.recoveryCount = @ + 1,
            !.tip = id, !.history = Append(@, id)]

(* The tip is left at the output the revocation spent.                      *)
revoked_state(f, id) ==
  [f EXCEPT !.status = "revoked", !.history = Append(@, id)]

NewState(c, f, t, id) ==
  CASE c = "deploy"  -> deployed_state(t, id)
    [] c = "action"  -> actioned_state(f, t, id)
    [] c = "recover" -> recovered_state(f, t, id)
    [] c = "revoke"  -> revoked_state(f, id)

(* agentd_write_file_atomic up to the rename: readers see the new file, a   *)
(* power loss may still bring the old one back.                             *)
Rename(p) ==
  /\ pc[p] = "rename"
  /\ file' = NewState(cmd[p], st[p], tx[p], txid[p])
  /\ Goto(p, "sync")
  /\ UNCHANGED <<chainVars, durable, journal, store, cmd, st, tx, txid, ghost>>

(* The temporary file could not be written, synced or renamed.              *)
WriteFailed(p) ==
  /\ pc[p] = "rename"
  /\ unrecorded' = unrecorded \cup {txid[p]}
  /\ Exit(p) /\ Fault
  /\ UNCHANGED <<chainVars, disk, unjournaled>>

(* fsync of the directory makes its current entries durable.  A deploy with *)
(* AGENTD_PERSIST_RECOVERY_KEYS goes on to save the keys.                   *)
SyncDir(p) ==
  /\ pc[p] = "sync"
  /\ durable' = file
  /\ \/ Exit(p)
     \/ cmd[p] = "deploy" /\ Goto(p, "keys") /\ UNCHANGED <<cmd, st, tx, txid>>
  /\ UNCHANGED <<chainVars, file, journal, store, ghost>>

(* The directory fsync failed: exit 1 although the new file is visible.     *)
(* (Mutant: the old file is put back.)                                      *)
SyncFailed_restores(p) ==
  /\ pc[p] = "sync"
  /\ file' = durable /\ unrecorded' = unrecorded \cup {txid[p]}
  /\ Exit(p) /\ Fault
  /\ UNCHANGED <<chainVars, durable, journal, store, unjournaled>>

SyncFailed(p) ==
  /\ pc[p] = "sync"
  /\ Exit(p) /\ Fault
  /\ UNCHANGED <<chainVars, disk, unrecorded, unjournaled>>

(* save_recovery_keys, after the state file; its failure (which may come    *)
(* after the rename) only fails the command.                                *)
SaveKeys(p) ==
  /\ pc[p] = "keys"
  /\ \/ store' = txid[p] /\ durable' = file /\ UNCHANGED faults
     \/ store' \in {store, txid[p]} /\ Fault /\ UNCHANGED durable
  /\ Exit(p)
  /\ UNCHANGED <<chainVars, file, journal, unrecorded, unjournaled>>

-----------------------------------------------------------------------------
Recorded(f) == IF f = NoFile THEN {} ELSE {f.history[i] : i \in 1..Len(f.history)}

(* Spends in the hands of a process that has not yet replaced STATE_FILE.   *)
InFlight(p) == IF pc[p] \in {"journal", "rename"} THEN {txid[p]} ELSE {}

Kill(p) ==
  /\ pc[p] # "idle"
  /\ unrecorded' = unrecorded \cup InFlight(p)
  /\ Exit(p) /\ Fault
  /\ UNCHANGED <<chainVars, disk, unjournaled>>

(* Every process dies; a rename whose directory was not synced may be gone. *)
PowerLoss ==
  /\ file' \in {file, durable} /\ durable' = file'
  /\ unrecorded' = unrecorded \cup (Txids \ Recorded(file'))
  /\ pc' = [p \in Procs |-> "idle"] /\ st' = [p \in Procs |-> NoFile]
  /\ tx' = [p \in Procs |-> NoTx] /\ txid' = [p \in Procs |-> 0]
  /\ cmd' = [p \in Procs |-> "none"]
  /\ Fault
  /\ UNCHANGED <<chainVars, journal, store, unjournaled>>

(* Other parties spend, guardians sign, time passes.                        *)
Others ==
  /\ Environment
  /\ Len(chain') > Len(chain) => Cardinality(unrecorded) < MaxForeign
  /\ unrecorded' = unrecorded \cup (DOMAIN chain' \ DOMAIN chain)
  /\ UNCHANGED <<disk, procs, unjournaled, faults>>

Init ==
  /\ ChainInit
  /\ file = NoFile /\ durable = NoFile /\ journal = {} /\ store = 0
  /\ pc = [p \in Procs |-> "idle"] /\ cmd = [p \in Procs |-> "none"]
  /\ st = [p \in Procs |-> NoFile] /\ tx = [p \in Procs |-> NoTx]
  /\ txid = [p \in Procs |-> 0]
  /\ unrecorded = {} /\ unjournaled = {} /\ faults = 0

Step(p) ==
  \/ PreflightUnspent(p) \/ GiveUp(p) \/ Build(p)
  \/ BroadcastAccepted(p) \/ BroadcastAnswerLost(p) \/ BroadcastRefused(p)
  \/ Journal(p) \/ Rename(p) \/ WriteFailed(p)
  \/ SyncDir(p) \/ SyncFailed(p) \/ SaveKeys(p)

Next ==
  \/ \E p \in Procs : (\E c \in Commands : Invoke(p, c)) \/ Step(p) \/ Kill(p)
  \/ PowerLoss
  \/ Others

Spec == Init /\ [][Next]_vars

-----------------------------------------------------------------------------
MirrorsTip(f) ==
  /\ f.tip \in Txids /\ chain[f.tip].out # NoOut
  /\ chain[f.tip].gen = f.genesis
  /\ chain[f.tip].out.m = f.m /\ chain[f.tip].out.agent = f.agent

(* The numbers and the agent key agentd keeps in STATE_FILE, advanced by    *)
(* its own arithmetic, are those the contract committed in the tip output,  *)
(* for the file readers see and for the one a power loss leaves.            *)
FileMirrorsTip == \A f \in {file, durable} : f # NoFile => MirrorsTip(f)

(* A spend of the recorded tip is never overlooked without cause: it is in  *)
(* the hands of a running process, or it is the recorded revocation, or     *)
(* somebody else made it, its answer was lost, or the process that made it  *)
(* failed or died before STATE_FILE was replaced.                           *)
TipSpendAccounted ==
  file # NoFile => \A t \in Txids : chain[t].prev = file.tip =>
    \/ t \in unrecorded
    \/ \E p \in Procs : t \in InFlight(p)
    \/ chain[t].op = "revoke" /\ file.status = "revoked"

(* The recorded history is the identity's actual lineage on the chain, from *)
(* the deploy to the tip (and the revocation that spent it), without a gap. *)
HistoryIsLineage ==
  file # NoFile =>
    LET h == file.history
        n == Len(h) IN
    /\ h[1] = file.genesis
    /\ \A i \in 2..n : chain[h[i]].prev = h[i-1]
    /\ IF file.status = "revoked"
       THEN n > 1 /\ chain[h[n]].op = "revoke" /\ h[n-1] = file.tip
       ELSE h[n] = file.tip

(* "Durable record before JSON write": no transaction appears in STATE_FILE *)
(* that the fsynced journal lacks, unless its append had failed.            *)
JournalFirst == Recorded(file) \cup Recorded(durable) \subseteq journal \cup unjournaled

(* An identity recorded as revoked has no live output left, so nothing can  *)
(* act under it any more.                                                   *)
RevokedIsDead ==
  file # NoFile /\ file.status = "revoked" =>
    /\ \E t \in Txids : chain[t].prev = file.tip /\ chain[t].op = "revoke"
    /\ \A t \in Txids : chain[t].gen = file.genesis => ~ Live(t)

(* Replacing STATE_FILE extends the history of its identity by exactly one  *)
(* spend and never follows a revocation: overlapping commands cannot take   *)
(* an identity's file back; only a power loss can.                          *)
Extends(f, g) == Len(g.history) = Len(f.history) + 1
                 /\ SubSeq(g.history, 1, Len(f.history)) = f.history
FileNeverGoesBack ==
  [][file # NoFile /\ file' # file /\ ~ PowerLoss
       => /\ file' # NoFile
          /\ file'.genesis = file.genesis => file.status # "revoked" /\ Extends(file, file')]_vars

(* What the comment in build_agent_tea_recover and the header of            *)
(* agent_tea_locking_script_ex demand of every rebuilt identity output:     *)
(* the constructor agent stays at its genesis value.                        *)
BuiltKeepsCode ==
  \A p \in Procs : tx[p].out # NoOut /\ tx[p].prev # 0
    => tx[p].out.code = chain[tx[p].prev].out.code
=============================================================================
