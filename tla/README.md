# TLA+ models of chain_c

`chain_c` is a C port of the Priscilla BSV chain layer: AI-agent identities that
live in stateful outputs of a blockchain ("Tea" contracts), the tools that
deploy, use, recover and revoke them, a key broker that grants API keys under an
identity, release attestation (ARP), a sandbox with an erasable record store,
and the WhatsOnChain (WoC) client and wallet code underneath. This directory
models the parts of it that keep state, checks them with TLC on small instances
and proves every safety property of the passing runs for all instances with
TLAPS. Paths below are those of the repository.

## 1. Inventory

| Component | State it keeps | Operations | What makes it correct |
|---|---|---|---|
| AgentTea contract (`artifacts/src/contracts-next/agentTea.scrypt`, mirrored by `src/contracts_next/agent_tea.c`) | the identity output: frozen constructor arguments, six `@state` properties | executeAction, stake, slashValidator, recover, revoke | budget per window, receipts without gaps, one use per guardian quorum, code part never changes |
| agentd (`src/scripts/agentd_lib.c`, `agentd_persistence.c`, `agent_state.c`) | STATE_FILE, broadcast journal, recovery-key store | deploy, action, recover, revoke, status | the file is true of the chain, no lineage is lost or taken back |
| Deployment scripts (`deploy_lib.c`, `live_agent_smoke_lib.c`, `bonsai_third_entry_lib.c`) | ephemeral key file, one funding address | deploy; deploy, action, revoke with waits | value adds up, "complete" means revoked, every run ends |
| Revocation oracle (`src/broker/chain_revocation_oracle.c`) | permanent cache of revoked identities, last live tip per identity | is_revoked | caches never lie, "live" is not an old truth |
| Key broker (`src/broker/key_broker.c`, `identity_chain_view.c`) | issued keys, local latch, accountant per key | issue, issue_from_chain, authorize, revoke_locally | no grant under a dead identity, exact metering, kill switch holds |
| Window accountant (`src/broker/authorization_envelope.c`) | spent, window start | charge | the meter is the sum of what was granted |
| Sandboxed agent, enclave, vault (`src/sandbox`, `src/privacy`) | keys per identity, sealed records | sandboxed_agent_act, open, verify, shred | effects are paid for and receipted, erasure is final |
| RicardianTea and reputation indexer (`src/contracts/ricardian_tea.c`, `src/reputation_indexer.c`) | a thread of spends; a walk over it | executeTea, checkpoint, slash, revoke; forward and backward walk | builders fit the contract, a history has no gap |
| Charter (`src/ricardian_charter.c`, `atlas_identity.c`, `verify_ricardian_lib.c`) | prose, signature sidecar | parse, sign, deploy, audit | the identity's parameters are those of the signed prose |
| PublisherTea, AttestorTea (`src/contracts_next`, `arp_tx_builder.c`), anchor verifier (`src/verifier/release_anchor_verifier.c`) | pending release, bond | announce, activate, cancel, invalidate, retire; stake, slash, withdraw; verify | one pending release, the gate lets through only published releases, bonds are paid out once |
| Manifest registry (`src/verifier/manifest_registry.c`) | list in memory, JSONL log | install, uninstall, replay | a restart answers as before |
| WoC gate (`src/chainSources/woc_rate_limiter.c`) | a process-wide mutex, time of the last start | woc_rate_limited | spacing, bounded retries, every call returns |
| WoC client and chain source (`woc_client.c`, `whats_on_chain.c`) | none (HTTP) | reads, broadcast, waits | errors propagate; the txid is computed from the bytes |
| Funding, wallet, payments (`utxo_select.c`, `bsv_fees.c`, `chain_broadcast.c`, `src/wallet`, `pay_lib.c`, `opreturn_lib.c`, `cpfp_lib.c`) | local to a command | rank, select, settle, send | value is conserved, the fee is fair, the books balance with what was printed |
| Crypto, BSV and JSON primitives, sCrypt codec, ZK path, HTTP transport | none | encoders, library wrappers | pinned byte by byte by golden vectors; not modelled |

How they interact: agentd and the scripts build contract spends with the
transaction builders, fund them from WoC, broadcast through the gate and then
write their files. The broker asks the oracle, the oracle walks the chain through
`whats_on_chain.c` (which does not pass the gate); so does the indexer. The
sandbox charges the broker's accountant. Nothing is shared between processes but
files and the chain.

Hard behaviours: overlapping processes without a lock; kill and power loss
between broadcast, journal, rename and fsync; lost answers; indexes that lag, each
by its own amount; signatures that outlive their use; contract arithmetic that
exists a second time in C; a chain that grows between the requests of a walk;
caches resumed long after they were filled; a mutex held through backoffs; writes
cut short; locktimes the spender chooses; integer boundaries (window edges, dust,
money supply, size estimates). `PROJECT.json` lists each at its line under
"hazards".

## 2. Modules

| Module | Models | Correspondence |
|---|---|---|
| `AgentTea` | contract rules and C mirror, as operators | `apply_action`, `genesis_state`, `locking_script(_ex)` from `agent_tea.c`; `executeAction`, `stake`, `slashValidator`, `recover`, `revoke` are the `require`s of the contract and the output its `hashOutputs` assertion insists on |
| `IdentityChain` | the chain as a list of transactions, each output spendable once; all parties that hold keys | `Accept` is the node's validation (external); `Other*` are the builders of `agent_tea_tx_builder.c` / `contract_sign.c`; `GuardianSigns` an offline guardian |
| `IdentityLedger` | the abstract object an identity promises to be | `ImplementsLedger` of `IdentityChain` is the refinement |
| `Agentd` | agentd's commands on top of `IdentityChain`, one step per externally visible effect | `pc`: preflight, build, broadcast, journal, rename, sync, keys; `file` is the directory entry, `durable` what a power loss leaves |
| `AuthorizationEnvelope` | `window_accountant_charge` | used by `KeyBroker` and `Sandbox` |
| `RevocationOracle` | `chain_revocation_oracle_is_revoked`, two requests per hop | `thread[id]` is the spend chain of output 0; `walk` the call in progress |
| `KeyBroker` | `key_broker.c` on top of oracle and accountants | one call at a time, as the code is not thread safe |
| `RateLimiter` | `woc_rate_limited`, with threads and a millisecond clock | `since_last_start` is `now - g_last_start_ms`, up to the interval |
| `ChainFunding` | coin ranking, funding choice, fee window | operators named after `utxo_select.c`, `bsv_fees.c`, `chain_broadcast.c` |
| `WalletSpend` | `wallet_build_signed_spend`, one loop turn per step, the code's byte and satoshi constants | `pc`, `sel_count`, `running_in` are the loop's variables |
| `Payments` | `pay`, `opreturn`, `cpfp`, `wallet_send` around `WalletSpend` | one action per command, then the builder's steps, then send, refusal or lost answer |
| `Lifecycle` | `deploy`, the live agent smoke and the third entry, run side by side | `txs` the node, `indexed` and `listed` what WoC knows of it; `pc` is start, write_keys, deploy, action, revoke, send, wait |
| `ArpContracts` | PublisherTea and AttestorTea: contract demands and C builders, as operators | one operator per public function, one per builder and receipt |
| `Releases` | a publisher's thread, attestors, a bond, and the consumer's gate, one question per step | `gate.pc` follows `release_anchor_verifier_verify` |
| `ManifestRegistry` | log, replay, install, uninstall | the log is a sequence of pieces of lines |
| `RicardianThread` | RicardianTea spends and both indexer walks | `walk` is the call in progress |
| `Sandbox` | `sandboxed_agent_act`, enclave and vault | `Act` is one call with every way it can fail |
| `Charter` | prose, sidecar, deploy's signing part, agentd's deploy, the audit, edits in between | a prose is its text and its parameter lines |
| `SumTheorems` | lemmas about sums over finite sets, about ranks in a total order and about folds along a sequence | used by the proofs below |
| `AgentdProofs` (chain and agentd), `KeyBrokerProofs` (oracle and broker), `RateLimiterProofs`, `LifecycleProofs`, `ReleasesProofs`, `PaymentsProofs` (builder and commands), `ServicesProofs` (thread, sandbox, charter and registry) | theorems | section 5 |
| `MC*` | instances. Three of them put parts that share no state side by side, a behaviour is about one of them: `MCContracts` identities and releases, `MCPayments` commands and the gate, `MCServices` registry, thread, sandbox and charter | |

Data that no property tells apart is abstracted: keys, txids and names are model
values or positions; raw transactions are not stored because a txid determines
them; a signature is a record of who signed what; a hash is the tuple it commits
to; JSON text is a record. Operators with a suffix, marked "Mutant" in their
comment, are faulty variants of the definition below them, used to show that the
properties can fail.

Choices worth knowing:

* A recovery message binds the charter hash, the new key and `recoveryCount`.
  The charter hash defaults to a hash of the file name, so identities are told
  apart only by their guardian keys, which deploy generates afresh; a signature
  therefore carries the identity its key belongs to (`gen`), the message does not.
* `GuardianSigns` may sign for any live identity, also where deploy discarded the
  guardian keys. This over-approximates: safety holds a fortiori.
* When the history array cannot grow for lack of memory agentd writes the file
  without the entry; memory exhaustion is not modelled.
* agentd's preflight may answer "unspent" for a spent tip at any time (a lagging
  index); an error or "spent" ends the command.
* `OracleInit` starts every identity at a genesis transaction that carries the
  contract, as issue_from_chain verifies; key_broker_issue verifies nothing and
  is an action of its own.
* Fees are computed in double precision, division first. `fee_for_size` is the
  set of results that can come out.
* Locktimes in `Releases` are counted in blocks and may lie in the past, as the
  node only refuses one that has not come yet.
* A provider error in `Sandbox` may come after the effect: the code cannot tell.
* A tip handed to the backward walk of the indexer may be any transaction. One
  that is not of the thread (`Foreign`) has any receipt or none, and its first
  input may be an output of any transaction, of the thread or not (`ForeignHop`):
  the walk goes by the txid and ignores the output index.
* agentd's `recover` takes the guardian signatures from the recovery-key store if
  that is readable and of this identity, and otherwise from RECOVER_SIGS_FILE.
* `AgentdDeploys` reads no prose, as agentd does not: the limits are its built-in
  ones (`AgentdLimits`) and the hash is RICARDIAN_HASH, which may be that of any
  charter, or the hash of the state file's name (`NameHash`). The instance gives
  one edition of the prose the built-in limits.
* `deploy` of `Lifecycle` pays any rate of `fee_per_kb` (FEE_PER_KB or the
  explorer's quote); a key file whose write fails is left as it was, or emptied.

## 3. Runs

| Run | Shows | Bounds, and why they suffice |
|---|---|---|
| `contracts` | identities: on the receipts, actions between two window rolls stay within `dailyLimit` and rolls are a window apart (`WindowBudget`); no signature serves two recoveries (`ApprovalUsedOnce`); `CodeFrozen`; `MetersCountHistory`; the chain implements `IdentityLedger` (`ImplementsLedger`). Releases: `ActivationsAreAnnounced`, `GateMeansPublished`, `BondIsAccounted`, `BuildersFit` | identities: 4 transactions on up to 4 identities, 2 clock values with a window of 1, 2 guardians with quorum 2 and 3 signatures: a roll, a filled window and a second roll, a replayed quorum, and a competing spend all happen. Releases: 3 attestors, one dishonest, quorum 2, 2 releases, 3 spends, 3 blocks, depth 2: announce, activate, invalidate or announce, cancel, announce, with any locktime so far |
| `agentd_files` | STATE_FILE and journal stay true: `FileMirrorsTip`, `RevokedIsDead`, `TipSpendAccounted`, `HistoryIsLineage`, `JournalFirst`, `FileNeverGoesBack` | 2 processes, 3 transactions, other spenders, back-dated locktimes, 1 fault at any step: a deploy, a spend and a competing spend with one failure anywhere between. One key: rotation to another key is in `agentd_recover_code` |
| `agentd_recover_code` | finding 1 | 2 keys |
| `broker` | `GrantMeansLive`, `MeterMatchesGrants`, `KillSwitchHolds`, of the oracle below `CachesAreSound`, `LiveIsCurrent`, and under fairness `EndedKeyIsLatched` | 2 keys of one identity, threads of 4 with a hop limit of 2, so that walks from genesis fail on the limit while walks from a cached tip get through; 2 grants, window of 1 in a clock of 0..1, 1 fault or restart. `EndedKeyIsLatched` promises the latch only where the end of the thread is within the limit of the place the walk starts from (`InReach`): beyond it, say after a restart that forgot the cached tip, every call ends in `EHOPLIMIT`, the key is denied and stays unlatched |
| `oracle_garbled` | finding 2 | |
| `payments` | `SpendAddsUp`, `FeeIsFair`, `SelectionIsTight`, `BooksBalance`; of the gate `RequestsAreSerialAndFew`, `GatedStartsAreSpaced` and, under fairness, `CallsReturn` | 2 commands on 10 wallets: empty, dust, on both sides of the change limit, beyond a money supply scaled to 60000, unconfirmed coins, and fifteen coins for which estimate and settlement differ; VOUT in 0, 1, 4 with a range of 4 in place of 2^32. Gate: 3 threads, 2 calls each, 2 retries, interval 2, backoff 3 and 6 |
| `lifecycle` | `ValueIsAccounted`, `CompleteMeansRevoked`, `ParentConfirmed` and, under fairness, `RunsEnd` | any 2 of the 3 scripts on 5 wallets (exact to the satoshi, dust, more coins than inputs), two fee rates, both indexes lagging by any amount, a kill or lost answer anywhere |
| `releases_invalidate` | finding 3 | as `contracts` |
| `services` | registry `RestartIsFaithful`; sandbox `ReceiptsAreBacked`, `EffectsArePaid`, `ErasureHolds`; charter `PolicyFollowsProse`, `AuditMeansSigned`; thread and indexer `TeaBuildersFit`, `HistoryIsWhole` | registry: 3 extensions, 4 pieces of log. Sandbox: 2 identities, 3 actions, clock 0..2 set at will, window 2. Charter: every block of up to 3 lines, 2 editions, 2 keys, 2 deployments and one of agentd's. Thread: 4 spends, both hop limits 3 (reached: a thread of 4 is not walked to its end), any tip |
| `indexer_wrong_tip` | finding 4 | as `services` |
| `audit_agenttea` | finding 5 | as `services` |
| `registry_torn` | finding 6 | as `services` |

Deadlock is not checked where the bounds end the behaviour (a chain, a thread or
a log is full); it is checked for the oracle, the broker, the limiter, the
payments and the lifecycles.

Fairness. `LimiterFairness` of `RateLimiter`: the clock runs, and a thread that can go on
does; a request ends because the transport sets a total timeout
(`src/chainSources/http_transport.c`). The pthread mutex promises
no order, so none is assumed; `CallsReturn` holds because the number of calls is
bounded, and a thread facing endless competition is promised nothing.
`KeyBroker!LiveSpec`: a call that has begun comes to its end for the same reason,
and clients keep using their keys (strong fairness of `Authorize` per key, since a
call of one key disables the others meanwhile). That part is an assumption on the
clients: a key nobody uses is never latched. `Lifecycle!Spec`: a process that can
go on does, and its wait has a deadline; nothing is assumed of miners or of the
index, so a run may end by giving up.

## 4. Findings

1. **Recovered identities cannot act** (`agentd_recover_code`).
   `instance_at_tip` (`src/scripts/agentd_lib.c:513`) uses the rotated key as
   constructor argument; `agent_tea_tx_builder.c:367` explains why that argument
   must keep its genesis value. The contract refuses the next action or recovery.
2. **A garbled transaction body reads as "live"** (`oracle_garbled`).
   `is_terminal_spend` (`src/chain/tx_parse.c:69`) says "not terminal" for bytes
   that do not deserialize, while `chain_revocation_oracle.h:21` demands that
   errors propagate. The safety properties of oracle and broker therefore
   exclude identities about which the explorer ever answered garbage.
3. **The invalidate builder cannot fit the contract** (`releases_invalidate`).
   `build_arp_invalidate` (`src/txbuilders/arp_tx_builder.c:252`) takes the
   receipt's time from the same field it copies into the successor state; after
   an activation that field is zero and the spend's locktime is not.
4. **A wrong tip can be answered with a history** (`indexer_wrong_tip`).
   `collect_receipts_backward` (`src/reputation_indexer.c:433`) follows the txid of
   an input and ignores its output index; `reputation_indexer.h:168` says "wrong tip
   fails loudly". In the trace a transaction that spends another output of the
   genesis transaction is answered OK.
5. **The audit of an AgentTea identity does not read its hash**
   (`audit_agenttea`). `build_agenttea_script`
   (`src/scripts/verify_ricardian_lib.c:212`) takes the hash from the auditor's
   environment; an identity of agentd whose hash is that of a file name passes for
   any prose with agentd's built-in limits, and the audit prints "commits exactly
   this charter" (line 593).
6. **A failed install can be active after a restart** (`registry_torn`).
   `persist_line` (`src/verifier/manifest_registry.c:244`) leaves the bytes of a
   failed write in the log. In the trace the whole record was written and its
   newline was not: the install is reported as failed, and the next start replays
   it, against `manifest_registry.h:4`. A shorter piece would swallow the record
   that joins its line; `RestartIsFaithful` bounds the damage to these two.

Also noted, without a run of their own:

* `spend.c:58` calls `est_size_by_counts` a "Conservative signed-size estimate";
  it counts 148 bytes an input, the settlement 149. With fifteen small coins (a
  wallet of the run `payments`) the selection stops at fourteen and the spend is
  refused with "insufficient funds for fee" (`spend.c:294`) though a coin is left.
  The third part of `SelectionIsTight` bounds the shortfall to the fee of one byte
  an input.
* When the provider reports an error, `sandboxed_agent_act`
  (`src/sandbox/sandboxed_agent.c:138`) frees the sealed record, although the
  provider may have acted before it failed; `sandboxed_agent.h:18` says "every effect
  that ran has a receipt". `ActEffect` has that outcome, `ReceiptsAreBacked` is about
  the actions whose result came back, and `EffectsArePaid` is about all of them.
* `cpfp_run` (`src/scripts/cpfp_lib.c:124`) casts VOUT, a checked long, to `uint32_t`,
  so a number beyond it names another output of the parent, where the comment at
  line 37 has anything but an index refused. `Cpfp` cuts it in the same way.
* `woc_rate_limiter.h:2` speaks of "all WoC calls", but those of `whats_on_chain.c` go
  straight to the transport; the header calls the mutex "FIFO", which pthread
  mutexes are not.

## 5. Theorems

Every theorem is about the specification TLC runs, for all values of the
constants that satisfy the named assumption of the module (types and bounds TLC
evaluates on every run); a further hypothesis is stated in the theorem and named
below. Bounds such as `MaxTx` are any natural number.

`SumTheorems`. The library defines a sum by a recursion that takes members in an
order `CHOOSE` fixes. `SumTake` shows that any member may be taken first, by
looking at a smallest set for which it fails, since induction over sets is not
available to the prover as a rule. Adding a member, splitting a set and
renumbering it follow, and that in a finite total order every rank is taken once.
The library folds a sequence by a recursion over the sets of its indexes; that the
function it chooses exists (`FoldExists`) and that each of its values keeps a type
every step keeps (`FoldTyped`) is shown for `1..n`, where the index taken next is
the largest. This is what lets a theorem speak of a parser's or a replay's result
for any number of lines.

`AgentdProofs`, first part, about the chain (`AgentTeaConstants`,
`NoOutAssumption`, `ChainBounds`):

* `ChainTypeCorrect`, `ChainCodeFrozen`, `ChainApprovalUsedOnce`,
  `ChainImplementsLedger`, `ChainMetersCountHistory`, `ChainWindowBudget`.
* `ApprovalUsedOnce` compares two recoveries anywhere on the chain, so a single
  step says nothing about it. `ChainInv` supplies the thread: all but the last
  transaction of an identity are spent (`OneTip`, which an accepted spend keeps
  because it takes exactly that last one), so its recovery counter only grows,
  strictly at a recovery (`CountsGrow`), and the signatures of a recovery were
  made for the counter it found (`SigsMatch`). A signature in two recoveries
  would need the same counter twice.
* `StepShape` reduces every action to one accepted transaction or none; from
  there on the proofs follow the contract's conditions in `Valid`.
* The refinement reads an identity off its one unspent output (`TipIs`), shows
  that an accepted transaction leaves every other identity alone (`OthersStay`)
  and takes its own through one operation of the ledger or none (`OwnOperates`).
* `WindowBudget` sums receipts, the contract keeps a counter. `MeterInv` says the
  counter of every output is the sum of the receipts since the last roll
  (`SpentIsSum`), that no roll lies after the state's window start
  (`RollsBehind`) and that two rolls are a window apart (`RollsApart`).

`AgentdProofs`, second part, about the files (also `AgentdConstants`), for any
number of processes and faults:

* `AgentdFileMirrorsTip`, `AgentdHistoryIsLineage`, `AgentdJournalFirst`,
  `AgentdTipSpendAccounted`, `AgentdRevokedIsDead`, and the action property
  `AgentdFileNeverGoesBack`.
* `AgentdInv`: every file that exists anywhere, on the disk, as a power loss
  leaves it or in the memory of a process, is the lineage of an identity
  (`GoodFile`, stable because the chain only grows). A process whose spend the
  chain has taken holds a file that is good already (`SentGood`), and until it has
  written it no file names that transaction and nobody but strangers has built on
  it (`Fresh`): two processes may start from one tip, but the chain takes one
  spend, so the file a process replaces is the one it read. `Ahead` and
  `Journaled` carry `FileNeverGoesBack` and `JournalFirst`.

`KeyBrokerProofs` (`OracleConstants`, `EnvelopeConstants`, `BrokerConstants`):

* Of the oracle alone: `OracleTypeCorrect`, `OracleCachesSound`,
  `OracleLiveIsCurrent`, `RevocationStays`. `CachesAreSound` is not inductive: the
  walk in progress is about to become a cached tip. `OracleInv` adds that the walk
  stands on the identity (`WalkSound`), that its identity is not in the permanent
  cache, that cached tips are inside the thread and that every thread starts with
  the contract. One lemma for a new call, one for a growing chain (`SpendExtends`)
  and one for the explorer's answers.
* Of the broker: `BrokerOracleSound`, `BrokerGrantMeansLive`,
  `BrokerMeterMatchesGrants`, and the action property `BrokerKillSwitch`.
  `BrokerInv` says what survives from the check before the walk to the charge
  after it (`CallSound`): the key is still there, not latched and of the identity
  that was asked about. The meter is tied to the grants since the window's roll
  by a sum.

`RateLimiterProofs`, for any number of threads and constants for which no
backoff is shorter than the interval (`LimiterConstants`; 400 ms and 1000 ms in
the code):

* `LimiterTypeCorrect`, `LimiterSerial`, `LimiterSpaced`.
* `LimiterInv`: whoever is between lock and unlock owns the mutex; the rest of
  the owner's sleep and the age of the last gated request add up to at least the
  interval; requests of a call keep step with its attempt index.

`LifecycleProofs` (`FundingConstants`, `LifecycleConstants`), for any runs, coins
and script length:

* `LifecycleValueIsAccounted`, `LifecycleCompleteMeansRevoked`, and the action
  property `LifecycleParentConfirmed`.
* A transaction is built from a listing and sent later, when other runs may have
  spent the same coins. `Sound` is what remains true of it: its inputs exist, are
  coins of the address or the run's identity, and exceed its outputs by the fee.
  For that the funding chosen must hold every coin once: the ranking is a strict
  total order of the listed coins (`RankIsOrder`), so each rank is taken by one.
* How far a run has come is read off the accepted transactions (`Born`, `Moved`,
  `Closed`) and tied to its program counter by `Stage`; another run's
  transaction changes neither (`OthersGrow`), its own takes it one stage further
  (`OwnGrows`), and a run goes on only from a transaction in a block.

`ReleasesProofs` (`ArpConstants`, `ReleaseConstants`), for any attestors and
threads of any length:

* `ReleasesBuildersFit`, `ReleasesBondIsAccounted`,
  `ReleasesActivationsAnnounced`, `ReleasesGateMeansPublished`.
* The last one has the hypothesis `FewDishonest`: fewer than `min_quorum`
  attestors are dishonest. With more there is nothing to prove, since the gate
  has only their signatures. Then a quorum holds an honest signature, and an honest
  attestor signs what was announced (`HonestSigned`); `GateSound` carries what each
  question of the gate established to the next, while the chain grows.
* `ActivationsAreAnnounced` speaks of the last pending spend before each one;
  `ThreadSound` says the same of every prefix and that the live state holds what
  is pending.

`PaymentsProofs` (`FundingConstants`, `PaymentConstants`), for any wallet, plan, fee
rate and series of commands:

* `PaymentsSpendAddsUp`, `PaymentsFeeIsFair`, `PaymentsSelectionIsTight`,
  `PaymentsBooksBalance`.
* `BuildOK` is the invariant of the builder's loop: the running sum is that of the
  coins taken so far, the loop goes on only while amount and estimated fee are not
  covered (`Short`), and what is settled balances (`Fits`) at a fee that is `Fair`.
  The property follows the code in taking the fee for the size with a change
  output and dropping that output afterwards: the output's 34 bytes are saved, and
  two more where it made the output count a three-byte varint. The proof needs
  these two bytes (252 recipients), which no instance of a run reaches.
* `SelectionIsTight` also says what the refusal "insufficient funds for fee" is
  worth, which comes from a settled size above the estimate: the two sizes differ
  by at most a byte an input (`PlanGap`), and the fee grows with them (`FeeGrows`).
* `BooksBalance` compares what the key owns on the chain with the numbers the
  commands printed. Neither is computed from the other: `Balance` sums the unspent
  outputs, a report holds the amount and fee of plan and builder. What connects them
  is that an accepted transaction takes coins the key owns (`AcceptedOwn`), that the
  listing a command read holds each coin once and at its value (`Listing`,
  `Ranked`), so that the builder's running sum is what the node takes from the key
  (`SpendTakes`), and that what comes back is the change (`SpendGains`, `SpendCosts`;
  `ChildIsTx` for cpfp). `PayInv` adds the shapes of the transactions, of the
  reports and of the child being built. A lost answer puts the report in doubt, and
  the set `taken` is chosen as it happens.

`ServicesProofs` (`ThreadConstants`, `EnvelopeConstants`, `SandboxConstants`,
`CharterConstants`, `RegistryConstants`), each service by itself:

* `ServicesTeaBuildersFit`: a thread's receipts carry different numbers
  (`ReceiptsNumbered`).
* `ServicesHistoryIsWhole`: `WalkOK` says what a walk has collected so far, the
  receipts from the genesis to where it stands in rising order (`ForwardOK`), or
  from there to where it began in falling order (`BackwardOK`, turned around at the
  end), and that a thread growing behind the walk changes neither. Nothing is
  claimed of a walk that began at a foreign tip.
* `ServicesErasureHolds`, `ServicesReceiptsBacked`: a key is minted once and stands
  for one identity (`VaultOK`), a record is sealed under the identity's key or an
  erased one (`RecordsOK`), and every kept action has its record (`ActsOK`).
* `ServicesEffectsArePaid`, for caps that are not negative (`PerWindow \in Nat`;
  with a negative one nothing ever passes): the meter is the cost of the actions
  since the one that opened the window (`OpensWindow`), and what lies less than a
  window before it fits in one budget, so that any stretch of a window's length
  holds at most two.

* `CharterPolicyFollowsProse`, `CharterAuditMeansSigned`. After `k` lines the
  scanner has an error exactly if one of them is malformed or repeats a key, and
  otherwise has found just those lines (`Scanned`, by way of the fold lemmas);
  that all required keys are there and no other is then a matter of counting.
  `CharterInv` says that every sidecar, every deployment under way, every output
  and every audit was made from one prose that parsed and that its issuer signed,
  whatever has become of the files since; agentd's outputs are exempt, so the
  second half of `AuditMeansSigned` is about RicardianTea outputs. It holds without
  a pinned Elder too: the output equals the script rebuilt from the prose and the
  Elder's key, and only a deployment in which the Elder signed that prose with that
  binding makes such an output.
* `RegistryRestartIsFaithful`. That the replay of a longer log is one step more
  than that of the shorter comes from the fold lemmas (`ReplaySteps`).
  `RegistryInv` bounds the extensions about which replay and list differ by two
  for every failed write, and by one less while the torn line is still open
  (`Slack`): the failed record itself, and the one that will join its line. The
  bound of the property alone is not inductive.

Only model-checked: the liveness properties `CallsReturn`, `EndedKeyIsLatched` and
`RunsEnd`, since the prover has no rule for fairness. Where a run puts
parts that share no variable side by side, the theorems are about the
specification of each part by itself. Every safety
property of a passing run, invariant, action property or refinement, has a
theorem.

## 6. Plan

1. Abstract specifications: an access-control object that `KeyBroker` implements
   (grant only while live), and a spacing server that `RateLimiter` implements.
2. Models: the indexer's score with an abstract decay, and the throttled provider.

## 7. Not modelled

Byte formats (scripts, preimages, JSON, base58), number theory (Rabin, bignum,
Groth16, MiMC7), text matching (the auto-exec linter) and pure I/O (HTTP
transport, key files, scripts that only print) are left out: they have no state
machine, or their arithmetic is out of a model checker's reach, and the
repository pins them with golden vectors. The reputation score is floating point
and has no state; the stake policy is one comparison of amounts.
