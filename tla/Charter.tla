------------------------------ MODULE Charter ------------------------------
(***************************************************************************)
(* The charter: the prose in legal/ with its parameter block, the issuer's *)
(* signature beside it, and the identity that commits to both.             *)
(* scripts/deploy_lib.c signs and deploys, scripts/verify_ricardian_lib.c  *)
(* audits, over ricardian_charter.c and atlas_identity.c.  Both read and   *)
(* write the same two files without a lock.  Hashes and signatures are the *)
(* tuples they are made from; a parameter line is <<key, value>>, and <<>> *)
(* when it does not parse.                                                 *)
(***************************************************************************)
EXTENDS Integers, FiniteSets, SequencesExt

CONSTANTS REQUIRED_KEYS,   \* the modelled parameters
          Drafts,          \* bound: proses a repository may start with
          Editions,        \* bound: proses it may be changed to
          Keys,            \* signing keys of issuers
          Bindings,        \* bound: deployment parameters in the environment
          AgentdLimits,    \* the limits that agentd puts into every identity
          NameHash,        \* the hash of a state file's name, which is no charter's
          MaxDeploys,      \* bound: runs of deploy
          None, Partial       \* no file, and a file cut short

ASSUME CharterConstants ==
  /\ \A p \in Drafts \cup Editions : p.block \in BOOLEAN /\ p.lines \in Seq({<<>>} \cup STRING \X Int)
  /\ IsFiniteSet(REQUIRED_KEYS)
  /\ \A b \in Bindings : b.max \in Int /\ b.conf \in Int
  /\ AgentdLimits \subseteq STRING \X Int
  /\ None # Partial /\ None \notin Keys /\ MaxDeploys \in Nat

VARIABLES prose,     \* legal/ricardian-prose.md
          sidecar,   \* legal/ricardian-prose.sig: None, Partial, or a signature
          outputs,   \* identity outputs on the chain, in order
          deploy,    \* deploy_run: its step and what it holds
          audit,     \* verify_ricardian_run: its step and what it holds
          signed     \* history: what each deploy run has signed, in order
charterVars == <<prose, sidecar, outputs, deploy, audit, signed>>

-----------------------------------------------------------------------------
(* parse_charter_params: the lines first, then the required keys, and only  *)
(* then a key the contract has no field for.  (Mutant: a later line for the *)
(* same key replaces the earlier one.)                                      *)
scan_lines_last_wins(lines) ==
  FoldLeft(LAMBDA s, l :
             IF s.err # "" THEN s
             ELSE IF l = <<>> THEN [s EXCEPT !.err = "unparseable"]
             ELSE [s EXCEPT !.found = {f \in @ : f[1] # l[1]} \cup {l}],
           [found |-> {}, err |-> ""], lines)
scan_line(s, l) ==
  IF s.err # "" THEN s
  ELSE IF l = <<>> THEN [s EXCEPT !.err = "unparseable"]
  ELSE IF \E f \in s.found : f[1] = l[1] THEN [s EXCEPT !.err = "duplicate"]
  ELSE [s EXCEPT !.found = @ \cup {l}]
scan_lines(lines) == FoldLeft(scan_line, [found |-> {}, err |-> ""], lines)

parse_charter_params(p) ==
  LET s == scan_lines(p.lines)
      value(k) == {f[2] : f \in {g \in s.found : g[1] = k}} IN
  [params |-> s.found,
   err |-> IF ~ p.block THEN "no block"
           ELSE IF s.err # "" THEN s.err
           ELSE IF \E k \in REQUIRED_KEYS : value(k) = {} THEN "missing"
           ELSE IF \E k \in REQUIRED_KEYS : \E v \in value(k) : v <= 0 THEN "not positive"
           ELSE IF \E f \in s.found : f[1] \notin REQUIRED_KEYS THEN "unknown"
           ELSE ""]
Parses(p) == parse_charter_params(p).err = ""

compute_ricardian_hash(p, binding) == <<p, binding>>
sign_charter(p, binding, key) ==
  [issuer_pubkey |-> key, binding |-> binding, ricardian_hash |-> compute_ricardian_hash(p, binding),
   signature |-> <<key, compute_ricardian_hash(p, binding)>>]
verify_charter_signature(p, sig) ==
  /\ sig.ricardian_hash = compute_ricardian_hash(p, sig.binding)
  /\ sig.signature = <<sig.issuer_pubkey, compute_ricardian_hash(p, sig.binding)>>

(* The contract that stands for a prose, its owner and a binding.           *)
build_atlas_instance(p, owner, binding) ==
  {i \in {[kind |-> "ricardiantea", owner |-> owner, binding |-> binding,
           hash |-> compute_ricardian_hash(p, binding), params |-> parse_charter_params(p).params]} : Parses(p)}

-----------------------------------------------------------------------------
(* deploy_run: the key, the guards on the slashing policy, the prose, the   *)
(* instance and the signature; then the sidecar, then the gate.             *)
NoDeploy == [pc |-> "idle"]
SlashingPolicyOK(b) == b.max > 0 /\ b.conf \in 1..6
DeployBegins ==
  /\ deploy = NoDeploy /\ Len(signed) < MaxDeploys
  /\ \E key \in Keys, b \in Bindings :
       /\ SlashingPolicyOK(b)
       /\ \E i \in build_atlas_instance(prose, key, b) :
            /\ deploy' = [pc |-> "sign", instance |-> i, sig |-> sign_charter(prose, b, key)]
            /\ signed' = Append(signed, [key |-> key, prose |-> prose, hash |-> compute_ricardian_hash(prose, b)])
  /\ UNCHANGED <<prose, sidecar, outputs, audit>>
(* Not a usable key, policy, prose or artifact: nothing was written.        *)
DeployRefused ==
  /\ deploy = NoDeploy /\ \E b \in Bindings : ~ SlashingPolicyOK(b) \/ ~ Parses(prose)
  /\ UNCHANGED charterVars

(* write_file truncates the sidecar and then fills it.                      *)
OpenSidecar ==
  /\ deploy.pc = "sign" /\ deploy' = [deploy EXCEPT !.pc = "write"] /\ sidecar' = Partial
  /\ UNCHANGED <<prose, outputs, audit, signed>>
WriteSidecar ==
  /\ deploy.pc = "write" /\ deploy' = [deploy EXCEPT !.pc = "gate"] /\ sidecar' = deploy.sig
  /\ UNCHANGED <<prose, outputs, audit, signed>>

(* verify, build the genesis script, and stop here on a dry run; or fail,   *)
(* or be killed, at any point.  What was written stays.                     *)
DeployEnds == deploy # NoDeploy /\ deploy' = NoDeploy /\ UNCHANGED <<prose, sidecar, outputs, audit, signed>>
(* The broadcast; its answer may be lost, which is a failure to the caller. *)
DeployBroadcast ==
  /\ deploy.pc = "gate" /\ deploy' = NoDeploy /\ outputs' = Append(outputs, deploy.instance)
  /\ UNCHANGED <<prose, sidecar, audit, signed>>

-----------------------------------------------------------------------------
(* verify_ricardian_run.                                                    *)
NoAudit == [pc |-> "idle"]
AuditFails == audit # NoAudit /\ audit' = NoAudit
AuditUnchanged == UNCHANGED <<prose, sidecar, outputs, deploy, signed>>

ReadProse ==
  /\ audit = NoAudit /\ Parses(prose)
  /\ audit' = [pc |-> "sig", prose |-> prose]
  /\ AuditUnchanged

(* The issuer must be the pinned Elder; without a pin, or without a file,   *)
(* only ALLOW_UNPINNED_ISSUER lets the audit go on (unpinned and without a  *)
(* file it goes on anyway).                                                 *)
issuer_trusted(sig, elder, allow) == IF elder # None THEN sig.issuer_pubkey = elder ELSE allow
(* (Mutant: a missing sidecar only leaves a note.)                          *)
SidecarAccepted_if_missing(elder, allow) ==
  IF sidecar = None THEN TRUE
  ELSE sidecar # Partial /\ verify_charter_signature(audit.prose, sidecar) /\ issuer_trusted(sidecar, elder, allow)
SidecarAccepted(elder, allow) ==
  IF sidecar = None THEN elder = None \/ allow
  ELSE sidecar # Partial /\ verify_charter_signature(audit.prose, sidecar) /\ issuer_trusted(sidecar, elder, allow)
ReadSidecar ==
  /\ audit.pc = "sig"
  /\ \/ \E elder \in Keys \cup {None}, allow \in BOOLEAN :
          /\ SidecarAccepted(elder, allow)
          /\ audit' = [pc |-> "chain", prose |-> audit.prose, elder |-> elder, allow |-> allow]
     \/ (\E elder \in Keys \cup {None}, allow \in BOOLEAN : ~ SidecarAccepted(elder, allow)) /\ AuditFails
  /\ AuditUnchanged

(* The expected script, from the environment and the prose that was read.   *)
(* The hash of an AgentTea identity comes from the environment, as do its   *)
(* keys, which either match or make the audit fail.                         *)
AgentTeaIdentity(owner, rhash, params) ==
  [kind |-> "agenttea", owner |-> owner, binding |-> None, hash |-> rhash, params |-> params]
build_ricardiantea_script(elder, binding) == build_atlas_instance(audit.prose, elder, binding)
build_agenttea_script(elder, rhash) == {AgentTeaIdentity(elder, rhash, parse_charter_params(audit.prose).params)}
Expected(elder, binding, rhash) ==
  IF elder = None THEN {} ELSE build_ricardiantea_script(elder, binding) \cup build_agenttea_script(elder, rhash)

(* VERIFY_IDENTITY_TXID is optional; the comparison is of whole scripts.    *)
Passed(txid) == audit' = [pc |-> "passed", prose |-> audit.prose, elder |-> audit.elder, allow |-> audit.allow, txid |-> txid]
CheckChain ==
  /\ audit.pc = "chain"
  /\ \/ Passed(0)
     \/ \E t \in 1..Len(outputs), b \in Bindings, h \in {o.hash : o \in ToSet(outputs)} :
          outputs[t] \in Expected(audit.elder, b, h) /\ Passed(t)
     \/ AuditFails        \* a mismatch, a missing variable, or no answer
  /\ AuditUnchanged
AuditEnds == audit.pc = "passed" /\ AuditFails /\ AuditUnchanged

-----------------------------------------------------------------------------
(* People: the prose is edited, the sidecar is lost, and agentd deploys an  *)
(* AgentTea identity.  It reads no prose: its limits are built in, and the  *)
(* hash is RICARDIAN_HASH, which may be any charter's, or that of the state *)
(* file's name (which stands for any hash that is no charter's).            *)
Edit == \E p \in Editions : prose' = p /\ UNCHANGED <<sidecar, outputs, deploy, audit, signed>>
LoseSidecar == sidecar' = None /\ UNCHANGED <<prose, outputs, deploy, audit, signed>>
RICARDIAN_HASH == {compute_ricardian_hash(p, b) : p \in Editions, b \in {c \in Bindings : SlashingPolicyOK(c)}}
AgentdDeploys ==
  /\ outputs = <<>>         \* bound: one such identity
  /\ \E key \in Keys, rhash \in RICARDIAN_HASH \cup {NameHash} : outputs' = <<AgentTeaIdentity(key, rhash, AgentdLimits)>>
  /\ UNCHANGED <<prose, sidecar, deploy, audit, signed>>

CharterInit ==
  /\ prose \in Drafts \cup Editions /\ sidecar = None /\ outputs = <<>>
  /\ deploy = NoDeploy /\ audit = NoAudit /\ signed = <<>>
CharterNext ==
  \/ DeployBegins \/ DeployRefused \/ OpenSidecar \/ WriteSidecar \/ DeployEnds \/ DeployBroadcast
  \/ ReadProse \/ ReadSidecar \/ CheckChain \/ AuditEnds
  \/ Edit \/ LoseSidecar \/ AgentdDeploys

-----------------------------------------------------------------------------
(* "The prose is the single source of truth": a prose is accepted exactly   *)
(* when its block holds each required parameter once, positive, and nothing *)
(* else, whatever the order of its lines; and every identity that deploy    *)
(* put on the chain carries the parameters of the very prose its hash       *)
(* commits to, which its owner signed, however the prose was edited while   *)
(* the deployment ran.                                                      *)
WellFormed(p) ==
  /\ p.block /\ Len(p.lines) = Cardinality(REQUIRED_KEYS)
  /\ \A k \in REQUIRED_KEYS : \E i \in 1..Len(p.lines) : p.lines[i] # <<>> /\ p.lines[i][1] = k /\ p.lines[i][2] > 0
PolicyFollowsProse ==
  /\ Parses(prose) <=> WellFormed(prose)
  /\ \A t \in 1..Len(outputs) : outputs[t].kind = "ricardiantea" =>
       /\ \E i \in 1..Len(signed) : signed[i].key = outputs[t].owner /\ signed[i].hash = outputs[t].hash
       /\ outputs[t].params = ToSet(outputs[t].hash[1].lines) /\ WellFormed(outputs[t].hash[1])
       /\ outputs[t].hash[2] = outputs[t].binding

(* What an audit that passes is worth, also if the files change while it    *)
(* runs: under a pinned Elder, the Elder signed the prose that was read; and*)
(* when it names a RicardianTea output, then the Elder signed that very     *)
(* prose with the binding the output commits to, whatever the sidecar said  *)
(* and even if ALLOW_UNPINNED_ISSUER was set.                               *)
AuditMeansSigned ==
  audit.pc = "passed" =>
    /\ audit.elder # None /\ ~ audit.allow =>
         \E i \in 1..Len(signed) : signed[i].key = audit.elder /\ signed[i].prose = audit.prose
    /\ audit.txid # 0 /\ outputs[audit.txid].kind = "ricardiantea" =>
         \E i \in 1..Len(signed) :
           signed[i].key = audit.elder /\ signed[i].prose = audit.prose /\ signed[i].hash = outputs[audit.txid].hash

(* verify_ricardian_lib.c of an identity that passes, of either kind:       *)
(* "commits exactly this charter + deployment params".                      *)
AuditedCharterIsCommitted ==
  audit.pc = "passed" /\ audit.txid # 0 =>
    \E b \in Bindings : outputs[audit.txid].hash = compute_ricardian_hash(audit.prose, b)
=============================================================================
