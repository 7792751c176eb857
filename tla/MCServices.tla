----------------------------- MODULE MCServices -----------------------------
(* Instance: the services next to the chain, which share no state; a        *)
(* behaviour is about one of them.                                          *)
EXTENDS ManifestRegistry, RicardianThread, Sandbox, Charter
CONSTANTS x, y, z, id1, id2

Manifest(id, v, ref) == [id |-> id, version |-> v, publish_ref |-> ref]
MCRecord == {Manifest(x, 1, "empty"), Manifest(x, 2, "given"), Manifest(y, 1, "absent"), Manifest(z, 1, "given")}

(* Proses: every block of up to three lines, in every order, and none at    *)
(* all; then two that are in order.                                         *)
Line == {<<"perTx", 1>>, <<"perTx", 0>>, <<"daily", 2>>, <<"other", 1>>, <<>>}
Prose(t, block, ls) == [text |-> t, block |-> block, lines |-> ls]
MCDrafts == {Prose(1, TRUE, ls) : ls \in UNION {[1..n -> Line] : n \in 0..3}} \cup {Prose(1, FALSE, <<>>)}
MCEditions == {Prose(t, TRUE, <<<<"perTx", t>>, <<"daily", 2>>>>) : t \in {1, 3}}
MCAgentdLimits == {<<"perTx", 1>>, <<"daily", 2>>}
MCBindings == {[max |-> m, conf |-> c] : m \in {0, 1}, c \in {6, 7}}

Symm == Permutations({id1, id2})

VARIABLE service
Init ==
  /\ RegistryInit /\ ThreadInit /\ SandboxInit
  /\ \/ service \in {"registry", "thread", "sandbox"} /\ CharterInit /\ prose = Prose(1, FALSE, <<>>)
     \/ service = "charter" /\ CharterInit
Next ==
  \/ service = "registry" /\ RegistryNext /\ UNCHANGED <<threadVars, sandboxVars, charterVars, service>>
  \/ service = "thread" /\ ThreadNext /\ UNCHANGED <<registryVars, sandboxVars, charterVars, service>>
  \/ service = "sandbox" /\ SandboxNext /\ UNCHANGED <<registryVars, threadVars, charterVars, service>>
  \/ service = "charter" /\ CharterNext /\ UNCHANGED <<registryVars, threadVars, sandboxVars, service>>
vars == <<registryVars, threadVars, sandboxVars, charterVars, service>>
Spec == Init /\ [][Next]_vars
=============================================================================
