---------------------------- MODULE MCLifecycle ----------------------------
(* Instance: one run of each lifecycle script next to a plain deploy.       *)
EXTENDS Lifecycle
CONSTANTS d, s, b

MCScript == [r \in Runs |-> CASE r = d -> "deploy" [] r = s -> "smoke" [] r = b -> "bonsai"]
(* One exact coin; the smoke's three fees to the satoshi, and one more; two *)
(* comfortable coins; dust left by the deploy; more coins than inputs.      *)
MCWallets == { <<14953>>, <<14954>>, <<20000, 15000>>, <<2000, 1000, 900, 800>>, <<2369, 14000>> }
=============================================================================
