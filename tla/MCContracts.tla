---------------------------- MODULE MCContracts ----------------------------
(* Instance: the contracts on the chain, which share nothing.  A behaviour   *)
(* is about identities that anybody with the right keys spends, or about one *)
(* publisher's releases, with two honest attestors and one that is not.      *)
EXTENDS IdentityChain, Releases, TLC
CONSTANTS g1, g2, a1, a2, a3, r1, r2

(* Guardians, honest attestors and releases are alike.                       *)
Symm == Permutations({g1, g2}) \cup Permutations({a1, a2}) \cup Permutations({r1, r2})

VARIABLE family
Init ==
  /\ ChainInit /\ ReleasesInit /\ family \in {"identities", "releases"}
  /\ family = "identities" => pub = Retired
Next ==
  \/ family = "identities" /\ ChainNext /\ UNCHANGED <<releasesVars, family>>
  \/ family = "releases" /\ ReleasesNext /\ UNCHANGED <<chainVars, family>>
Spec == Init /\ [][Next]_<<chainVars, releasesVars, family>>
=============================================================================
