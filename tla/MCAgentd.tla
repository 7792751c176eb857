------------------------------ MODULE MCAgentd ------------------------------
(* agentd with a few overlapping processes on a short chain.                *)
EXTENDS Agentd, TLC

ProcSymmetry == Permutations(Procs)
=============================================================================
