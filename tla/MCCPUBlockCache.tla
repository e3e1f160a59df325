-------------------------- MODULE MCCPUBlockCache --------------------------
(* CPUBlockCache for TLC: the hashes are interchangeable. *)
EXTENDS CPUBlockCache, TLC

Symmetry == Permutations(Keys)
=============================================================================
