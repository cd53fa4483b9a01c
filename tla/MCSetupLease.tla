---------------------------- MODULE MCSetupLease ----------------------------
(* SetupLease with two setups, two inferences and two environments.         *)
EXTENDS SetupLease, TLC

ProcessSymmetry ==
  Permutations(Setups) \cup Permutations(Jobs) \cup Permutations(Environments)
=============================================================================
