------------------------- MODULE MCSetupTransaction -------------------------
(* SetupTransaction with small bounds.                                     *)
EXTENDS SetupTransaction, TLC

PlanSymmetry == Permutations(Plans)
=============================================================================
