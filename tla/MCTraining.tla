----------------------------- MODULE MCTraining -----------------------------
(* Training and TrainingRun on small instances.  The critic's values are   *)
(* pairwise distinct and none is the other's negation.                     *)
EXTENDS TrainingRun, TLC

MCRewards == {-1, 2}
MCOneReward == {2}
MCCritic == [s \in 0 .. NumSteps |-> s * s + s + 3]

Symmetry == Permutations(Envs)
=============================================================================
