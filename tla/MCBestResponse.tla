--------------------------- MODULE MCBestResponse ---------------------------
(* BestResponse on small instances.  No reward is another one's negation,  *)
(* and no value estimate is a reward.                                      *)
EXTENDS BestResponse

MCRewards == {0, 2}
MCMasks == {{0}}
MCCritic == [s \in 0 .. NumSteps |-> 5 + 10 ^ s]
MCConfigs == {[seeds |-> 0, warm |-> FALSE, match |-> TRUE],
              [seeds |-> 1, warm |-> TRUE, match |-> TRUE],
              [seeds |-> 2, warm |-> TRUE, match |-> FALSE]}
=============================================================================
