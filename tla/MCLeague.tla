------------------------------ MODULE MCLeague ------------------------------
(* League on small instances.  No reward is another one's negation.        *)
EXTENDS League

MCRewards == {0, 2}
MCMasks == {{0, 1}, {1, 2, 3}}
MCAnchors == <<"pair_all_in", "always_raise">>
=============================================================================
