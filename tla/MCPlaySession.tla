---------------------------- MODULE MCPlaySession ----------------------------
(* PlaySession on small instances.                                         *)
EXTENDS PlaySession

MCMasks == {{0, 1}, {1, 2}}

(* A tie of an odd pot, which costs seat 0 a chip, and a hand won.         *)
MCUtilities == {[p \in Seats |-> p - 1], [p \in Seats |-> 2 - 4 * p]}
=============================================================================
